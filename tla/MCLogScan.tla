------------------------------ MODULE MCLogScan ------------------------------
(***************************************************************************)
(* Every file of up to MaxLen bytes with up to three lines: up to three    *)
(* blocks, lines on, before and across every block boundary, time stamps   *)
(* in any order.                                                           *)
(***************************************************************************)
EXTENDS LogScan

CONSTANT MaxLen

Places(n) == [ofs : 0 .. n - Prefix, at : Times]

MCScans ==
  {[flen |-> n, lines |-> ls] :
     n \in 0 .. MaxLen,
     ls \in UNION {{{a, b, c} : a \in Places(n), b \in Places(n), c \in Places(n)} :
                     n \in Prefix .. MaxLen} \cup {{}}}

Apart(s) ==
  /\ \A l \in s.lines : l.ofs <= s.flen - Prefix
  /\ \A l, m \in s.lines : l.ofs < m.ofs => l.ofs + Prefix <= m.ofs
  /\ \A l, m \in s.lines : l.ofs = m.ofs => l = m

MCFiles == {s \in MCScans : Apart(s)}
=============================================================================
