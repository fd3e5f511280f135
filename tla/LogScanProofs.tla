---------------------------- MODULE LogScanProofs ----------------------------
(***************************************************************************)
(* For every block size, prefix and file: the scan stays inside the file   *)
(* it measured, and what it leaves out precedes a line from before the     *)
(* window, but for the boundaries that split a number of %n and for files  *)
(* emptied after the search; and it makes finitely many turns, whatever    *)
(* the server and a rotation do to the file.                               *)
(***************************************************************************)
EXTENDS LogScan, TLAPS

IInv == TypeOK /\ (pc = "scan" => flen > 0 /\ ofs > -Block /\ ofs + Block <= flen)
               /\ (pc = "read" => ofs \in 0 .. flen /\ (emptied \/ ofs <= size))

\* Every initial state of the scan satisfies the inductive invariant.
LEMMA BoundsInit == Init => IInv
<1> SUFFICES ASSUME Init PROVE IInv
  OBVIOUS
<1>1. PICK s \in Scans : flen = s.flen /\ lines = s.lines
  BY DEF Init
<1>2. flen \in Nat /\ lines \subseteq [ofs : Nat, at : Times]
  <2>1. flen \in Nat
    BY <1>1, ScansAreFiles
  <2>2. lines \subseteq [ofs : 0 .. s.flen - Prefix, at : Times]
    BY <1>1, ScansAreFiles
  <2> QED BY <2>1, <2>2
<1>3. emptied \in BOOLEAN /\ pc \in {"scan", "done"}
  BY DEF Init
<1> QED BY <1>2, <1>3, SizesAreSizes DEF Init, IInv, TypeOK

\* Every step of the reader, of a rotation and of the server preserves it.
LEMMA BoundsStep == IInv /\ [Next]_vars => IInv'
<1> SUFFICES ASSUME IInv, [Next]_vars PROVE IInv'
  OBVIOUS
<1> USE SizesAreSizes
<1>1. CASE ScanFails
  BY <1>1 DEF IInv, TypeOK, ScanFails, file
<1>2. CASE ScanBlock
  <2> USE DEF file
  <2>1. BlockStart \in 0 .. flen
    BY <1>2 DEF IInv, TypeOK, ScanBlock, BlockStart
  <2>2. CASE pc' = "read"
    <3>1. BlockLen \in Nat /\ BlockStart + BlockLen <= size
      BY <1>2 DEF IInv, TypeOK, ScanBlock, BlockLen
    <3> QED BY <1>2, <2>1, <2>2, <3>1 DEF IInv, TypeOK, ScanBlock
  <2>3. CASE pc' = "scan"
    <3>1. BlockStart # 0 /\ ofs' = BlockStart - Block
      BY <1>2, <2>3 DEF ScanBlock
    <3> QED BY <1>2, <2>1, <2>3, <3>1 DEF IInv, TypeOK, ScanBlock
  <2> QED BY <1>2, <2>2, <2>3 DEF ScanBlock
<1>3. CASE ReadRest
  BY <1>3 DEF IInv, TypeOK, ReadRest, file
<1>4. CASE Truncate
  <2>1. emptied' \in BOOLEAN /\ (pc' = "read" => emptied')
    BY <1>4 DEF Truncate
  <2> QED BY <1>4, <2>1 DEF IInv, TypeOK, Truncate
<1>5. CASE Write
  <2>1. PICK n \in size + 1 .. flen :
          /\ size' = n
          /\ \E new \in SUBSET [ofs : size .. n - Prefix, at : {"new"}] :
               lines' = lines \cup new
    BY <1>5 DEF Write
  <2>2. lines' \subseteq [ofs : Nat, at : Times]
    <3>1. PICK new \in SUBSET [ofs : size .. n - Prefix, at : {"new"}] :
            lines' = lines \cup new
      BY <2>1
    <3>2. \A x \in size .. n - Prefix : x \in Nat
      BY <2>1 DEF IInv, TypeOK
    <3>3. new \subseteq [ofs : Nat, at : Times]
      BY <3>2 DEF Times
    <3> QED BY <3>1, <3>3 DEF IInv, TypeOK
  <2>3. size' \in 0 .. flen /\ size' > size
    BY <2>1 DEF IInv, TypeOK
  <2> QED BY <1>5, <2>2, <2>3 DEF IInv, TypeOK, Write
<1>6. CASE UNCHANGED vars
  BY <1>6 DEF IInv, TypeOK, vars, file
<1> QED BY <1>1, <1>2, <1>3, <1>4, <1>5, <1>6 DEF Next, Reader

\* The variables of the scan keep their types, the offsets their ranges.
THEOREM ScanTypeCorrect == Spec => []TypeOK
<1>1. IInv => TypeOK
  BY DEF IInv
<1> QED BY BoundsInit, BoundsStep, <1>1, PTL DEF Spec

\* The slice of the buffer that is read is never empty or too long, and never
\* reaches past the length that was measured.
THEOREM ReadsInBounds == Spec => []BlockInBounds
<1>1. IInv => BlockInBounds
  BY SizesAreSizes DEF IInv, TypeOK, BlockInBounds, BlockLen, BlockStart
<1> QED BY BoundsInit, BoundsStep, <1>1, PTL DEF Spec

-----------------------------------------------------------------------------
\* What a buffer from o on leaves out precedes a line that is older than the
\* window, unless o splits a %n number.
NothingBefore(o) ==
  \/ SplitsNumber(o)
  \/ \A l \in lines : l.at = "new" /\ l.ofs < o =>
       \E m \in lines : m.at = "old" /\ m.ofs > l.ofs

\* What the final seek skips.
SkipInv == /\ pc = "read" => emptied \/ NothingBefore(ofs)
           /\ pc = "done" => emptied \/ NothingBefore(from)

\* A block whose first time stamp is old holds an old line, unless it starts
\* with what is left of a number.
LEMMA OldBlockHasOldLine ==
  ASSUME IInv, NEW o \in Nat, NEW n \in Nat,
         FirstTS(o, n) = "old"
  PROVE  SplitsNumber(o) \/ \E m \in lines : m.at = "old" /\ m.ofs >= o
<1>1. CASE Cut(o, n) # {}
  BY <1>1 DEF Cut, SplitsNumber
<1> SUFFICES ASSUME Cut(o, n) = {}
             PROVE  \E m \in lines : m.at = "old" /\ m.ofs >= o
  BY <1>1
<1>2. First(o, n) # {} /\ (CHOOSE l \in First(o, n) : TRUE).at = "old"
  BY DEF FirstTS
<1>3. PICK m \in First(o, n) : m.at = "old"
  BY <1>2
<1>4. m \in lines /\ o <= m.ofs
  BY <1>3 DEF First, Whole
<1> QED BY <1>3, <1>4 DEF IInv, TypeOK

\* Each step that ends the search leaves nothing of the window behind.
LEMMA SkipStep ==
  IInv /\ SkipInv /\ [Next]_vars => SkipInv'
<1> SUFFICES ASSUME IInv, SkipInv, [Next]_vars PROVE SkipInv'
  OBVIOUS
<1>1. CASE ScanFails
  BY <1>1 DEF SkipInv, ScanFails
<1>2. CASE ScanBlock
  <2>1. CASE pc' = "read"
    <3>1. BlockStart \in Nat /\ BlockLen \in Nat
      BY <1>2, SizesAreSizes DEF IInv, TypeOK, ScanBlock, BlockStart, BlockLen
    <3>2. NothingBefore(BlockStart)
      <4>1. CASE BlockStart = 0
        BY <4>1 DEF NothingBefore, IInv, TypeOK
      <4>2. CASE FirstTS(BlockStart, BlockLen) = "old"
        <5>1. CASE SplitsNumber(BlockStart)
          BY <5>1 DEF NothingBefore
        <5>2. CASE ~SplitsNumber(BlockStart)
          <6>1. PICK m \in lines : m.at = "old" /\ m.ofs >= BlockStart
            BY <3>1, <4>2, <5>2, OldBlockHasOldLine
          <6> QED BY <3>1, <6>1 DEF NothingBefore, IInv, TypeOK
        <5> QED BY <5>1, <5>2
      <4> QED BY <1>2, <2>1, <4>1, <4>2 DEF ScanBlock
    <3>3. ofs' = BlockStart /\ lines' = lines
      BY <1>2, <2>1 DEF ScanBlock, file
    <3> QED BY <2>1, <3>2, <3>3 DEF SkipInv, NothingBefore, SplitsNumber
  <2>2. CASE pc' = "scan"
    BY <2>2 DEF SkipInv
  <2> QED BY <1>2, <2>1, <2>2 DEF ScanBlock
<1>3. CASE ReadRest
  BY <1>3 DEF SkipInv, NothingBefore, SplitsNumber, ReadRest, file
<1>4. CASE Truncate
  BY <1>4 DEF SkipInv, Truncate
<1>5. CASE Write
  <2>1. CASE pc = "read" /\ ~emptied
    <3>1. ofs <= size /\ ofs' = ofs
      BY <1>5, <2>1 DEF IInv, Write
    <3>2. PICK n \in size + 1 .. flen :
            \E new \in SUBSET [ofs : size .. n - Prefix, at : {"new"}] :
              lines' = lines \cup new
      BY <1>5 DEF Write
    <3>3. PICK new \in SUBSET [ofs : size .. n - Prefix, at : {"new"}] :
            lines' = lines \cup new
      BY <3>2
    <3>4. \A l \in new : ~(l.ofs < ofs)
      <4>1. ofs \in Int /\ size \in Int /\ n \in Int
        BY <2>1, <3>2 DEF IInv, TypeOK
      <4> QED BY <3>1, <4>1, SizesAreSizes
    <3>5. NothingBefore(ofs)'
      <4>1. CASE SplitsNumber(ofs)
        <5>1. SplitsNumber(ofs)'
          BY <3>1, <3>3, <4>1 DEF SplitsNumber
        <5> QED BY <5>1 DEF NothingBefore
      <4>2. CASE \A l \in lines : l.at = "new" /\ l.ofs < ofs =>
                    \E m \in lines : m.at = "old" /\ m.ofs > l.ofs
        BY <3>1, <3>3, <3>4, <4>2 DEF NothingBefore
      <4> QED BY <2>1, <4>1, <4>2 DEF SkipInv, NothingBefore
    <3> QED BY <1>5, <2>1, <3>5 DEF SkipInv, Write
  <2>2. CASE pc = "scan" \/ emptied
    BY <1>5, <2>2 DEF SkipInv, Write
  <2> QED BY <1>5, <2>1, <2>2 DEF Write
<1>6. CASE UNCHANGED vars
  BY <1>6 DEF SkipInv, NothingBefore, SplitsNumber, vars, file
<1> QED BY <1>1, <1>2, <1>3, <1>4, <1>5, <1>6 DEF Next, Reader

\* Whatever the sizes and the file, and whatever a rotation and the server do to
\* it during the search, an in-window line is left out only if a line from before
\* the window was written after it, a block boundary fell into the number of a %n
\* prefix, or the file was emptied between the search and the reading.
THEOREM SeekIsEarlyEnough == Spec => []SeeksBeforeWindow
<1>1. Init => SkipInv
  <2> SUFFICES ASSUME Init PROVE SkipInv
    OBVIOUS
  <2>1. IInv
    BY BoundsInit
  <2> QED BY <2>1, SizesAreSizes DEF Init, SkipInv, NothingBefore, IInv, TypeOK
<1>2. IInv /\ SkipInv => SeeksBeforeWindow
  BY DEF SkipInv, NothingBefore, SeeksBeforeWindow
<1>3. IInv /\ SkipInv /\ [Next]_vars => SkipInv'
  BY SkipStep
<1> QED BY BoundsInit, BoundsStep, <1>1, <1>2, <1>3, PTL DEF Spec

-----------------------------------------------------------------------------
(***************************************************************************)
(* The action properties: what the invariant says of the state before a    *)
(* step, and the step itself.                                              *)
(***************************************************************************)

\* No byte escapes the search: a turn of the loop that goes on does so from where
\* the last block began, the shortened first block of the file included.
THEOREM NoByteSkipped == Spec => BlocksAreAdjacent
<1> DEFINE Adjacent == pc = "scan" /\ pc' = "scan" /\ ofs' # ofs
                         => BlockStart' + BlockLen' = BlockStart
<1>1. IInv /\ [Next]_vars => [Adjacent]_vars
  <2> SUFFICES ASSUME IInv, [Next]_vars, pc = "scan", pc' = "scan", ofs' # ofs
               PROVE  BlockStart' + BlockLen' = BlockStart
    OBVIOUS
  <2>1. ScanBlock
    BY DEF Next, Reader, ScanFails, ReadRest, Truncate, Write, vars, file
  <2>2. BlockStart # 0 /\ ofs' = BlockStart - Block
    BY <2>1 DEF ScanBlock
  <2>3. BlockStart \in Nat /\ Block \in Nat
    BY SizesAreSizes DEF IInv, TypeOK, BlockStart
  <2>4. BlockStart' = IF ofs' < 0 THEN 0 ELSE ofs'
    BY DEF BlockStart
  <2>5. BlockLen' = IF ofs' < 0 THEN Block + ofs' ELSE Block
    BY DEF BlockLen
  <2> QED BY <2>2, <2>3, <2>4, <2>5
<1> QED BY BoundsInit, BoundsStep, <1>1, PTL DEF Spec, BlocksAreAdjacent

-----------------------------------------------------------------------------
\* What there is to search below this place, and the last read: a variant.
ToSearch == IF pc = "scan" THEN ofs + Block + 1 ELSE IF pc = "read" THEN 1 ELSE 0

\* The search makes finitely many turns, whatever the file holds, and however
\* often it is emptied and written again meanwhile: each step of the reader makes
\* a natural number smaller, and no step of the others makes it larger.
THEOREM ScanRunsOut ==
  Spec => [](ToSearch \in Nat) /\ [][ToSearch' < ToSearch]_<<pc, ofs, from>>
<1> USE SizesAreSizes
<1>1. IInv => ToSearch \in Nat
  BY DEF IInv, TypeOK, ToSearch
<1>2. IInv /\ [Next]_vars => [ToSearch' < ToSearch]_<<pc, ofs, from>>
  <2> SUFFICES ASSUME IInv, [Next]_vars, ~UNCHANGED <<pc, ofs, from>>
               PROVE  ToSearch' < ToSearch
    OBVIOUS
  <2>1. CASE ScanFails
    BY <2>1 DEF IInv, TypeOK, ScanFails, ToSearch
  <2>2. CASE ScanBlock
    <3>1. CASE pc' = "read"
      BY <2>2, <3>1 DEF IInv, TypeOK, ScanBlock, ToSearch
    <3>2. CASE pc' = "scan"
      BY <2>2, <3>2 DEF IInv, TypeOK, ScanBlock, BlockStart, ToSearch
    <3> QED BY <2>2, <3>1, <3>2 DEF ScanBlock
  <2>3. CASE ReadRest
    BY <2>3 DEF IInv, TypeOK, ReadRest, ToSearch
  <2>4. CASE Truncate \/ Write \/ UNCHANGED vars
    BY <2>4 DEF Truncate, Write, vars
  <2> QED BY <2>1, <2>2, <2>3, <2>4 DEF Next, Reader
<1> QED BY BoundsInit, BoundsStep, <1>1, <1>2, PTL DEF Spec
=============================================================================
