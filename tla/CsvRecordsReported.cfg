CONSTANT Inputs <- MCInputs
SPECIFICATION Spec
INVARIANT CsvRecordsReported
CHECK_DEADLOCK FALSE
