\* Every line of up to four characters, alone and after "a<-" or "a<-c:"; files
\* that follow the grammar, in all spellings; files that a run cannot use.
CONSTANTS
  Input <- AllInput
  MaxLength = 4
SPECIFICATION Spec
INVARIANTS TypeOK ReadsProductions SourcesAreListed NothingIsLost ConversionsFit
