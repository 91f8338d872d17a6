\* A header byte from 128 on is a negative char.
SPECIFICATION ReaderSpec
CONSTANT Lengths <- SomeLengths
INVARIANT ErrorMeansOverlong
