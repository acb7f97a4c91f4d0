SPECIFICATION InputsSpec
CONSTANTS
  Tokens <- Words
  Lines <- FileLines
  Numeral <- Numerals
  Addresses = {"127.0.0.1", "0.0.0.0"}
  Names = {"TOKEN"}
  Long = {"long"}
  Split <- Parts
  Origins = {"http://a"}
  OriginLimit = 8
  MaxInput = 5
  Sizes = {7, 18, 24, 136, 144, 152, 184}
  Metadata <- Entries
  Tensors <- Directory
  Members <- Header
  Fields <- Protobuf
  Blocks <- TypeBlocks
  HeaderLengths = {12, 14}
  MaxCount = 3
  MaxWord = 1023
  Texts <- JsonTexts
  Literals = {"1", "1.5"}
  Integral = {"1"}
  Decoded <- Names2
  LongNames = {"long"}
  KeyLimit = 2
  MaxDepth = 1
  Streams <- ByteStreams
  Starts = {"GET", "MESSAGES", "OPTIONS"}
  KeyStarts = {"MESSAGES"}
  Field <- HeaderFields
  Length <- Lengths
  HeaderLimit = 8
  Capacity = 11
  ReplySize = 2
INVARIANTS RunsAsConfigured AcceptedIsSound ReadsWhatIsWritten FramingIsExact
