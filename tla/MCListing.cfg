CONSTANTS
  Dentries <- MCDentries
  Inodes <- MCInodes
  num_data_block = 3
  FOUR_KB = 3
  NameLength <- MCNameLength
  MAXIMUM_FILENAME_LENGTH = 5
  WORD = 64
  Process = 2
  Maximum_open_files = 4
  Names <- MCNames
  Uses <- MCUses
  Sizes = {5}
  SharedListing = TRUE
SPECIFICATION ListingSpec
PROPERTIES ListedAll
