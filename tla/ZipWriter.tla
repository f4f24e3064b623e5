----------------------------- MODULE ZipWriter -----------------------------
(***************************************************************************)
(* The records of ZipWriter in lib/tdf3/src/utils/zip-writer.ts, which is    *)
(* always in zip64 mode.  A file is the sequence of its pieces; a piece has  *)
(* its size in bytes and those of its fields that a reader looks at.  Names  *)
(* are strings that are only compared.                                       *)
(***************************************************************************)
EXTENDS Integers, Sequences

LOCAL_FILE_HEADER_FIXED_SIZE == 30
CENTRAL_DIRECTORY_RECORD_FIXED_SIZE == 46
END_OF_CENTRAL_DIRECTORY_RECORD_SIZE == 22
VERSION_NEEDED_TO_EXTRACT_ZIP64 == 45
ZIP64_EXTENDED_INFORMATION_EXTRA_FIELD_SIZE == 28

Saturated == -1       (* 0xffffffff in a field of 32 bits: see the extra field *)
Zip64 == 1            (* the tag of the zip64 extended information          *)

NameLength == [name \in {"0.payload", "0.manifest.json", "other"} |->
                 CASE name = "0.payload" -> 9
                   [] name = "0.manifest.json" -> 15
                   [] OTHER -> 5]

(* Sizes of 8 bytes follow each other in the field.                          *)
Zip64Field(values) == [id |-> Zip64, size |-> 8 * Len(values), values |-> values]

getLocalFileHeader(name) ==
  [kind |-> "local", name |-> name,
   size |-> LOCAL_FILE_HEADER_FIXED_SIZE + NameLength[name]
              + ZIP64_EXTENDED_INFORMATION_EXTRA_FIELD_SIZE]

writeDataDescriptor(name) == [kind |-> "descriptor", name |-> name, size |-> 24]

writeCentralDirectoryRecord(uncompressedSize, name, relativeOffset) ==
  [kind |-> "record", name |-> name,
   size |-> CENTRAL_DIRECTORY_RECORD_FIXED_SIZE + NameLength[name]
              + ZIP64_EXTENDED_INFORMATION_EXTRA_FIELD_SIZE,
   versionNeededToExtract |-> VERSION_NEEDED_TO_EXTRACT_ZIP64,
   uncompressedSize |-> Saturated,
   compressedSize |-> Saturated,
   relativeOffsetOfLocalHeader |-> Saturated,
   extraFields |->
     <<Zip64Field(<<uncompressedSize, uncompressedSize, relativeOffset>>)>>]

(* The zip64 record and its locator come first.                              *)
writeEndOfCentralDirectoryRecord(entries, sizeOfDirectory, offsetOfDirectory) ==
  [kind |-> "end", size |-> 56 + 20 + END_OF_CENTRAL_DIRECTORY_RECORD_SIZE,
   entries |-> entries,
   sizeOfDirectory |-> sizeOfDirectory,
   offsetOfDirectory |-> offsetOfDirectory]
=============================================================================
