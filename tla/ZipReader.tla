----------------------------- MODULE ZipReader -----------------------------
(***************************************************************************)
(* ZipReader of lib/tdf3/src/utils/zip-reader.ts, as operators on a file     *)
(* that is a sequence of pieces.  It finds the records of the central        *)
(* directory by their signature in the last bytes of the file, reads each    *)
(* entry's local header for the length of its variable part, and then knows  *)
(* where the bytes of an entry begin; it does not use the end record.        *)
(* Entries are stored, not compressed.  The signature is taken to occur      *)
(* only where a record begins.                                               *)
(***************************************************************************)
EXTENDS ZipWriter, FiniteSets, SequencesExt

TailSize == 1000      (* what getCentralDirectory reads of the end            *)

CONSTANT
  manifestMaxSize

(* Where each piece ends.                                                    *)
Ends(file) ==
  LET end[k \in 0 .. Len(file)] == IF k = 0 THEN 0 ELSE end[k - 1] + file[k].size
  IN end
Bytes(file) == Ends(file)[Len(file)]
Offset(file, k) == Ends(file)[k - 1]

(* The piece that begins at an offset.                                       *)
PieceAt(file, offset) ==
  file[CHOOSE k \in DOMAIN file : Offset(file, k) = offset]

(* The records whose beginning is in the tail, by their places in the file.  *)
getCDBuffers(file) ==
  {k \in DOMAIN file :
     /\ file[k].kind = "record"
     /\ Bytes(file) - TailSize <= Offset(file, k)
     /\ Offset(file, k) <= Bytes(file) - END_OF_CENTRAL_DIRECTORY_RECORD_SIZE}

-----------------------------------------------------------------------------
(* The extra fields of a record, each an id, the size of its data, and for   *)
(* the zip64 information the values in it.                                   *)
ExtraFieldLength(record) ==
  4 * Len(record.extraFields) + Bytes(record.extraFields)
Conflicting(record) ==
  \E i, j \in DOMAIN record.extraFields :
    i # j /\ record.extraFields[i].id = record.extraFields[j].id
HasZip64(record) == \E i \in DOMAIN record.extraFields : record.extraFields[i].id = Zip64
Zip64Values(record) ==
  record.extraFields[CHOOSE i \in DOMAIN record.extraFields :
                       record.extraFields[i].id = Zip64].values

(* The fields that the zip64 information replaces, in the order in which it  *)
(* has them: only those that are saturated are there.                        *)
Fields == <<"uncompressedSize", "compressedSize", "relativeOffsetOfLocalHeader">>
Replaced(record) == {n \in 1 .. 3 : record[Fields[n]] = Saturated}
PlaceInOrder(record, n) == Cardinality({m \in Replaced(record) : m <= n})

LooksAtExtraFields(record) ==
  /\ record.versionNeededToExtract >= VERSION_NEEDED_TO_EXTRACT_ZIP64
  /\ ExtraFieldLength(record) > 0

(* parseCDBuffer throws.                                                     *)
Unparsable(record) ==
  /\ LooksAtExtraFields(record)
  /\ \/ Conflicting(record)
     \/ HasZip64(record) /\ Len(Zip64Values(record)) < Cardinality(Replaced(record))

Value(record, n) ==
  IF LooksAtExtraFields(record) /\ HasZip64(record) /\ n \in Replaced(record)
    THEN Zip64Values(record)[PlaceInOrder(record, n)]
    ELSE record[Fields[n]]
UncompressedSize(record) == Value(record, 1)
OffsetOfHeader(record) == Value(record, 3)

(* adjustHeaders: the variable part of the local header need not be that of  *)
(* the record (mutant: it is taken to be).                                   *)
HeaderLengthOfRecord(file, record) ==
  LOCAL_FILE_HEADER_FIXED_SIZE + NameLength[record.name] + ExtraFieldLength(record)
HeaderLength(file, record) ==
  PieceAt(file, OffsetOfHeader(record)).size

(* Where an entry's bytes are.                                               *)
Located(file, record) ==
  [name |-> record.name,
   start |-> OffsetOfHeader(record) + HeaderLength(file, record),
   size |-> UncompressedSize(record)]

-----------------------------------------------------------------------------
(* What getPayloadSegment and getManifest go by: the first record of a name. *)
FirstNamed(file, name) ==
  LET named == {k \in getCDBuffers(file) : file[k].name = name}
  IN file[CHOOSE k \in named : \A j \in named : k <= j]
Entries(file) == {Located(file, FirstNamed(file, file[k].name)) : k \in getCDBuffers(file)}

(* getCentralDirectory and getManifest succeed.                              *)
DirectoryParses(file) == \A k \in getCDBuffers(file) : ~Unparsable(file[k])
ManifestFits(file) ==
  \E entry \in Entries(file) :
    entry.name = "0.manifest.json" /\ entry.size <= manifestMaxSize

-----------------------------------------------------------------------------
(* What is really in a file: an entry is the pieces between its local header *)
(* and its data descriptor or whatever else follows.                         *)
AfterData(file, header) ==
  CHOOSE k \in DOMAIN file :
    /\ header < k /\ file[k].kind # "data"
    /\ \A j \in header + 1 .. k - 1 : file[j].kind = "data"
EntryAt(file, header) ==
  [name |-> file[header].name,
   start |-> Ends(file)[header],
   size |-> Offset(file, AfterData(file, header)) - Ends(file)[header]]

IsHeader(file, k, name) == file[k].kind = "local" /\ file[k].name = name
TrueEntry(file, name) ==
  EntryAt(file, CHOOSE k \in DOMAIN file : IsHeader(file, k, name))

(* What every writer of archives sees to.  A record has the size and the     *)
(* offset of its entry, or has saturated fields for them, and then zip64     *)
(* information, whose values are those of the saturated fields, in order     *)
(* (it may have others after them, or stop short).                           *)
When(condition, value) == IF condition THEN <<value>> ELSE <<>>
LeftToZip64(record, size, offset) ==
  When(record.uncompressedSize = Saturated, size)
    \o When(record.compressedSize = Saturated, size)
    \o When(record.relativeOffsetOfLocalHeader = Saturated, offset)

IsRecordOf(record, size, offset) ==
  LET left == LeftToZip64(record, size, offset)
      extra == record.extraFields
  IN /\ record.uncompressedSize \in {size, Saturated}
     /\ record.compressedSize \in {size, Saturated}
     /\ record.relativeOffsetOfLocalHeader \in {offset, Saturated}
     /\ left # <<>> => /\ record.versionNeededToExtract >= VERSION_NEEDED_TO_EXTRACT_ZIP64
                       /\ HasZip64(record)
     /\ extra \in Seq(ToSet(extra))
     /\ \A i \in DOMAIN extra :
          /\ extra[i].size \in Nat
          /\ extra[i].id = Zip64 =>
               /\ extra[i].values \in Seq(Nat)
               /\ \A n \in DOMAIN extra[i].values \cap DOMAIN left :
                    extra[i].values[n] = left[n]

(* An entry's name is its own, and the end record comes last.                *)
IsArchive(file) ==
  /\ file \in Seq(ToSet(file)) /\ file # <<>>
  /\ \A k \in DOMAIN file : file[k].size \in Nat \ {0}
  /\ file[Len(file)].kind = "end"
  /\ file[Len(file)].size >= END_OF_CENTRAL_DIRECTORY_RECORD_SIZE
  /\ \A j, k \in DOMAIN file :
       file[j].kind = "local" /\ IsHeader(file, k, file[j].name) => j = k
  /\ \A k \in DOMAIN file : file[k].kind = "record" =>
       \E h \in DOMAIN file :
         /\ IsHeader(file, h, file[k].name)
         /\ IsRecordOf(file[k], EntryAt(file, h).size, Offset(file, h))

(* What the reader can be expected to open: the whole central directory is   *)
(* in the tail, an extra field occurs once and has a value for each field    *)
(* that is saturated, and the manifest is there and of a sensible size.      *)
Readable(file) ==
  LET records == {k \in DOMAIN file : file[k].kind = "record"}
  IN /\ \A k \in records :
          /\ Bytes(file) - Offset(file, k) <= TailSize
          /\ ~Conflicting(file[k])
          /\ HasZip64(file[k]) =>
               Len(Zip64Values(file[k])) >= Cardinality(Replaced(file[k]))
     /\ \E k \in records : file[k].name = "0.manifest.json"
     /\ TrueEntry(file, "0.manifest.json").size <= manifestMaxSize
=============================================================================
