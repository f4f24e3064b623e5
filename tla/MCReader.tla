------------------------------ MODULE MCReader ------------------------------
(* Readers of five kinds.  Of an archive of this SDK with a list of servers  *)
(* in the options, and three calls of any operation.  With every combination *)
(* of options, and one decryption.  With a platform, one decryption and a    *)
(* registry that changes while its pages are read.  Of archives of other     *)
(* writers, with one call for the manifest.  Of a URL, with two calls.       *)
EXTENDS Reader

CONSTANTS kasA, kasB, kasC, kasP

(* An archive of another writer: the order of its entries, which fields of   *)
(* the records are in the zip64 information, what other extra fields there   *)
(* are, and how long comments are.                                           *)
Layouts ==
  [names : {<<"0.payload", "0.manifest.json">>, <<"0.manifest.json", "0.payload">>,
            <<"other", "0.manifest.json", "0.payload">>},
   saturated : {{}, {"uncompressedSize", "compressedSize"}, {"relativeOffsetOfLocalHeader"},
                {"uncompressedSize", "compressedSize", "relativeOffsetOfLocalHeader"}},
   others : {"none", "before", "after", "twice"},
   localExtra : {0, 9},
   comment : {0, 450},
   manifest : {40, 60}]

Bytes(pieces) == Archive!Bytes(pieces)
Other == [id |-> 2, size |-> 5]

Contents(l) ==
  LET Size(name) == IF name = "0.manifest.json" THEN l.manifest ELSE 100
      Of(name) == <<[kind |-> "local", name |-> name,
                     size |-> 30 + Archive!NameLength[name] + l.localExtra],
                    [kind |-> "data", name |-> name, size |-> Size(name)]>>
  IN FlattenSeq([k \in DOMAIN l.names |-> Of(l.names[k])])

RecordOf(l, contents, k) ==
  LET name == l.names[k]
      size == contents[2 * k].size
      offset == Bytes(SubSeq(contents, 1, 2 * (k - 1)))
      values == (IF "uncompressedSize" \in l.saturated THEN <<size, size>> ELSE <<>>)
                  \o (IF "relativeOffsetOfLocalHeader" \in l.saturated THEN <<offset>> ELSE <<>>)
      zip64 == IF values = <<>> THEN <<>> ELSE <<Archive!Zip64Field(values)>>
      extra == CASE l.others = "none" -> zip64
                 [] l.others = "before" -> <<Other>> \o zip64
                 [] l.others = "after" -> zip64 \o <<Other>>
                 [] OTHER -> <<Other>> \o zip64 \o <<Other>>
      Field(f, v) == IF f \in l.saturated THEN Archive!Saturated ELSE v
  IN [kind |-> "record", name |-> name,
      size |-> 46 + Archive!NameLength[name] + l.comment
                 + FoldLeft(LAMBDA sum, f : sum + 4 + f.size, 0, extra),
      versionNeededToExtract |-> IF l.saturated = {} THEN 20 ELSE 45,
      uncompressedSize |-> Field("uncompressedSize", size),
      compressedSize |-> Field("compressedSize", size),
      relativeOffsetOfLocalHeader |-> Field("relativeOffsetOfLocalHeader", offset),
      extraFields |-> extra]

ArchiveOf(l) ==
  LET contents == Contents(l)
  IN contents \o [k \in DOMAIN l.names |-> RecordOf(l, contents, k)]
       \o <<[kind |-> "end", size |-> 22]>>

(* The archive of TdfWriter.                                                 *)
Own ==
  LET payload == <<Archive!getLocalFileHeader("0.payload"),
                   [kind |-> "data", name |-> "0.payload", size |-> 100],
                   Archive!writeDataDescriptor("0.payload")>>
      manifest == <<Archive!getLocalFileHeader("0.manifest.json"),
                    [kind |-> "data", name |-> "0.manifest.json", size |-> 40],
                    Archive!writeDataDescriptor("0.manifest.json")>>
      records == <<Archive!writeCentralDirectoryRecord(100, "0.payload", 0),
                   Archive!writeCentralDirectoryRecord(40, "0.manifest.json", Bytes(payload))>>
  IN payload \o manifest \o records
       \o <<Archive!writeEndOfCentralDirectoryRecord(2, Bytes(records), Bytes(payload \o manifest))>>

Listed == [allowedKASEndpoints |-> {kasA}, ignoreAllowlist |-> FALSE,
           platformUrl |-> FALSE, authProvider |-> FALSE]

Shared ==
  [file : {Own}, remote : {FALSE}, zip : BOOLEAN, opts : {Listed}, kases : {{kasA}}, registry : {<<>>},
   changes : {FALSE}, ops : {Operations}, calls : {3}]

AnyOptions ==
  [file : {Own}, remote : {FALSE}, zip : {TRUE},
   opts : [allowedKASEndpoints : {NoList, {}, {kasA}}, ignoreAllowlist : BOOLEAN,
           platformUrl : BOOLEAN, authProvider : BOOLEAN],
   kases : {{kasA}}, registry : {<<kasA>>}, changes : {FALSE},
   ops : {{"decrypt"}}, calls : {1}]

Foreign ==
  [file : {ArchiveOf(l) : l \in Layouts}, remote : {FALSE}, zip : {TRUE}, opts : {Listed}, kases : {{kasA}},
   registry : {<<>>}, changes : {FALSE}, ops : {{"manifest"}}, calls : {1}]

WithPlatform ==
  [file : {Own}, remote : {FALSE}, zip : {TRUE},
   opts : [allowedKASEndpoints : {NoList}, ignoreAllowlist : {FALSE},
           platformUrl : {TRUE}, authProvider : BOOLEAN],
   kases : {{kasA}},
   registry : {<<kasA, kasB, kasC>>, <<kasB>>},
   changes : {TRUE}, ops : {{"decrypt"}}, calls : {1}]

Remote ==
  [file : {Own}, remote : {TRUE}, zip : BOOLEAN, opts : {Listed}, kases : {{kasA}},
   registry : {<<>>}, changes : {FALSE}, ops : {{"obligations", "close"}}, calls : {2}]

MCDeployments == Shared \cup AnyOptions \cup Foreign \cup WithPlatform \cup Remote

(* What is said of archives is said of all these files; the reader opens     *)
(* some of them and must refuse others.                                      *)
ASSUME FilesAreArchives ==
  /\ \A d \in MCDeployments : Archive!IsArchive(d.file)
  /\ \E c, d \in Foreign : Archive!Readable(c.file) /\ ~Archive!Readable(d.file)
=============================================================================
