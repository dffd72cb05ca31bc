------------------------------- MODULE Corpus -------------------------------
(***************************************************************************)
(* How the sources of a registry become document and element rows: the     *)
(* bytes are read from disk, cache or network, written into the cache that *)
(* all ingestions share, recorded, and extracted.                          *)
(*                                                                         *)
(* A "run" is ingest_node and extract_node of the pipeline; an "economy"   *)
(* load and a "register" (fetch_and_register) only collect the bytes.      *)
(*                                                                         *)
(* A hash is named by the bytes it is of.  A cache file of bytes b is      *)
(* absent, torn (opened and not yet written) or whole; a write is one step *)
(* between opening and renaming.  Of a document only its id, its hash and  *)
(* its elements are kept.                                                  *)
(***************************************************************************)
EXTENDS Naturals, SequencesExt, FiniteSetsExt

CONSTANTS
  Contents, Places, Ids, Numbers,
  ElementsOf,       (* numbers of the elements a content is extracted to   *)
  Registries,       (* sequences of entries                                *)
  Missing,          (* a registry that is not there                        *)
  NoPlace, NoPin,   (* entries without path and URL, without sha256_hash   *)
  Absent,           (* what a place without a document holds               *)
  NoBytes,
  Ingestors,
  MaxAttempts,      (* max_http_attempts                                   *)
  MaxStarts, MaxChanges, MaxCrashes   (* bounds on the history             *)

Kinds == {"run", "economy", "register"}
Entry == [id : Ids, local : BOOLEAN, place : Places \cup {NoPlace}, pin : Contents \cup {NoPin}]

ASSUME RegistryAssumption ==
  /\ Registries \subseteq Seq(Entry) \cup {Missing}
  /\ ElementsOf \in [Contents -> SUBSET Numbers]
  /\ \A r \in Registries \ {Missing} : \A i \in DOMAIN r : r[i].local => r[i].place # NoPlace
ASSUME NoneAssumption ==
  NoPlace \notin Places /\ {NoPin, Absent} \cap Contents = {} /\ Missing \notin Seq(Entry)
ASSUME BoundAssumption ==
  MaxAttempts \in Nat \ {0} /\ {MaxStarts, MaxChanges, MaxCrashes} \subseteq Nat

Bytes    == [of : Contents, whole : BOOLEAN]
Whole(c) == [of |-> c, whole |-> TRUE]

VARIABLES
  registry,
  world,      (* the content a place holds                                 *)
  tmp, bin,   (* the cache: `<sha>.bin.tmp` and `<sha>.bin` of each hash   *)
  document,   (* the hash in the row of each document                      *)
  element,    (* the bytes each element row was extracted from             *)
  pc, job,
  raced,      (* history: hashes whose `.tmp` two writers had open at once *)
  starts, changes, crashes

cache  == <<tmp, bin, raced>>
rows   == <<document, element>>
bounds == <<starts, changes, crashes>>
vars   == <<registry, world, cache, rows, pc, job, bounds>>

-----------------------------------------------------------------------------
(* The locals of an ingestion: the source at hand and the requests made    *)
(* for it, the bytes being cached and where the file opened for them is by *)
(* now, `documents` and `raw_bytes_by_doc`, and the sources that failed.   *)
(* `alone`, a history, says that no other ingestion has run meanwhile.     *)
Job == [kind : Kinds, localOnly : BOOLEAN, at : Nat, attempts : 0..MaxAttempts,
        bytes : Bytes \cup {NoBytes}, file : {"tmp", "bin", "unlinked"},
        documents : Seq([id : Ids, sha : Bytes]), raw : [Ids -> Bytes \cup {NoBytes}],
        failed : SUBSET Nat, alone : BOOLEAN]

Fresh == [kind |-> "run", localOnly |-> FALSE, at |-> 1, attempts |-> 0, bytes |-> NoBytes,
          file |-> "unlinked", documents |-> <<>>, raw |-> [d \in Ids |-> NoBytes],
          failed |-> {}, alone |-> TRUE]

TypeOK ==
  /\ registry \in Registries /\ world \in [Places -> Contents \cup {Absent}]
  /\ {tmp, bin} \subseteq [Bytes -> {"none", "torn", "whole"}] /\ raced \subseteq Bytes
  /\ document \in [Ids -> Bytes \cup {NoBytes}]
  /\ element \in [Ids -> [Numbers -> Bytes \cup {NoBytes}]]
  /\ pc \in [Ingestors -> {"idle", "source", "http", "open", "write", "replace", "record",
                           "extract", "finished", "failed"}]
  /\ job \in [Ingestors -> Job]
  /\ starts \in 0..MaxStarts /\ changes \in 0..MaxChanges /\ crashes \in 0..MaxCrashes

Init ==
  /\ registry \in Registries /\ world \in [Places -> Contents \cup {Absent}]
  /\ tmp = [b \in Bytes |-> "none"] /\ bin = tmp /\ raced = {}
  /\ document = [d \in Ids |-> NoBytes]
  /\ element = [d \in Ids |-> [n \in Numbers |-> NoBytes]]
  /\ pc = [w \in Ingestors |-> "idle"] /\ job = [w \in Ingestors |-> Fresh]
  /\ starts = 0 /\ changes = 0 /\ crashes = 0

-----------------------------------------------------------------------------
Busy(w) == pc[w] \notin {"idle", "finished", "failed"}

(* An ingestion begins with the registry.  A missing one raises ConfigError *)
(* or EconomyIngestError, neither of which ingest_node catches.             *)
Start(w, kind, localOnly) ==
  /\ ~Busy(w) /\ starts < MaxStarts
  /\ localOnly => kind = "run"
  /\ job' = [u \in Ingestors |->
               IF u = w THEN [Fresh EXCEPT !.kind = kind, !.localOnly = localOnly,
                                           !.alone = \A v \in Ingestors : ~Busy(v)]
                        ELSE [job[u] EXCEPT !.alone = FALSE]]
  /\ pc' = [pc EXCEPT ![w] = IF registry = Missing THEN "failed" ELSE "source"]
  /\ starts' = starts + 1
  /\ UNCHANGED <<registry, world, cache, rows, changes, crashes>>

Source(w) == registry[job[w].at]
AtSource(w) == pc[w] = "source" /\ job[w].at \in DOMAIN registry

SkipSource(w) ==
  /\ AtSource(w) /\ job[w].localOnly /\ ~Source(w).local
  /\ job' = [job EXCEPT ![w].at = @ + 1]
  /\ UNCHANGED <<registry, world, cache, rows, pc, bounds>>

(* Mutant: the first source that fails ends the loop.                      *)
NotReadStops(w) ==
  /\ job' = [job EXCEPT ![w].at = Len(registry) + 1, ![w].failed = @ \cup {job[w].at}]
  /\ pc' = [pc EXCEPT ![w] = IF job[w].kind = "run" THEN "source" ELSE "failed"]

(* IngestError: a run notes it and goes on; the others do not catch it.    *)
NotRead(w) ==
  /\ job' = [job EXCEPT ![w].at = @ + 1, ![w].attempts = 0, ![w].failed = @ \cup {job[w].at}]
  /\ pc' = [pc EXCEPT ![w] = IF job[w].kind = "run" THEN "source" ELSE "failed"]

Read(w, b) ==
  /\ job' = [job EXCEPT ![w].bytes = b, ![w].attempts = 0]
  /\ pc' = [pc EXCEPT ![w] = "open"]

(* What the cache returns for a hash: the file as it is, never hashed.     *)
Cached(b) == [of |-> b.of, whole |-> b.whole /\ bin[b] = "whole"]

ReadLocal(w) ==
  /\ AtSource(w) /\ Source(w).local /\ world[Source(w).place] # Absent
  /\ LET b == Whole(world[Source(w).place])
     IN  Read(w, IF bin[b] = "none" THEN b ELSE Cached(b))
  /\ UNCHANGED <<registry, world, cache, rows, bounds>>

NotThere(w) ==
  /\ AtSource(w)
  /\ \/ Source(w).local /\ world[Source(w).place] = Absent
     \/ Source(w).place = NoPlace /\ ~job[w].localOnly
  /\ NotRead(w)
  /\ UNCHANGED <<registry, world, cache, rows, bounds>>

Remote(w) == AtSource(w) /\ ~Source(w).local /\ Source(w).place # NoPlace /\ ~job[w].localOnly
Pinned(w) == Source(w).pin # NoPin /\ bin[Whole(Source(w).pin)] # "none"

ReadPinned(w) ==
  /\ Remote(w) /\ Pinned(w)
  /\ Read(w, Cached(Whole(Source(w).pin)))
  /\ UNCHANGED <<registry, world, cache, rows, bounds>>

Request(w) ==
  /\ Remote(w) /\ ~Pinned(w)
  /\ pc' = [pc EXCEPT ![w] = "http"]
  /\ UNCHANGED <<registry, world, cache, rows, job, bounds>>

(* One attempt is answered: 200 with the content, or a permanent error.    *)
Answer(w) ==
  /\ pc[w] = "http"
  /\ LET c == world[Source(w).place]
     IN  IF c # Absent THEN Read(w, Whole(c)) ELSE NotRead(w)
  /\ UNCHANGED <<registry, world, cache, rows, bounds>>

(* Or it fails in a way that is tried again: a transient status, which is  *)
(* an IngestError at the last attempt, or a transport error, which is an   *)
(* httpx error and ends the ingestion.                                     *)
Retry(w, transport) ==
  /\ pc[w] = "http"
  /\ IF job[w].attempts + 1 < MaxAttempts
       THEN job' = [job EXCEPT ![w].attempts = @ + 1] /\ UNCHANGED pc
       ELSE IF transport
              THEN pc' = [pc EXCEPT ![w] = "failed"] /\ UNCHANGED job
              ELSE NotRead(w)
  /\ UNCHANGED <<registry, world, cache, rows, bounds>>

-----------------------------------------------------------------------------
(* RawByteCache.store.  Two writers of one hash share the `.tmp` file: the *)
(* second truncates it, and a rename takes it from under whoever has it    *)
(* open, who then writes to the file wherever it is.                       *)
Writing(b) == {w \in Ingestors : pc[w] = "write" /\ job[w].bytes = b}

(* Mutant: the bytes are written in place, without a temporary file.       *)
OpenInPlace(w) ==
  /\ pc[w] = "open"
  /\ bin' = [bin EXCEPT ![job[w].bytes] = "torn"] /\ tmp' = [tmp EXCEPT ![job[w].bytes] = "torn"]
  /\ job' = [job EXCEPT ![w].file = "tmp"]
  /\ pc' = [pc EXCEPT ![w] = "write"]
  /\ UNCHANGED <<registry, world, raced, rows, bounds>>

Open(w) ==
  LET b == job[w].bytes
  IN  /\ pc[w] = "open"
      /\ tmp' = [tmp EXCEPT ![b] = "torn"]
      /\ raced' = IF \E u \in Ingestors : pc[u] \in {"write", "replace"} /\ job[u].bytes = b
                    THEN raced \cup {b} ELSE raced
      /\ job' = [job EXCEPT ![w].file = "tmp"]
      /\ pc' = [pc EXCEPT ![w] = "write"]
      /\ UNCHANGED <<registry, world, bin, rows, bounds>>

Write(w) ==
  /\ pc[w] = "write"
  /\ tmp' = IF job[w].file = "tmp" THEN [tmp EXCEPT ![job[w].bytes] = "whole"] ELSE tmp
  /\ bin' = IF job[w].file = "bin" THEN [bin EXCEPT ![job[w].bytes] = "whole"] ELSE bin
  /\ pc' = [pc EXCEPT ![w] = "replace"]
  /\ UNCHANGED <<registry, world, raced, rows, job, bounds>>

Replace(w) ==
  LET b == job[w].bytes
  IN  /\ pc[w] = "replace" /\ tmp[b] # "none"
      /\ bin' = [bin EXCEPT ![b] = tmp[b]] /\ tmp' = [tmp EXCEPT ![b] = "none"]
      /\ job' = [u \in Ingestors |->
                   IF u \notin Writing(b) THEN job[u]
                   ELSE [job[u] EXCEPT !.file = IF @ = "tmp" THEN "bin" ELSE "unlinked"]]
      /\ pc' = [pc EXCEPT ![w] = "record"]
      /\ UNCHANGED <<registry, world, raced, rows, bounds>>

(* Another writer has renamed the file: FileNotFoundError, caught nowhere. *)
ReplaceFails(w) ==
  /\ pc[w] = "replace" /\ tmp[job[w].bytes] = "none"
  /\ pc' = [pc EXCEPT ![w] = "failed"]
  /\ UNCHANGED <<registry, world, cache, rows, job, bounds>>

-----------------------------------------------------------------------------
(* Mutant: a row that is there is left alone.                              *)
SaveNew(d, b) == [document EXCEPT ![d] = IF @ = NoBytes THEN b ELSE @]

(* save_document                                                           *)
Save(d, b) == [document EXCEPT ![d] = b]

(* The bytes join the documents of this ingestion, those of an entry with  *)
(* the same id taking the place of the bytes before; fetch_and_register    *)
(* leaves out bytes it has already.                                        *)
Collect(j, d, b) ==
  LET Again == j.kind = "register" /\ \E k \in DOMAIN j.documents : j.documents[k].sha = b
  IN  [j EXCEPT !.at = @ + 1, !.bytes = NoBytes, !.raw[d] = b,
                !.documents = IF Again THEN @ ELSE Append(@, [id |-> d, sha |-> b])]

Record(w) ==
  LET d == Source(w).id
      b == job[w].bytes
  IN  /\ pc[w] = "record"
      /\ job' = [job EXCEPT ![w] = Collect(@, d, b)]
      /\ document' = IF job[w].kind = "run" THEN Save(d, b) ELSE document
      /\ pc' = [pc EXCEPT ![w] = "source"]
      /\ UNCHANGED <<registry, world, cache, element, bounds>>

EndSources(w) ==
  /\ pc[w] = "source" /\ job[w].at = Len(registry) + 1
  /\ pc' = [pc EXCEPT ![w] = IF job[w].kind = "run" THEN "extract" ELSE "finished"]
  /\ job' = [job EXCEPT ![w].at = 1]
  /\ UNCHANGED <<registry, world, cache, rows, bounds>>

Degraded(w) == job[w].failed # {} /\ job[w].documents = <<>>

(* Mutant: elements of an earlier extraction are kept as they were.        *)
SaveElementsNew(d, ns, b) ==
  [element EXCEPT ![d] = [n \in Numbers |-> IF n \in ns /\ @[n] = NoBytes THEN b ELSE @[n]]]

(* save_elements: rows of the elements extracted are written, rows of      *)
(* others stay.                                                            *)
SaveElements(d, ns, b) ==
  [element EXCEPT ![d] = [n \in Numbers |-> IF n \in ns THEN b ELSE @[n]]]

(* extract_node, one document: torn bytes give some of the elements.       *)
Extract(w, ns) ==
  /\ pc[w] = "extract" /\ job[w].at \in DOMAIN job[w].documents
  /\ LET d == job[w].documents[job[w].at].id
         b == job[w].raw[d]
     IN  /\ IF b.whole THEN ns = ElementsOf[b.of] ELSE ns \subseteq ElementsOf[b.of]
         /\ element' = SaveElements(d, ns, b)
  /\ job' = [job EXCEPT ![w].at = @ + 1]
  /\ UNCHANGED <<registry, world, cache, document, pc, bounds>>

(* An adapter raises, on whatever bytes; nothing catches it.               *)
ExtractFails(w) ==
  /\ pc[w] = "extract" /\ job[w].at \in DOMAIN job[w].documents
  /\ pc' = [pc EXCEPT ![w] = "failed"]
  /\ UNCHANGED <<registry, world, cache, rows, job, bounds>>

Finish(w) ==
  /\ pc[w] = "extract" /\ job[w].at = Len(job[w].documents) + 1
  /\ pc' = [pc EXCEPT ![w] = "finished"]
  /\ UNCHANGED <<registry, world, cache, rows, job, bounds>>

-----------------------------------------------------------------------------
(* A place changes; the process ends, and what it was writing stays as it  *)
(* is.                                                                     *)
Publish(p, c) ==
  /\ changes < MaxChanges /\ world[p] # c
  /\ world' = [world EXCEPT ![p] = c] /\ changes' = changes + 1
  /\ UNCHANGED <<registry, cache, rows, pc, job, starts, crashes>>

Crash ==
  /\ crashes < MaxCrashes
  /\ pc' = [w \in Ingestors |-> IF Busy(w) THEN "failed" ELSE pc[w]]
  /\ job' = [w \in Ingestors |-> IF Busy(w) THEN [Fresh EXCEPT !.alone = FALSE] ELSE job[w]]
  /\ crashes' = crashes + 1
  /\ UNCHANGED <<registry, world, cache, rows, starts, changes>>

Next ==
  \/ \E w \in Ingestors :
       \/ \E kind \in Kinds, localOnly \in BOOLEAN : Start(w, kind, localOnly)
       \/ SkipSource(w) \/ ReadLocal(w) \/ NotThere(w) \/ ReadPinned(w) \/ Request(w)
       \/ Answer(w) \/ \E transport \in BOOLEAN : Retry(w, transport)
       \/ Open(w) \/ Write(w) \/ Replace(w) \/ ReplaceFails(w) \/ Record(w) \/ EndSources(w)
       \/ \E ns \in SUBSET Numbers : Extract(w, ns)
       \/ ExtractFails(w) \/ Finish(w)
  \/ \E p \in Places, c \in Contents \cup {Absent} : Publish(p, c)
  \/ Crash

Spec == Init /\ [][Next]_vars

-----------------------------------------------------------------------------
(* A cache entry is torn only where two writers have had its temporary     *)
(* file open at once; a crash alone never tears one (RawByteCache.store).  *)
TornNeedsRace == \A b \in Bytes : bin[b] = "torn" => b \in raced

(* When a run that had the store for itself is over, every document it     *)
(* read has the row of the bytes that were extracted last under its id,    *)
(* and each element of these bytes has its row from them, whatever earlier *)
(* runs stored or left half done (ingest_node, extract_node).              *)
FinishedRunIsStored ==
  \A w \in Ingestors :
    pc[w] = "finished" /\ job[w].kind = "run" /\ job[w].alone =>
      \A k \in DOMAIN job[w].documents :
        LET d == job[w].documents[k].id
            b == job[w].raw[d]
        IN  /\ document[d] = b
            /\ b.whole => \A n \in ElementsOf[b.of] : element[d][n] = b

(* A source that cannot be read costs no other source its document: a      *)
(* finished run has one for every entry whose local file has been there    *)
(* all along, and counts as degraded only without any document at all      *)
(* (ingest_node).                                                          *)
LocalSourcesAreRead ==
  \A w \in Ingestors :
    pc[w] = "finished" /\ job[w].kind = "run" /\ changes = 0 =>
      /\ \A i \in DOMAIN registry :
           registry[i].local /\ world[registry[i].place] # Absent =>
             /\ \E k \in DOMAIN job[w].documents : job[w].documents[k].id = registry[i].id
             /\ ~Degraded(w)
=============================================================================
