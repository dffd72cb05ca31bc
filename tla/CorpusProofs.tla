---------------------------- MODULE CorpusProofs ----------------------------
(***************************************************************************)
(* Theorems about Corpus, for every registry, any number of ingestions and *)
(* every bound on sources that change and processes that end.              *)
(***************************************************************************)
EXTENDS Corpus, TLAPS

PC == {"idle", "source", "http", "open", "write", "replace", "record",
       "extract", "finished", "failed"}

(* An ingestion that has a source at hand, and one that has its bytes.     *)
Holding == {"open", "write", "replace", "record"}
AtHand  == Holding \cup {"http"}

-----------------------------------------------------------------------------
(* What an ingestion has at hand is in the registry, and only what has a   *)
(* URL is requested.                                                       *)
SourceInv ==
  \A w \in Ingestors :
    /\ pc[w] \notin {"idle", "failed"} => registry \in Seq(Entry)
    /\ pc[w] \in AtHand => job[w].at \in DOMAIN registry
    /\ pc[w] = "http" => ~Source(w).local /\ Source(w).place \in Places
    /\ pc[w] \in Holding => job[w].bytes \in Bytes

(* Where no two ingestions have had one temporary file open, its entry is  *)
(* not torn, and whoever writes it is alone with a file that is its own    *)
(* and, once written, whole.                                               *)
CacheInv ==
  \A b \in Bytes \ raced :
    /\ bin[b] # "torn"
    /\ \A u, v \in Ingestors :
         {pc[u], pc[v]} \subseteq {"write", "replace"} /\ job[u].bytes = b /\ job[v].bytes = b => u = v
    /\ \A w \in Ingestors : job[w].bytes = b =>
         /\ pc[w] = "write" => job[w].file = "tmp"
         /\ pc[w] = "replace" => tmp[b] = "whole"

(* While an ingestion is alone, no other one is at work, every document it *)
(* has recorded has its row, and every document it has extracted has the   *)
(* rows of its elements.                                                   *)
RowsInv ==
  \A w \in Ingestors : job[w].alone =>
    /\ \A v \in Ingestors : v # w => ~Busy(v)
    /\ job[w].kind = "run" => \A k \in DOMAIN job[w].documents :
         LET d == job[w].documents[k].id
             b == job[w].raw[d]
         IN  /\ document[d] = b
             /\ pc[w] \in {"extract", "finished"} /\ k < job[w].at /\ b.whole =>
                  \A n \in ElementsOf[b.of] : element[d][n] = b
    /\ pc[w] = "finished" /\ job[w].kind = "run" => job[w].at = Len(job[w].documents) + 1

(* The local sources that were passed have been read.                      *)
Passed(w, i) == pc[w] \in {"extract", "finished"} \/ i < job[w].at

ReadInv ==
  \A w \in Ingestors : pc[w] \notin {"idle", "failed"} /\ job[w].kind = "run" /\ changes = 0 =>
    \A i \in DOMAIN registry :
      Passed(w, i) /\ registry[i].local /\ world[registry[i].place] # Absent =>
        \E k \in DOMAIN job[w].documents : job[w].documents[k].id = registry[i].id

-----------------------------------------------------------------------------
(***************************************************************************)
(* Type correctness.                                                       *)
(***************************************************************************)

LEMMA ZeroAttempts == 0 \in 0..MaxAttempts
  BY BoundAssumption

(* The updates the actions make to the locals of an ingestion keep their   *)
(* types, one field at a time and together.                                *)
LEMMA FieldTyped ==
  ASSUME NEW j \in Job
  PROVE  /\ \A x \in Kinds : [j EXCEPT !.kind = x] \in Job
         /\ \A x \in BOOLEAN : [j EXCEPT !.localOnly = x] \in Job /\ [j EXCEPT !.alone = x] \in Job
         /\ \A x \in Nat : [j EXCEPT !.at = x] \in Job
         /\ \A x \in 0..MaxAttempts : [j EXCEPT !.attempts = x] \in Job
         /\ \A x \in Bytes \cup {NoBytes} : [j EXCEPT !.bytes = x] \in Job
         /\ \A x \in {"tmp", "bin", "unlinked"} : [j EXCEPT !.file = x] \in Job
         /\ \A x \in SUBSET Nat : [j EXCEPT !.failed = x] \in Job
<1>1. \A x \in Kinds : [j EXCEPT !.kind = x] \in Job
  BY DEF Job
<1>2. \A x \in BOOLEAN : [j EXCEPT !.localOnly = x] \in Job /\ [j EXCEPT !.alone = x] \in Job
  BY DEF Job
<1>3. \A x \in Nat : [j EXCEPT !.at = x] \in Job
  BY DEF Job
<1>4. \A x \in 0..MaxAttempts : [j EXCEPT !.attempts = x] \in Job
  BY DEF Job
<1>5. \A x \in Bytes \cup {NoBytes} : [j EXCEPT !.bytes = x] \in Job
  BY DEF Job
<1>6. \A x \in {"tmp", "bin", "unlinked"} : [j EXCEPT !.file = x] \in Job
  BY DEF Job
<1>7. \A x \in SUBSET Nat : [j EXCEPT !.failed = x] \in Job
  BY DEF Job
<1>8. QED
  BY <1>1, <1>2, <1>3, <1>4, <1>5, <1>6, <1>7

LEMMA FreshTyped ==
  ASSUME NEW kind \in Kinds, NEW localOnly \in BOOLEAN, NEW alone \in BOOLEAN
  PROVE  /\ Fresh \in Job
         /\ [Fresh EXCEPT !.kind = kind, !.localOnly = localOnly, !.alone = alone] \in Job
         /\ [Fresh EXCEPT !.alone = FALSE] \in Job
<1>1. Fresh \in Job
  BY ZeroAttempts DEF Fresh, Job, Kinds
<1>2. [Fresh EXCEPT !.kind = kind] \in Job
  BY <1>1, FieldTyped
<1>3. [Fresh EXCEPT !.kind = kind, !.localOnly = localOnly] \in Job
  BY <1>2, FieldTyped
<1>4. [Fresh EXCEPT !.kind = kind, !.localOnly = localOnly, !.alone = alone] \in Job
  BY <1>3, FieldTyped
<1>5. QED
  BY <1>1, <1>4, FieldTyped

LEMMA BytesTyped ==
  ASSUME NEW j \in Job, NEW b \in Bytes
  PROVE  [j EXCEPT !.bytes = b, !.attempts = 0] \in Job
<1>1. [j EXCEPT !.bytes = b] \in Job
  BY FieldTyped
<1>2. QED
  BY <1>1, FieldTyped, ZeroAttempts

LEMMA PassedTyped ==
  ASSUME NEW j \in Job
  PROVE  /\ [j EXCEPT !.at = @ + 1] \in Job
         /\ [j EXCEPT !.at = @ + 1, !.attempts = 0, !.failed = @ \cup {j.at}] \in Job
         /\ j.attempts + 1 < MaxAttempts => [j EXCEPT !.attempts = @ + 1] \in Job
<1>1. j.at \in Nat /\ j.at + 1 \in Nat /\ j.attempts \in 0..MaxAttempts /\ j.failed \in SUBSET Nat
  BY DEF Job
<1>2. [j EXCEPT !.at = @ + 1] \in Job
  BY <1>1, FieldTyped
<1>3. [j EXCEPT !.at = @ + 1, !.attempts = 0, !.failed = @ \cup {j.at}] \in Job
  <2>1. [j EXCEPT !.at = @ + 1, !.attempts = 0] \in Job
    BY <1>2, FieldTyped, ZeroAttempts
  <2>2. j.failed \cup {j.at} \in SUBSET Nat
    BY <1>1
  <2>3. [[j EXCEPT !.at = @ + 1, !.attempts = 0] EXCEPT !.failed = j.failed \cup {j.at}] \in Job
    BY <2>1, <2>2, FieldTyped
  <2>4. QED
    BY <2>3
<1>4. j.attempts + 1 < MaxAttempts => j.attempts + 1 \in 0..MaxAttempts
  BY <1>1, BoundAssumption
<1>5. j.attempts + 1 < MaxAttempts => [j EXCEPT !.attempts = @ + 1] \in Job
  BY <1>4, FieldTyped
<1>6. QED
  BY <1>2, <1>3, <1>5

(* A sequence that gains an element.                                       *)
LEMMA AppendTyped ==
  ASSUME NEW S, NEW s \in Seq(S), NEW x \in S
  PROVE  /\ Append(s, x) \in Seq(S)
         /\ DOMAIN s = 1..Len(s) /\ DOMAIN Append(s, x) = 1..(Len(s) + 1)
         /\ Len(s) \in Nat /\ Len(Append(s, x)) = Len(s) + 1
         /\ \A k \in DOMAIN s : Append(s, x)[k] = s[k]
         /\ Append(s, x)[Len(s) + 1] = x
  OBVIOUS

LEMMA ElementTyped == ASSUME NEW S, NEW s \in Seq(S), NEW k \in DOMAIN s PROVE s[k] \in S
  OBVIOUS

(* What collecting the bytes of a source changes.                          *)
LEMMA Collected ==
  ASSUME NEW j \in Job, NEW b \in Bytes, NEW d \in Ids
  PROVE  LET k == Collect(j, d, b)
         IN  /\ k \in Job
             /\ k.at = j.at + 1 /\ k.raw = [j.raw EXCEPT ![d] = b]
             /\ k.alone = j.alone /\ k.kind = j.kind
             /\ \/ j.kind = "register"
                \/ k.documents = Append(j.documents, [id |-> d, sha |-> b])
<1> DEFINE Document == [id : Ids, sha : Bytes]
           again == j.kind = "register" /\ \E k \in DOMAIN j.documents : j.documents[k].sha = b
           documents == IF again THEN j.documents ELSE Append(j.documents, [id |-> d, sha |-> b])
           raw == [j.raw EXCEPT ![d] = b]
           passed == [j EXCEPT !.at = @ + 1, !.bytes = NoBytes]
           read == [passed EXCEPT !.raw = raw]
           collected == [read EXCEPT !.documents = documents]
<1>1. documents \in Seq(Document)
  <2>1. j.documents \in Seq(Document)
    BY DEF Job
  <2>2. [id |-> d, sha |-> b] \in Document
    OBVIOUS
  <2>3. Append(j.documents, [id |-> d, sha |-> b]) \in Seq(Document)
    BY <2>1, <2>2, AppendTyped
  <2>4. QED
    BY <2>1, <2>3
<1>2. raw \in [Ids -> Bytes \cup {NoBytes}]
  BY DEF Job
<1>3. passed \in Job
  <2>1. j.at + 1 \in Nat
    BY DEF Job
  <2>2. [j EXCEPT !.at = @ + 1] \in Job
    BY <2>1, FieldTyped
  <2>3. QED
    BY <2>2, FieldTyped
<1>4. passed.at = j.at + 1 /\ passed.alone = j.alone /\ passed.kind = j.kind
  BY DEF Job
<1>5. read \in Job /\ read.at = j.at + 1 /\ read.raw = raw /\ read.alone = j.alone /\ read.kind = j.kind
  <2> HIDE DEF passed, raw
  <2> QED
    BY <1>2, <1>3, <1>4 DEF Job
<1>6. /\ collected \in Job /\ collected.at = j.at + 1 /\ collected.raw = raw
      /\ collected.alone = j.alone /\ collected.kind = j.kind /\ collected.documents = documents
  <2> HIDE DEF read, documents, raw
  <2> QED
    BY <1>1, <1>5 DEF Job
<1>7. Collect(j, d, b) = collected
  BY DEF Collect
<1>8. again \/ documents = Append(j.documents, [id |-> d, sha |-> b])
  OBVIOUS
<1>9. QED
  BY <1>6, <1>7, <1>8

(* What the helpers of a failure and of a success to read come to.         *)
LEMMA NotReadTyped ==
  ASSUME TypeOK, NEW w \in Ingestors, NotRead(w)
  PROVE  job' \in [Ingestors -> Job] /\ pc' \in [Ingestors -> PC]
<1> DEFINE j == [job[w] EXCEPT !.at = @ + 1, !.attempts = 0, !.failed = @ \cup {job[w].at}]
<1>1. job[w] \in Job /\ pc' \in [Ingestors -> PC]
  BY DEF TypeOK, NotRead, PC
<1>2. job' = [job EXCEPT ![w] = j]
  BY DEF TypeOK, NotRead
<1>3. j \in Job
  BY <1>1, PassedTyped
<1>4. QED
  BY <1>1, <1>2, <1>3 DEF TypeOK

LEMMA ReadTyped ==
  ASSUME TypeOK, NEW w \in Ingestors, NEW b \in Bytes, Read(w, b)
  PROVE  job' \in [Ingestors -> Job] /\ pc' \in [Ingestors -> PC]
<1>1. job[w] \in Job
  BY DEF TypeOK
<1>2. QED
  BY <1>1, BytesTyped DEF TypeOK, Read, PC

(* What is read from a place or the cache are bytes, and a source at hand  *)
(* is an entry of the registry.                                            *)
LEMMA BytesRead ==
  /\ \A c \in Contents : Whole(c) \in Bytes
  /\ \A b \in Bytes : Cached(b) \in Bytes
<1>1. \A c \in Contents : Whole(c) \in Bytes
  BY DEF Whole, Bytes
<1>2. ASSUME NEW b \in Bytes PROVE Cached(b) \in Bytes
  BY DEF Cached, Bytes
<1>3. QED
  BY <1>1, <1>2

LEMMA SourceTyped ==
  ASSUME TypeOK, NEW w \in Ingestors, registry \in Seq(Entry), job[w].at \in DOMAIN registry
  PROVE  Source(w) \in Entry /\ (Source(w).local => Source(w).place \in Places)
<1>1. Source(w) \in Entry
  BY DEF Source
<1>2. registry \in Registries \ {Missing}
  BY NoneAssumption DEF TypeOK
<1>3. Source(w).local => Source(w).place # NoPlace
  BY <1>2, RegistryAssumption DEF Source
<1>4. QED
  BY <1>1, <1>3 DEF Entry

LEMMA InitTyped == Init => TypeOK
<1> SUFFICES ASSUME Init PROVE TypeOK
  OBVIOUS
<1>1. job \in [Ingestors -> Job]
  BY FreshTyped DEF Init, Kinds
<1>2. {tmp, bin} \subseteq [Bytes -> {"none", "torn", "whole"}]
  BY DEF Init
<1>3. starts \in 0..MaxStarts /\ changes \in 0..MaxChanges /\ crashes \in 0..MaxCrashes
  BY BoundAssumption DEF Init
<1>4. QED
  BY <1>1, <1>2, <1>3 DEF Init, TypeOK

LEMMA StartTyped ==
  ASSUME TypeOK, NEW w \in Ingestors, NEW kind \in Kinds, NEW localOnly \in BOOLEAN,
         Start(w, kind, localOnly)
  PROVE  TypeOK'
<1>1. \A u \in Ingestors : job[u] \in Job
  BY DEF TypeOK
<1>2. job' \in [Ingestors -> Job]
  BY <1>1, FreshTyped, FieldTyped DEF Start
<1>3. starts' \in 0..MaxStarts
  <2>1. MaxStarts \in Nat
    BY BoundAssumption
  <2>2. starts \in 0..MaxStarts /\ starts < MaxStarts /\ starts' = starts + 1
    BY DEF TypeOK, Start
  <2>3. QED
    BY <2>1, <2>2
<1>4. QED
  BY <1>2, <1>3 DEF TypeOK, Start, cache, rows

(* The steps of reading a source.                                          *)
LEMMA ReadingTyped ==
  ASSUME TypeOK, SourceInv, NEW w \in Ingestors,
         \/ SkipSource(w) \/ ReadLocal(w) \/ NotThere(w) \/ ReadPinned(w) \/ Request(w) \/ Answer(w)
         \/ \E transport \in BOOLEAN : Retry(w, transport)
  PROVE  TypeOK'
<1>1. UNCHANGED <<registry, world, cache, rows, bounds>>
  BY DEF SkipSource, ReadLocal, NotThere, ReadPinned, Request, Answer, Retry
<1>2. SUFFICES job' \in [Ingestors -> Job] /\ pc' \in [Ingestors -> PC]
  BY <1>1 DEF TypeOK, cache, rows, bounds, PC
<1>3. job[w] \in Job /\ job \in [Ingestors -> Job] /\ pc \in [Ingestors -> PC]
  BY DEF TypeOK, PC
<1>4. CASE SkipSource(w)
  BY <1>3, <1>4, PassedTyped DEF SkipSource
<1>5. CASE ReadLocal(w)
  <2>1. registry \in Seq(Entry) /\ job[w].at \in DOMAIN registry /\ Source(w).local
    BY <1>5 DEF ReadLocal, AtSource, SourceInv
  <2>2. world[Source(w).place] \in Contents
    BY <1>5, <2>1, SourceTyped DEF TypeOK, ReadLocal
  <2>3. \E b \in Bytes : Read(w, b)
    BY <1>5, <2>2, BytesRead DEF ReadLocal
  <2>4. QED
    BY <2>3, ReadTyped
<1>6. CASE NotThere(w)
  BY <1>6, NotReadTyped DEF NotThere
<1>7. CASE ReadPinned(w)
  <2>1. registry \in Seq(Entry) /\ job[w].at \in DOMAIN registry /\ Source(w).pin # NoPin
    BY <1>7 DEF ReadPinned, Remote, Pinned, AtSource, SourceInv
  <2>2. Source(w).pin \in Contents
    BY <2>1, SourceTyped DEF Entry
  <2>3. \E b \in Bytes : Read(w, b)
    BY <1>7, <2>2, BytesRead DEF ReadPinned
  <2>4. QED
    BY <2>3, ReadTyped
<1>8. CASE Request(w)
  BY <1>3, <1>8 DEF Request, PC
<1>9. CASE Answer(w)
  <2>1. CASE world[Source(w).place] = Absent
    BY <1>9, <2>1, NotReadTyped DEF Answer
  <2>2. CASE world[Source(w).place] # Absent
    <3>1. world[Source(w).place] \in Contents
      BY <1>9, <2>2 DEF TypeOK, SourceInv, Answer
    <3>2. Read(w, Whole(world[Source(w).place])) /\ Whole(world[Source(w).place]) \in Bytes
      BY <1>9, <2>2, <3>1, BytesRead DEF Answer
    <3>3. QED
      BY <3>2, ReadTyped
  <2>3. QED
    BY <2>1, <2>2
<1>10. ASSUME NEW transport \in BOOLEAN, Retry(w, transport)
       PROVE  job' \in [Ingestors -> Job] /\ pc' \in [Ingestors -> PC]
  <2>1. CASE job[w].attempts + 1 < MaxAttempts
    <3>1. [job[w] EXCEPT !.attempts = @ + 1] \in Job
      BY <1>3, <2>1, PassedTyped
    <3>2. job' = [job EXCEPT ![w] = [job[w] EXCEPT !.attempts = @ + 1]] /\ pc' = pc
      BY <1>3, <1>10, <2>1 DEF Retry
    <3>3. QED
      BY <1>3, <3>1, <3>2
  <2>2. CASE ~(job[w].attempts + 1 < MaxAttempts) /\ transport
    BY <1>3, <1>10, <2>2 DEF Retry, PC
  <2>3. CASE ~(job[w].attempts + 1 < MaxAttempts) /\ ~transport
    BY <1>10, <2>3, NotReadTyped DEF Retry
  <2>4. QED
    BY <2>1, <2>2, <2>3
<1>11. QED
  BY <1>4, <1>5, <1>6, <1>7, <1>8, <1>9, <1>10

(* The steps of storing it in the cache.                                   *)
LEMMA CachingTyped ==
  ASSUME TypeOK, SourceInv, NEW w \in Ingestors,
         Open(w) \/ Write(w) \/ Replace(w) \/ ReplaceFails(w)
  PROVE  TypeOK'
<1>1. UNCHANGED <<registry, world, rows, bounds>>
  BY DEF Open, Write, Replace, ReplaceFails
<1>2. SUFFICES /\ job' \in [Ingestors -> Job] /\ pc' \in [Ingestors -> PC]
               /\ {tmp', bin'} \subseteq [Bytes -> {"none", "torn", "whole"}] /\ raced' \subseteq Bytes
  BY <1>1 DEF TypeOK, rows, bounds, PC
<1>3. /\ job[w] \in Job /\ job \in [Ingestors -> Job] /\ pc \in [Ingestors -> PC]
      /\ tmp \in [Bytes -> {"none", "torn", "whole"}] /\ bin \in [Bytes -> {"none", "torn", "whole"}]
      /\ raced \subseteq Bytes
  BY DEF TypeOK, PC
<1>4. job[w].bytes \in Bytes
  BY DEF SourceInv, Holding, Open, Write, Replace, ReplaceFails
<1>5. CASE Open(w)
  BY <1>3, <1>4, <1>5, FieldTyped DEF Open, PC
<1>6. CASE Write(w)
  BY <1>3, <1>4, <1>6 DEF Write, PC
<1>7. CASE Replace(w)
  <2>1. job' \in [Ingestors -> Job]
    BY <1>3, <1>7, FieldTyped DEF Replace
  <2>2. QED
    BY <1>3, <1>4, <1>7, <2>1 DEF Replace, PC
<1>8. CASE ReplaceFails(w)
  BY <1>3, <1>8 DEF ReplaceFails, PC, cache
<1>9. QED
  BY <1>5, <1>6, <1>7, <1>8

(* The steps of recording and extracting documents.                        *)
LEMMA RecordTyped ==
  ASSUME TypeOK, SourceInv, NEW w \in Ingestors, Record(w)
  PROVE  TypeOK'
<1> DEFINE b == job[w].bytes
           d == Source(w).id
<1>1. b \in Bytes /\ registry \in Seq(Entry) /\ job[w].at \in DOMAIN registry
  BY DEF SourceInv, Record, AtHand, Holding
<1>2. d \in Ids
  BY <1>1, SourceTyped DEF Entry
<1>3. Collect(job[w], d, b) \in Job
  BY <1>1, <1>2, Collected DEF TypeOK
<1>4. job' = [job EXCEPT ![w] = Collect(job[w], d, b)]
  BY DEF Record
<1>5. job' \in [Ingestors -> Job]
  BY <1>3, <1>4 DEF TypeOK
<1>6. document' \in [Ids -> Bytes \cup {NoBytes}]
  BY <1>1, <1>2 DEF TypeOK, Record, Save
<1>7. QED
  BY <1>5, <1>6 DEF TypeOK, Record, cache, bounds

LEMMA ExtractingTyped ==
  ASSUME TypeOK, NEW w \in Ingestors,
         \/ EndSources(w) \/ ExtractFails(w) \/ Finish(w)
         \/ \E ns \in SUBSET Numbers : Extract(w, ns)
  PROVE  TypeOK'
<1>1. UNCHANGED <<registry, world, cache, document, bounds>>
  BY DEF EndSources, ExtractFails, Finish, Extract, rows
<1>2. SUFFICES /\ job' \in [Ingestors -> Job] /\ pc' \in [Ingestors -> PC]
               /\ element' \in [Ids -> [Numbers -> Bytes \cup {NoBytes}]]
  BY <1>1 DEF TypeOK, cache, bounds, PC
<1>3. /\ job[w] \in Job /\ job \in [Ingestors -> Job] /\ pc \in [Ingestors -> PC]
      /\ element \in [Ids -> [Numbers -> Bytes \cup {NoBytes}]]
  BY DEF TypeOK, PC
<1>4. CASE EndSources(w)
  <2>1. [job[w] EXCEPT !.at = 1] \in Job
    BY <1>3, FieldTyped
  <2>2. QED
    BY <1>3, <1>4, <2>1 DEF EndSources, PC, rows
<1>5. CASE ExtractFails(w)
  BY <1>3, <1>5 DEF ExtractFails, PC, rows
<1>6. CASE Finish(w)
  BY <1>3, <1>6 DEF Finish, PC, rows
<1>7. ASSUME NEW ns \in SUBSET Numbers, Extract(w, ns)
      PROVE  /\ job' \in [Ingestors -> Job] /\ pc' \in [Ingestors -> PC]
             /\ element' \in [Ids -> [Numbers -> Bytes \cup {NoBytes}]]
  <2> DEFINE d == job[w].documents[job[w].at].id
             b == job[w].raw[d]
  <2>1. d \in Ids /\ b \in Bytes \cup {NoBytes}
    <3>1. job[w].documents \in Seq([id : Ids, sha : Bytes]) /\ job[w].raw \in [Ids -> Bytes \cup {NoBytes}]
      BY <1>3 DEF Job
    <3>2. job[w].documents[job[w].at] \in [id : Ids, sha : Bytes]
      BY <1>7, <3>1, ElementTyped DEF Extract
    <3>3. QED
      BY <3>1, <3>2
  <2>2. element' = SaveElements(d, ns, b)
    BY <1>7 DEF Extract
  <2>3. element' \in [Ids -> [Numbers -> Bytes \cup {NoBytes}]]
    BY <1>3, <2>1, <2>2 DEF SaveElements
  <2>4. [job[w] EXCEPT !.at = @ + 1] \in Job
    BY <1>3, PassedTyped
  <2>5. QED
    BY <1>3, <1>7, <2>3, <2>4 DEF Extract
<1>8. QED
  BY <1>4, <1>5, <1>6, <1>7

(* What happens around the ingestions.                                     *)
LEMMA PublishTyped ==
  ASSUME TypeOK, NEW p \in Places, NEW c \in Contents \cup {Absent}, Publish(p, c)
  PROVE  TypeOK'
<1>1. MaxChanges \in Nat
  BY BoundAssumption
<1>2. changes' \in 0..MaxChanges /\ world' \in [Places -> Contents \cup {Absent}]
  BY <1>1 DEF TypeOK, Publish
<1>3. QED
  BY <1>2 DEF TypeOK, Publish, cache, rows

LEMMA CrashTyped == ASSUME TypeOK, Crash PROVE TypeOK'
<1>1. MaxCrashes \in Nat
  BY BoundAssumption
<1>2. crashes' \in 0..MaxCrashes
  BY <1>1 DEF TypeOK, Crash
<1>3. job' \in [Ingestors -> Job]
  <2>1. [Fresh EXCEPT !.alone = FALSE] \in Job
    BY FreshTyped DEF Kinds
  <2>2. QED
    BY <2>1 DEF TypeOK, Crash
<1>4. QED
  BY <1>2, <1>3 DEF TypeOK, Crash, cache, rows

LEMMA NextTyped == TypeOK /\ SourceInv /\ [Next]_vars => TypeOK'
<1> SUFFICES ASSUME TypeOK, SourceInv, [Next]_vars PROVE TypeOK'
  OBVIOUS
<1>1. ASSUME NEW w \in Ingestors, NEW kind \in Kinds, NEW localOnly \in BOOLEAN, Start(w, kind, localOnly)
      PROVE  TypeOK'
  BY <1>1, StartTyped
<1>2. ASSUME NEW w \in Ingestors,
             \/ SkipSource(w) \/ ReadLocal(w) \/ NotThere(w) \/ ReadPinned(w) \/ Request(w) \/ Answer(w)
             \/ \E transport \in BOOLEAN : Retry(w, transport)
      PROVE  TypeOK'
  BY <1>2, ReadingTyped
<1>3. ASSUME NEW w \in Ingestors, Open(w) \/ Write(w) \/ Replace(w) \/ ReplaceFails(w)
      PROVE  TypeOK'
  BY <1>3, CachingTyped
<1>4. ASSUME NEW w \in Ingestors, Record(w) PROVE TypeOK'
  BY <1>4, RecordTyped
<1>5. ASSUME NEW w \in Ingestors,
             \/ EndSources(w) \/ ExtractFails(w) \/ Finish(w)
             \/ \E ns \in SUBSET Numbers : Extract(w, ns)
      PROVE  TypeOK'
  BY <1>5, ExtractingTyped
<1>6. ASSUME NEW p \in Places, NEW c \in Contents \cup {Absent}, Publish(p, c) PROVE TypeOK'
  BY <1>6, PublishTyped
<1>7. CASE Crash
  BY <1>7, CrashTyped
<1>8. CASE UNCHANGED vars
  BY <1>8 DEF TypeOK, vars, cache, rows, bounds
<1>9. QED
  BY <1>1, <1>2, <1>3, <1>4, <1>5, <1>6, <1>7, <1>8 DEF Next

-----------------------------------------------------------------------------
(***************************************************************************)
(* What the actions do to the ingestions, as far as the invariants speak   *)
(* of it.                                                                  *)
(***************************************************************************)

(* The other ingestions are where they were; what this one has collected   *)
(* stays.                                                                  *)
Others(w) == \A u \in Ingestors \ {w} : pc'[u] = pc[u] /\ job'[u] = job[u]

Keeps(w) ==
  /\ job'[w].documents = job[w].documents /\ job'[w].raw = job[w].raw
  /\ job'[w].alone = job[w].alone /\ job'[w].kind = job[w].kind

LEMMA NotReadEffect ==
  ASSUME TypeOK, NEW w \in Ingestors, NotRead(w)
  PROVE  /\ Others(w) /\ Keeps(w)
         /\ pc'[w] \in {"source", "failed"} /\ job'[w].at = job[w].at + 1
<1>1. job[w] \in Job /\ Others(w) /\ pc'[w] \in {"source", "failed"}
  BY DEF TypeOK, NotRead, Others
<1>2. job'[w] = [job[w] EXCEPT !.at = @ + 1, !.attempts = 0, !.failed = @ \cup {job[w].at}]
  BY DEF TypeOK, NotRead
<1>3. job'[w].at = job[w].at + 1
  BY <1>1, <1>2 DEF Job
<1>4. job'[w].documents = job[w].documents /\ job'[w].raw = job[w].raw
  BY <1>1, <1>2 DEF Job
<1>5. job'[w].alone = job[w].alone /\ job'[w].kind = job[w].kind
  BY <1>1, <1>2 DEF Job
<1>6. QED
  BY <1>1, <1>3, <1>4, <1>5 DEF Keeps

LEMMA ReadEffect ==
  ASSUME TypeOK, NEW w \in Ingestors, NEW b \in Bytes, Read(w, b)
  PROVE  /\ Others(w) /\ Keeps(w)
         /\ pc'[w] = "open" /\ job'[w].at = job[w].at /\ job'[w].bytes = b
<1>1. job[w] \in Job /\ Others(w) /\ pc'[w] = "open"
  BY DEF TypeOK, Read, Others
<1>2. job'[w] = [job[w] EXCEPT !.bytes = b, !.attempts = 0]
  BY DEF TypeOK, Read
<1>3. job'[w].at = job[w].at /\ job'[w].bytes = b
  BY <1>1, <1>2 DEF Job
<1>4. job'[w].documents = job[w].documents /\ job'[w].raw = job[w].raw
  BY <1>1, <1>2 DEF Job
<1>5. job'[w].alone = job[w].alone /\ job'[w].kind = job[w].kind
  BY <1>1, <1>2 DEF Job
<1>6. QED
  BY <1>1, <1>3, <1>4, <1>5 DEF Keeps

(* A step of reading goes on to the next source, passing over one that is  *)
(* not a local file or not there, or it stays with the one at hand.        *)
Stays(w) ==
  /\ job'[w].at = job[w].at
  /\ \/ pc'[w] = "open" /\ job'[w].bytes \in Bytes
     \/ pc'[w] = "http" /\ (pc[w] = "http" \/ Remote(w))
     \/ pc'[w] = "failed"

Passes(w) ==
  /\ pc'[w] \in {"source", "failed"} /\ job'[w].at = job[w].at + 1
  /\ ~Source(w).local \/ world[Source(w).place] = Absent

LEMMA ReadingEffect ==
  ASSUME TypeOK, SourceInv, NEW w \in Ingestors,
         \/ SkipSource(w) \/ ReadLocal(w) \/ NotThere(w) \/ ReadPinned(w) \/ Request(w) \/ Answer(w)
         \/ \E transport \in BOOLEAN : Retry(w, transport)
  PROVE  /\ pc[w] \in {"source", "http"} /\ job[w].at \in DOMAIN registry /\ registry \in Seq(Entry)
         /\ Others(w) /\ Keeps(w)
         /\ Stays(w) \/ Passes(w)
<1>1. pc[w] \in {"source", "http"} /\ job[w].at \in DOMAIN registry /\ registry \in Seq(Entry)
  BY DEF SkipSource, ReadLocal, NotThere, ReadPinned, Request, Answer, Retry, Remote, AtSource,
         SourceInv, AtHand
<1>2. job[w] \in Job
  BY DEF TypeOK
<1>3. pc[w] = "http" => ~Source(w).local /\ Source(w).place \in Places
  BY DEF SourceInv
<1> SUFFICES Others(w) /\ Keeps(w) /\ (Stays(w) \/ Passes(w))
  BY <1>1
<1>4. CASE SkipSource(w)
  <2>1. job'[w] = [job[w] EXCEPT !.at = @ + 1] /\ Others(w)
    BY <1>4 DEF TypeOK, SkipSource, Others
  <2>2. job'[w].at = job[w].at + 1 /\ Keeps(w)
    BY <1>2, <2>1 DEF Job, Keeps
  <2>3. QED
    BY <1>4, <2>1, <2>2 DEF SkipSource, AtSource, Passes
<1>5. CASE ReadLocal(w)
  <2>1. world[Source(w).place] \in Contents
    BY <1>1, <1>5, SourceTyped DEF TypeOK, ReadLocal
  <2>2. \E b \in Bytes : Read(w, b)
    BY <1>5, <2>1, BytesRead DEF ReadLocal
  <2>3. QED
    BY <2>2, ReadEffect DEF Stays
<1>6. CASE NotThere(w)
  <2>1. ~Source(w).local \/ world[Source(w).place] = Absent
    <3>1. Source(w).local => Source(w).place \in Places
      BY <1>1, SourceTyped
    <3>2. QED
      BY <1>6, <3>1, NoneAssumption DEF NotThere
  <2>2. QED
    BY <1>6, <2>1, NotReadEffect DEF NotThere, Passes
<1>7. CASE ReadPinned(w)
  <2>1. Source(w).pin \in Contents
    BY <1>1, <1>7, SourceTyped DEF Entry, ReadPinned, Pinned
  <2>2. \E b \in Bytes : Read(w, b)
    BY <1>7, <2>1, BytesRead DEF ReadPinned
  <2>3. QED
    BY <2>2, ReadEffect DEF Stays
<1>8. CASE Request(w)
  BY <1>8 DEF TypeOK, Request, Others, Keeps, Stays
<1>9. CASE Answer(w)
  <2>1. CASE world[Source(w).place] = Absent
    BY <1>9, <2>1, NotReadEffect DEF Answer, Passes
  <2>2. CASE world[Source(w).place] # Absent
    <3>1. world[Source(w).place] \in Contents
      BY <1>3, <1>9, <2>2 DEF TypeOK, Answer
    <3>2. Read(w, Whole(world[Source(w).place])) /\ Whole(world[Source(w).place]) \in Bytes
      BY <1>9, <2>2, <3>1, BytesRead DEF Answer
    <3>3. QED
      BY <3>2, ReadEffect DEF Stays
  <2>3. QED
    BY <2>1, <2>2
<1>10. ASSUME NEW transport \in BOOLEAN, Retry(w, transport)
       PROVE  Others(w) /\ Keeps(w) /\ (Stays(w) \/ Passes(w))
  <2>1. CASE job[w].attempts + 1 < MaxAttempts
    <3>1. job'[w] = [job[w] EXCEPT !.attempts = @ + 1] /\ pc' = pc /\ Others(w)
      BY <1>10, <2>1 DEF TypeOK, Retry, Others
    <3>2. job'[w].at = job[w].at /\ Keeps(w)
      BY <1>2, <3>1 DEF Job, Keeps
    <3>3. QED
      BY <1>10, <3>1, <3>2 DEF Retry, Stays
  <2>2. CASE ~(job[w].attempts + 1 < MaxAttempts) /\ transport
    BY <1>10, <2>2 DEF TypeOK, Retry, Others, Keeps, Stays
  <2>3. CASE ~(job[w].attempts + 1 < MaxAttempts) /\ ~transport
    BY <1>3, <1>10, <2>3, NotReadEffect DEF Retry, Passes
  <2>4. QED
    BY <2>1, <2>2, <2>3
<1>11. QED
  BY <1>4, <1>5, <1>6, <1>7, <1>8, <1>9, <1>10

(* A step of caching keeps the source and its bytes, and of the other      *)
(* ingestions everything but where the file is that they have open.        *)
LEMMA CachingEffect ==
  ASSUME TypeOK, SourceInv, NEW w \in Ingestors,
         Open(w) \/ Write(w) \/ Replace(w) \/ ReplaceFails(w)
  PROVE  /\ pc[w] \in {"open", "write", "replace"}
         /\ pc'[w] \in {"write", "replace", "record", "failed"}
         /\ \A u \in Ingestors \ {w} : pc'[u] = pc[u]
         /\ \A u \in Ingestors : Keeps(u) /\ job'[u].at = job[u].at /\ job'[u].bytes = job[u].bytes
<1>1. \A u \in Ingestors : job[u] \in Job
  BY DEF TypeOK
<1>2. /\ pc[w] \in {"open", "write", "replace"}
      /\ pc'[w] \in {"write", "replace", "record", "failed"}
      /\ \A u \in Ingestors \ {w} : pc'[u] = pc[u]
  BY DEF TypeOK, Open, Write, Replace, ReplaceFails
<1>3. ASSUME NEW u \in Ingestors
      PROVE  \/ job'[u] = job[u]
             \/ \E f \in {"tmp", "bin", "unlinked"} : job'[u] = [job[u] EXCEPT !.file = f]
  BY DEF TypeOK, Open, Write, Replace, ReplaceFails
<1>4. ASSUME NEW u \in Ingestors
      PROVE  Keeps(u) /\ job'[u].at = job[u].at /\ job'[u].bytes = job[u].bytes
  BY <1>1, <1>3 DEF Job, Keeps
<1>5. QED
  BY <1>2, <1>4

LEMMA RecordEffect ==
  ASSUME TypeOK, SourceInv, NEW w \in Ingestors, Record(w)
  PROVE  LET d == Source(w).id
             b == job[w].bytes
         IN  /\ pc[w] = "record" /\ pc'[w] = "source" /\ Others(w)
             /\ job[w].at \in DOMAIN registry /\ registry \in Seq(Entry)
             /\ b \in Bytes /\ d \in Ids
             /\ job'[w].at = job[w].at + 1 /\ job'[w].raw = [job[w].raw EXCEPT ![d] = b]
             /\ job'[w].alone = job[w].alone /\ job'[w].kind = job[w].kind
             /\ \/ job[w].kind = "register"
                \/ job'[w].documents = Append(job[w].documents, [id |-> d, sha |-> b])
<1> DEFINE d == Source(w).id
           b == job[w].bytes
<1>1. /\ pc[w] = "record" /\ b \in Bytes
      /\ registry \in Seq(Entry) /\ job[w].at \in DOMAIN registry
  BY DEF SourceInv, Record, AtHand, Holding
<1>2. d \in Ids
  BY <1>1, SourceTyped DEF Entry
<1>3. pc'[w] = "source" /\ job'[w] = Collect(job[w], d, b) /\ Others(w)
  BY DEF TypeOK, Record, Others
<1>4. job[w] \in Job
  BY DEF TypeOK
<1> DEFINE k == Collect(job[w], d, b)
<1> HIDE DEF b, d
<1>5. /\ k.at = job[w].at + 1 /\ k.raw = [job[w].raw EXCEPT ![d] = b]
      /\ k.alone = job[w].alone /\ k.kind = job[w].kind
      /\ \/ job[w].kind = "register"
         \/ k.documents = Append(job[w].documents, [id |-> d, sha |-> b])
  BY <1>1, <1>2, <1>4, Collected
<1>6. QED
  BY <1>1, <1>2, <1>3, <1>5 DEF b, d

(* The end of the sources, and a document extracted.                       *)
LEMMA EndSourcesEffect ==
  ASSUME TypeOK, NEW w \in Ingestors, EndSources(w)
  PROVE  /\ Others(w) /\ Keeps(w) /\ job'[w].at = 1
         /\ pc'[w] = IF job[w].kind = "run" THEN "extract" ELSE "finished"
<1>1. job[w] \in Job
  BY DEF TypeOK
<1>2. /\ job'[w] = [job[w] EXCEPT !.at = 1] /\ Others(w)
      /\ pc'[w] = IF job[w].kind = "run" THEN "extract" ELSE "finished"
  BY DEF TypeOK, EndSources, Others
<1>3. job'[w].at = 1 /\ Keeps(w)
  BY <1>1, <1>2 DEF Job, Keeps
<1>4. QED
  BY <1>2, <1>3

LEMMA ExtractEffect ==
  ASSUME TypeOK, NEW w \in Ingestors, NEW ns \in SUBSET Numbers, Extract(w, ns)
  PROVE  Others(w) /\ Keeps(w) /\ job'[w].at = job[w].at + 1 /\ pc'[w] = "extract"
<1>1. job[w] \in Job
  BY DEF TypeOK
<1>2. job'[w] = [job[w] EXCEPT !.at = @ + 1] /\ Others(w) /\ pc'[w] = "extract"
  BY DEF TypeOK, Extract, Others
<1>3. job'[w].at = job[w].at + 1 /\ Keeps(w)
  BY <1>1, <1>2 DEF Job, Keeps
<1>4. QED
  BY <1>2, <1>3

(* An ingestion that begins, and what it makes of the others.              *)
LEMMA StartEffect ==
  ASSUME TypeOK, NEW w \in Ingestors, NEW kind \in Kinds, NEW localOnly \in BOOLEAN,
         Start(w, kind, localOnly)
  PROVE  /\ ~Busy(w)
         /\ pc'[w] = (IF registry = Missing THEN "failed" ELSE "source")
         /\ job'[w].documents = <<>> /\ job'[w].at = 1
         /\ job'[w].alone => \A v \in Ingestors : ~Busy(v)
         /\ \A u \in Ingestors \ {w} :
              /\ pc'[u] = pc[u] /\ ~job'[u].alone
              /\ job'[u].kind = job[u].kind /\ job'[u].documents = job[u].documents
              /\ job'[u].at = job[u].at /\ job'[u].bytes = job[u].bytes /\ job'[u].file = job[u].file
<1>1. \A u \in Ingestors : job[u] \in Job
  BY DEF TypeOK
<1>2. ~Busy(w) /\ pc'[w] = (IF registry = Missing THEN "failed" ELSE "source")
  BY DEF TypeOK, Start
<1>3. job'[w] = [Fresh EXCEPT !.kind = kind, !.localOnly = localOnly,
                              !.alone = \A v \in Ingestors : ~Busy(v)]
  BY DEF Start
<1>4. job'[w].documents = <<>> /\ job'[w].at = 1
  BY <1>3 DEF Fresh
<1>5. job'[w].alone = \A v \in Ingestors : ~Busy(v)
  BY <1>3 DEF Fresh
<1>6. ASSUME NEW u \in Ingestors \ {w}
      PROVE  /\ pc'[u] = pc[u] /\ ~job'[u].alone
             /\ job'[u].kind = job[u].kind /\ job'[u].documents = job[u].documents
             /\ job'[u].at = job[u].at /\ job'[u].bytes = job[u].bytes /\ job'[u].file = job[u].file
  <2>1. job'[u] = [job[u] EXCEPT !.alone = FALSE] /\ pc'[u] = pc[u]
    BY DEF TypeOK, Start
  <2>2. job[u] \in Job
    BY <1>1
  <2>3. ~job'[u].alone /\ job'[u].kind = job[u].kind /\ job'[u].documents = job[u].documents
    BY <2>1, <2>2 DEF Job
  <2>4. job'[u].at = job[u].at /\ job'[u].bytes = job[u].bytes /\ job'[u].file = job[u].file
    BY <2>1, <2>2 DEF Job
  <2>5. QED
    BY <2>1, <2>3, <2>4
<1>7. QED
  BY <1>2, <1>4, <1>5, <1>6

-----------------------------------------------------------------------------
(***************************************************************************)
(* Sources at hand.                                                        *)
(***************************************************************************)
LEMMA NextSource ==
  ASSUME TypeOK, SourceInv, [Next]_vars
  PROVE  SourceInv'
<1>1. registry' = registry /\ registry \in Registries
  BY DEF TypeOK, Next, vars, Start, SkipSource, ReadLocal, NotThere, ReadPinned, Request, Answer, Retry,
         Open, Write, Replace, ReplaceFails, Record, EndSources, Extract, ExtractFails, Finish, Publish, Crash
<1> DEFINE Good(w) ==
      /\ pc'[w] \notin {"idle", "failed"} => registry \in Seq(Entry)
      /\ pc'[w] \in AtHand => job'[w].at \in DOMAIN registry
      /\ pc'[w] = "http" => ~Source(w)'.local /\ Source(w)'.place \in Places
      /\ pc'[w] \in Holding => job'[w].bytes \in Bytes
<1>2. SUFFICES ASSUME NEW v \in Ingestors PROVE Good(v)
  BY <1>1 DEF SourceInv
<1>3. ASSUME pc'[v] = pc[v], job'[v].at = job[v].at, job'[v].bytes = job[v].bytes
      PROVE  Good(v)
  BY <1>1, <1>3 DEF SourceInv, Source
<1>4. ASSUME NEW w \in Ingestors, NEW kind \in Kinds, NEW localOnly \in BOOLEAN, Start(w, kind, localOnly)
      PROVE  Good(v)
  <2>1. CASE v = w
    BY <1>1, <1>4, <2>1, StartEffect, RegistryAssumption DEF AtHand, Holding
  <2>2. CASE v # w
    BY <1>3, <1>4, <2>2, StartEffect
  <2>3. QED
    BY <2>1, <2>2
<1>5. ASSUME NEW w \in Ingestors,
             \/ SkipSource(w) \/ ReadLocal(w) \/ NotThere(w) \/ ReadPinned(w) \/ Request(w) \/ Answer(w)
             \/ \E transport \in BOOLEAN : Retry(w, transport)
      PROVE  Good(v)
  <2>1. /\ job[w].at \in DOMAIN registry /\ registry \in Seq(Entry)
        /\ Others(w) /\ Keeps(w) /\ (Stays(w) \/ Passes(w))
    BY <1>5, ReadingEffect
  <2>2. CASE v # w
    BY <1>3, <2>1, <2>2 DEF Others
  <2>3. CASE v = w /\ Passes(w)
    BY <2>1, <2>3 DEF Passes, AtHand, Holding
  <2>4. CASE v = w /\ Stays(w)
    <3>1. CASE pc'[w] = "http"
      <4>1. ~Source(w).local /\ Source(w).place \in Places
        BY <2>1, <2>4, <3>1, SourceTyped DEF Stays, SourceInv, Remote, Entry
      <4>2. Source(w)' = Source(w)
        BY <1>1, <2>4 DEF Stays, Source
      <4>3. QED
        BY <2>1, <2>4, <3>1, <4>1, <4>2 DEF Stays, AtHand, Holding
    <3>2. CASE pc'[w] # "http"
      BY <2>1, <2>4, <3>2 DEF Stays, AtHand, Holding
    <3>3. QED
      BY <3>1, <3>2
  <2>5. QED
    BY <2>1, <2>2, <2>3, <2>4
<1>6. ASSUME NEW w \in Ingestors, Open(w) \/ Write(w) \/ Replace(w) \/ ReplaceFails(w)
      PROVE  Good(v)
  <2>1. /\ pc[w] \in {"open", "write", "replace"}
        /\ pc'[w] \in {"write", "replace", "record", "failed"}
        /\ \A u \in Ingestors \ {w} : pc'[u] = pc[u]
        /\ \A u \in Ingestors : job'[u].at = job[u].at /\ job'[u].bytes = job[u].bytes
    BY <1>6, CachingEffect
  <2>2. CASE v # w
    BY <1>3, <2>1, <2>2
  <2>3. CASE v = w
    BY <2>1, <2>3 DEF SourceInv, AtHand, Holding
  <2>4. QED
    BY <2>2, <2>3
<1>7. ASSUME NEW w \in Ingestors, Record(w)
      PROVE  Good(v)
  BY <1>3, <1>7, RecordEffect DEF Others, AtHand, Holding
<1>8. ASSUME NEW w \in Ingestors, EndSources(w)
      PROVE  Good(v)
  <2>1. Others(w) /\ pc'[w] \in {"extract", "finished"} /\ pc[w] = "source"
    BY <1>8, EndSourcesEffect DEF EndSources
  <2>2. QED
    BY <1>3, <2>1 DEF SourceInv, Others, AtHand, Holding
<1>9. ASSUME NEW w \in Ingestors, NEW ns \in SUBSET Numbers, Extract(w, ns)
      PROVE  Good(v)
  <2>1. Others(w) /\ pc'[w] = "extract" /\ pc[w] = "extract"
    BY <1>9, ExtractEffect DEF Extract
  <2>2. QED
    BY <1>3, <2>1 DEF SourceInv, Others, AtHand, Holding
<1>10. ASSUME NEW w \in Ingestors, ExtractFails(w) \/ Finish(w)
       PROVE  Good(v)
  <2>1. job' = job /\ pc[w] = "extract" /\ pc'[w] \in {"failed", "finished"} /\ \A u \in Ingestors \ {w} : pc'[u] = pc[u]
    BY <1>10 DEF TypeOK, ExtractFails, Finish
  <2>2. QED
    BY <1>3, <2>1 DEF SourceInv, AtHand, Holding
<1>11. ASSUME NEW p \in Places, NEW c \in Contents \cup {Absent}, Publish(p, c)
       PROVE  Good(v)
  BY <1>3, <1>11 DEF Publish
<1>12. CASE Crash
  <2>1. pc'[v] = IF Busy(v) THEN "failed" ELSE pc[v]
    BY <1>12 DEF Crash
  <2>2. Busy(v) => pc'[v] = "failed"
    BY <2>1
  <2>3. ~Busy(v) => job'[v] = job[v] /\ pc'[v] = pc[v]
    BY <1>12 DEF Crash
  <2>4. QED
    BY <1>3, <2>2, <2>3 DEF AtHand, Holding
<1>13. CASE UNCHANGED vars
  BY <1>3, <1>13 DEF vars
<1>14. QED
  BY <1>4, <1>5, <1>6, <1>7, <1>8, <1>9, <1>10, <1>11, <1>12, <1>13 DEF Next

-----------------------------------------------------------------------------
(***************************************************************************)
(* The cache.                                                              *)
(***************************************************************************)
LEMMA CacheKept ==
  ASSUME CacheInv, UNCHANGED cache,
         \A u \in Ingestors : pc'[u] \in {"write", "replace"} => pc'[u] = pc[u] /\ job'[u].bytes = job[u].bytes /\ job'[u].file = job[u].file
  PROVE  CacheInv'
  BY DEF CacheInv, cache

(* One that opens the file where nobody has it open is alone with it.      *)
LEMMA OpenCache ==
  ASSUME TypeOK, SourceInv, CacheInv, NEW w \in Ingestors, Open(w)
  PROVE  CacheInv'
<1>1. /\ job'[w].bytes = job[w].bytes /\ job'[w].file = "tmp" /\ pc'[w] = "write"
      /\ job[w].bytes \in Bytes /\ bin' = bin
      /\ \A u \in Ingestors \ {w} : pc'[u] = pc[u] /\ job'[u] = job[u]
  <2>1. job[w] \in Job
    BY DEF TypeOK
  <2>2. job'[w] = [job[w] EXCEPT !.file = "tmp"]
    BY DEF TypeOK, Open
  <2>3. job'[w].bytes = job[w].bytes /\ job'[w].file = "tmp"
    BY <2>1, <2>2 DEF Job
  <2>4. QED
    BY <2>3 DEF TypeOK, SourceInv, Holding, Open
<1> SUFFICES ASSUME NEW b \in Bytes \ raced'
             PROVE  /\ bin'[b] # "torn"
                    /\ \A u, v \in Ingestors :
                         {pc'[u], pc'[v]} \subseteq {"write", "replace"} /\ job'[u].bytes = b /\ job'[v].bytes = b => u = v
                    /\ \A v \in Ingestors : job'[v].bytes = b =>
                         /\ pc'[v] = "write" => job'[v].file = "tmp"
                         /\ pc'[v] = "replace" => tmp'[b] = "whole"
  BY DEF CacheInv
<1>2. b \in Bytes \ raced
  BY DEF Open
<1>3. CASE b # job[w].bytes
  <2>1. tmp'[b] = tmp[b]
    BY <1>3 DEF TypeOK, Open
  <2>2. QED
    BY <1>1, <1>2, <1>3, <2>1 DEF CacheInv
<1>4. CASE b = job[w].bytes
  <2>1. \A u \in Ingestors : ~(pc[u] \in {"write", "replace"} /\ job[u].bytes = b)
    BY <1>4 DEF Open
  <2>2. QED
    BY <1>1, <1>2, <1>4, <2>1 DEF CacheInv
<1>5. QED
  BY <1>3, <1>4

LEMMA WriteCache ==
  ASSUME TypeOK, SourceInv, CacheInv, NEW w \in Ingestors, Write(w)
  PROVE  CacheInv'
<1>1. /\ job' = job /\ raced' = raced /\ pc[w] = "write" /\ pc'[w] = "replace"
      /\ job[w].bytes \in Bytes
      /\ \A u \in Ingestors \ {w} : pc'[u] = pc[u]
  BY DEF TypeOK, SourceInv, Holding, Write
<1>2. ASSUME NEW b \in Bytes, b # job[w].bytes
      PROVE  bin'[b] = bin[b] /\ tmp'[b] = tmp[b]
  BY <1>2 DEF TypeOK, Write
<1>3. job[w].bytes \notin raced => bin' = bin /\ tmp'[job[w].bytes] = "whole"
  BY <1>1 DEF TypeOK, CacheInv, Write
<1>4. QED
  BY <1>1, <1>2, <1>3 DEF CacheInv

(* What is renamed by one that is alone is whole.                          *)
LEMMA ReplaceCache ==
  ASSUME TypeOK, SourceInv, CacheInv, NEW w \in Ingestors, Replace(w)
  PROVE  CacheInv'
<1> DEFINE x == job[w].bytes
<1>1. /\ raced' = raced /\ pc[w] = "replace" /\ pc'[w] = "record" /\ x \in Bytes
      /\ \A u \in Ingestors \ {w} : pc'[u] = pc[u]
  BY DEF TypeOK, SourceInv, Holding, Replace
<1>2. ASSUME NEW b \in Bytes, b # x
      PROVE  bin'[b] = bin[b] /\ tmp'[b] = tmp[b]
  BY <1>2 DEF TypeOK, Replace
<1>3. bin'[x] = tmp[x]
  BY <1>1 DEF TypeOK, Replace
<1>4. \A u \in Ingestors : job'[u].bytes = job[u].bytes
  BY CachingEffect
<1>5. ASSUME NEW u \in Ingestors, ~(pc[u] = "write" /\ job[u].bytes = x)
      PROVE  job'[u] = job[u]
  BY <1>5 DEF TypeOK, Replace, Writing
<1> SUFFICES ASSUME NEW b \in Bytes \ raced
             PROVE  /\ bin'[b] # "torn"
                    /\ \A u, v \in Ingestors :
                         {pc'[u], pc'[v]} \subseteq {"write", "replace"} /\ job'[u].bytes = b /\ job'[v].bytes = b => u = v
                    /\ \A v \in Ingestors : job'[v].bytes = b =>
                         /\ pc'[v] = "write" => job'[v].file = "tmp"
                         /\ pc'[v] = "replace" => tmp'[b] = "whole"
  BY <1>1 DEF CacheInv
<1>6. CASE b # x
  <2>1. \A u \in Ingestors : job[u].bytes = b => job'[u] = job[u]
    BY <1>5, <1>6
  <2>2. \A u \in Ingestors : pc'[u] \in {"write", "replace"} => pc'[u] = pc[u]
    BY <1>1
  <2> HIDE DEF x
  <2>3. QED
    BY <1>2, <1>4, <1>6, <2>1, <2>2 DEF CacheInv
<1>7. CASE b = x
  <2>1. \A u \in Ingestors : pc'[u] \in {"write", "replace"} => job'[u].bytes # b
    BY <1>1, <1>4, <1>7 DEF CacheInv
  <2>2. bin'[b] = "whole"
    BY <1>1, <1>3, <1>7 DEF CacheInv
  <2>3. QED
    BY <2>1, <2>2
<1>8. QED
  BY <1>6, <1>7

LEMMA NextCache ==
  ASSUME TypeOK, SourceInv, CacheInv, [Next]_vars
  PROVE  CacheInv'
<1>1. ASSUME NEW w \in Ingestors, NEW kind \in Kinds, NEW localOnly \in BOOLEAN, Start(w, kind, localOnly)
      PROVE  CacheInv'
  <2>1. UNCHANGED cache
    BY <1>1 DEF Start
  <2>2. /\ pc'[w] \notin {"write", "replace"}
        /\ \A u \in Ingestors \ {w} :
             pc'[u] = pc[u] /\ job'[u].bytes = job[u].bytes /\ job'[u].file = job[u].file
    BY <1>1, StartEffect
  <2>3. QED
    BY <2>1, <2>2, CacheKept
<1>2. ASSUME NEW w \in Ingestors,
             \/ SkipSource(w) \/ ReadLocal(w) \/ NotThere(w) \/ ReadPinned(w) \/ Request(w) \/ Answer(w)
             \/ \E transport \in BOOLEAN : Retry(w, transport)
      PROVE  CacheInv'
  <2>1. UNCHANGED cache
    BY <1>2 DEF SkipSource, ReadLocal, NotThere, ReadPinned, Request, Answer, Retry
  <2>2. Others(w) /\ pc'[w] \notin {"write", "replace"}
    BY <1>2, ReadingEffect DEF Stays, Passes
  <2>3. QED
    BY <2>1, <2>2, CacheKept DEF Others
<1>3. ASSUME NEW w \in Ingestors, Open(w) PROVE CacheInv'
  BY <1>3, OpenCache
<1>4. ASSUME NEW w \in Ingestors, Write(w) PROVE CacheInv'
  BY <1>4, WriteCache
<1>5. ASSUME NEW w \in Ingestors, Replace(w) PROVE CacheInv'
  BY <1>5, ReplaceCache
<1>6. ASSUME NEW w \in Ingestors, ReplaceFails(w) \/ ExtractFails(w) \/ Finish(w)
      PROVE  CacheInv'
  <2>1. /\ UNCHANGED <<cache, job>> /\ pc'[w] \notin {"write", "replace"}
        /\ \A u \in Ingestors \ {w} : pc'[u] = pc[u]
    BY <1>6 DEF TypeOK, ReplaceFails, ExtractFails, Finish
  <2>2. QED
    BY <2>1, CacheKept
<1>7. ASSUME NEW w \in Ingestors, Record(w) PROVE CacheInv'
  <2>1. UNCHANGED cache
    BY <1>7 DEF Record
  <2>2. QED
    BY <1>7, <2>1, RecordEffect, CacheKept DEF Others
<1>8. ASSUME NEW w \in Ingestors, EndSources(w) PROVE CacheInv'
  <2>1. UNCHANGED cache
    BY <1>8 DEF EndSources
  <2>2. Others(w) /\ pc'[w] \notin {"write", "replace"}
    BY <1>8, EndSourcesEffect
  <2>3. QED
    BY <2>1, <2>2, CacheKept DEF Others
<1>9. ASSUME NEW w \in Ingestors, NEW ns \in SUBSET Numbers, Extract(w, ns) PROVE CacheInv'
  <2>1. UNCHANGED cache
    BY <1>9 DEF Extract
  <2>2. QED
    BY <1>9, <2>1, ExtractEffect, CacheKept DEF Others
<1>10. ASSUME NEW p \in Places, NEW c \in Contents \cup {Absent}, Publish(p, c) PROVE CacheInv'
  BY <1>10, CacheKept DEF Publish
<1>11. CASE Crash
  <2>1. ASSUME NEW u \in Ingestors, pc'[u] \in {"write", "replace"}
        PROVE  pc'[u] = pc[u] /\ job'[u] = job[u]
    BY <1>11, <2>1 DEF Crash
  <2>2. UNCHANGED cache
    BY <1>11 DEF Crash
  <2>3. QED
    BY <2>1, <2>2, CacheKept
<1>12. CASE UNCHANGED vars
  BY <1>12, CacheKept DEF vars
<1>13. QED
  BY <1>1, <1>2, <1>3, <1>4, <1>5, <1>6, <1>7, <1>8, <1>9, <1>10, <1>11, <1>12 DEF Next

-----------------------------------------------------------------------------
(***************************************************************************)
(* The rows of documents and elements.                                     *)
(***************************************************************************)

(* What RowsInv says of one ingestion.                                     *)
Stored(w) ==
  job[w].kind = "run" => \A k \in DOMAIN job[w].documents :
    LET d == job[w].documents[k].id
        b == job[w].raw[d]
    IN  /\ document[d] = b
        /\ pc[w] \in {"extract", "finished"} /\ k < job[w].at /\ b.whole =>
             \A n \in ElementsOf[b.of] : element[d][n] = b

Extracted(w) == pc[w] = "finished" /\ job[w].kind = "run" => job[w].at = Len(job[w].documents) + 1

LEMMA RowsInvAgain ==
  RowsInv <=> \A w \in Ingestors : job[w].alone =>
                (\A v \in Ingestors : v # w => ~Busy(v)) /\ Stored(w) /\ Extracted(w)
  BY DEF RowsInv, Stored, Extracted

(* One that is at work is the only one that can be alone, so nothing is    *)
(* said of the others.                                                     *)
LEMMA RowsOfOne ==
  ASSUME RowsInv, NEW w \in Ingestors, Busy(w),
         \A u \in Ingestors \ {w} : pc'[u] = pc[u] /\ job'[u].alone = job[u].alone,
         job'[w].alone = job[w].alone,
         job[w].alone => Stored(w)' /\ Extracted(w)'
  PROVE  RowsInv'
<1>1. ASSUME NEW u \in Ingestors, job'[u].alone
      PROVE  (\A v \in Ingestors : v # u => ~Busy(v)') /\ Stored(u)' /\ Extracted(u)'
  <2>1. u = w
    BY <1>1 DEF RowsInv
  <2>2. QED
    BY <1>1, <2>1 DEF RowsInv, Busy
<1>2. QED
  BY <1>1 DEF RowsInv, Stored, Extracted

LEMMA RowsKept ==
  ASSUME RowsInv, NEW w \in Ingestors, Busy(w), UNCHANGED rows, Keeps(w),
         pc'[w] \notin {"extract", "finished"},
         \A u \in Ingestors \ {w} : pc'[u] = pc[u] /\ job'[u].alone = job[u].alone
  PROVE  RowsInv'
<1>1. job[w].alone => Stored(w)' /\ Extracted(w)'
  BY DEF RowsInv, Stored, Extracted, Keeps, rows
<1>2. QED
  BY <1>1, RowsOfOne DEF Keeps

LEMMA RecordRows ==
  ASSUME TypeOK, SourceInv, RowsInv, NEW w \in Ingestors, Record(w)
  PROVE  RowsInv'
<1> DEFINE d == Source(w).id
           b == job[w].bytes
           documents == job[w].documents
<1>1. /\ pc[w] = "record" /\ pc'[w] = "source" /\ Others(w)
      /\ b \in Bytes /\ d \in Ids
      /\ job'[w].raw = [job[w].raw EXCEPT ![d] = b]
      /\ job'[w].alone = job[w].alone /\ job'[w].kind = job[w].kind
      /\ \/ job[w].kind = "register"
         \/ job'[w].documents = Append(documents, [id |-> d, sha |-> b])
  BY RecordEffect
<1>2. ASSUME job[w].alone, job[w].kind = "run"
      PROVE  Stored(w)'
  <2>1. document' = [document EXCEPT ![d] = b]
    BY <1>2 DEF Record, Save
  <2>2. /\ job[w].raw \in [Ids -> Bytes \cup {NoBytes}] /\ documents \in Seq([id : Ids, sha : Bytes])
    <3>1. job[w] \in Job
      BY DEF TypeOK
    <3>2. QED
      BY <3>1 DEF Job
  <2>3. [id |-> d, sha |-> b] \in [id : Ids, sha : Bytes]
    BY <1>1
  <2>4. job'[w].documents = Append(documents, [id |-> d, sha |-> b])
    BY <1>1, <1>2
  <2>5. ASSUME NEW k \in DOMAIN job'[w].documents
        PROVE  LET e == job'[w].documents[k].id IN document'[e] = job'[w].raw[e]
    <3> DEFINE e == job'[w].documents[k].id
    <3>1. DOMAIN job'[w].documents = 1..(Len(documents) + 1) /\ DOMAIN documents = 1..Len(documents) /\ Len(documents) \in Nat
      BY <2>2, <2>3, <2>4, AppendTyped
    <3>2. CASE k \in DOMAIN documents
      <4>1. job'[w].documents[k] = documents[k]
        BY <2>2, <2>3, <2>4, <3>2, AppendTyped
      <4>2. documents[k].id \in Ids
        <5>1. documents[k] \in [id : Ids, sha : Bytes]
          BY <2>2, <3>2, ElementTyped
        <5>2. QED
          BY <5>1
      <4>3. document[documents[k].id] = job[w].raw[documents[k].id]
        BY <1>2, <3>2 DEF RowsInv
      <4>4. QED
        BY <1>1, <2>1, <2>2, <4>1, <4>2, <4>3 DEF TypeOK
    <3>3. CASE k = Len(documents) + 1
      <4>1. e = d
        BY <2>2, <2>3, <2>4, <3>3, AppendTyped
      <4>2. QED
        BY <1>1, <2>1, <2>2, <4>1 DEF TypeOK
    <3>4. QED
      BY <3>1, <3>2, <3>3
  <2>6. QED
    BY <1>1, <2>5 DEF Stored
<1>3. job[w].alone => Stored(w)' /\ Extracted(w)'
  BY <1>1, <1>2 DEF Stored, Extracted
<1>4. QED
  BY <1>1, <1>3, RowsOfOne DEF Others, Busy

LEMMA ExtractRows ==
  ASSUME TypeOK, RowsInv, NEW w \in Ingestors, NEW ns \in SUBSET Numbers, Extract(w, ns)
  PROVE  RowsInv'
<1> DEFINE documents == job[w].documents
           at == job[w].at
           d == documents[at].id
           b == job[w].raw[d]
<1>1. /\ pc[w] = "extract" /\ at \in DOMAIN documents
      /\ b.whole => ns = ElementsOf[b.of]
      /\ element' = SaveElements(d, ns, b) /\ document' = document
  BY DEF Extract
<1>2. Others(w) /\ Keeps(w) /\ job'[w].at = at + 1 /\ pc'[w] = "extract"
  BY ExtractEffect
<1>3. documents \in Seq([id : Ids, sha : Bytes]) /\ at \in Nat
  <2>1. job[w] \in Job
    BY DEF TypeOK
  <2>2. QED
    BY <2>1 DEF Job
<1>4. \A k \in DOMAIN documents : documents[k].id \in Ids
  <2>1. \A k \in DOMAIN documents : documents[k] \in [id : Ids, sha : Bytes]
    BY <1>3, ElementTyped
  <2>2. QED
    BY <2>1
<1>5. DOMAIN documents = 1..Len(documents) /\ Len(documents) \in Nat
  BY <1>3
<1>6. ASSUME job[w].alone, job[w].kind = "run", NEW k \in DOMAIN documents
      PROVE  LET e == documents[k].id
                 c == job[w].raw[e]
             IN  /\ document'[e] = c
                 /\ k < at + 1 /\ c.whole => \A n \in ElementsOf[c.of] : element'[e][n] = c
  <2> DEFINE e == documents[k].id
             c == job[w].raw[e]
  <2>1. document[e] = c /\ (k < at /\ c.whole => \A n \in ElementsOf[c.of] : element[e][n] = c)
    BY <1>1, <1>6 DEF RowsInv
  <2>2. CASE e = d
    <3>1. ASSUME c.whole, NEW n \in ElementsOf[c.of] PROVE element'[e][n] = c
      <4>1. n \in ns
        BY <1>1, <2>2, <3>1
      <4>2. e \in Ids
        BY <1>4, <1>6
      <4>3. QED
        BY <1>1, <2>2, <4>1, <4>2 DEF TypeOK, SaveElements
    <3>2. QED
      BY <1>1, <2>1, <3>1
  <2>3. CASE e # d
    <3>1. element'[e] = element[e]
      BY <1>1, <1>4, <1>6, <2>3 DEF TypeOK, SaveElements
    <3>2. k < at + 1 => k < at
      BY <1>3, <1>5, <2>3
    <3>3. QED
      BY <1>1, <2>1, <3>1, <3>2
  <2>4. QED
    BY <2>2, <2>3
<1>7. job[w].alone => Stored(w)' /\ Extracted(w)'
  BY <1>2, <1>6 DEF Stored, Extracted, Keeps
<1>8. QED
  BY <1>1, <1>2, <1>7, RowsOfOne DEF Others, Keeps, Busy

LEMMA NextRows ==
  ASSUME TypeOK, SourceInv, RowsInv, [Next]_vars
  PROVE  RowsInv'
<1>1. ASSUME NEW w \in Ingestors, NEW kind \in Kinds, NEW localOnly \in BOOLEAN, Start(w, kind, localOnly)
      PROVE  RowsInv'
  <2>1. /\ pc'[w] # "finished" /\ job'[w].documents = <<>>
        /\ job'[w].alone => \A v \in Ingestors : ~Busy(v)
        /\ \A u \in Ingestors \ {w} : pc'[u] = pc[u] /\ ~job'[u].alone
    BY <1>1, StartEffect
  <2>2. Stored(w)' /\ Extracted(w)'
    BY <2>1 DEF Stored, Extracted
  <2>3. job'[w].alone => \A v \in Ingestors \ {w} : ~Busy(v)'
    BY <2>1 DEF Busy
  <2>4. QED
    BY <2>1, <2>2, <2>3 DEF RowsInv, Stored, Extracted
<1>2. ASSUME NEW w \in Ingestors,
             \/ SkipSource(w) \/ ReadLocal(w) \/ NotThere(w) \/ ReadPinned(w) \/ Request(w) \/ Answer(w)
             \/ \E transport \in BOOLEAN : Retry(w, transport)
      PROVE  RowsInv'
  <2>1. UNCHANGED rows
    BY <1>2 DEF SkipSource, ReadLocal, NotThere, ReadPinned, Request, Answer, Retry
  <2>2. /\ pc[w] \in {"source", "http"} /\ pc'[w] \notin {"extract", "finished"}
        /\ Others(w) /\ Keeps(w)
    BY <1>2, ReadingEffect DEF Stays, Passes
  <2>3. QED
    BY <2>1, <2>2, RowsKept DEF Others, Busy
<1>3. ASSUME NEW w \in Ingestors, Open(w) \/ Write(w) \/ Replace(w) \/ ReplaceFails(w)
      PROVE  RowsInv'
  <2>1. UNCHANGED rows
    BY <1>3 DEF Open, Write, Replace, ReplaceFails
  <2>2. /\ pc[w] \in {"open", "write", "replace"} /\ pc'[w] \notin {"extract", "finished"} /\ Keeps(w)
        /\ \A u \in Ingestors \ {w} : pc'[u] = pc[u] /\ job'[u].alone = job[u].alone
    BY <1>3, CachingEffect DEF Keeps
  <2>3. QED
    BY <2>1, <2>2, RowsKept DEF Busy
<1>4. ASSUME NEW w \in Ingestors, Record(w) PROVE RowsInv'
  BY <1>4, RecordRows
<1>5. ASSUME NEW w \in Ingestors, EndSources(w) PROVE RowsInv'
  <2>1. /\ Others(w) /\ Keeps(w) /\ job'[w].at = 1 /\ UNCHANGED rows /\ Busy(w)
        /\ pc'[w] = IF job[w].kind = "run" THEN "extract" ELSE "finished"
    BY <1>5, EndSourcesEffect DEF EndSources, Busy
  <2>2. \A k \in DOMAIN job[w].documents : ~(k < 1)
    <3>1. job[w] \in Job
      BY DEF TypeOK
    <3>2. job[w].documents \in Seq([id : Ids, sha : Bytes])
      BY <3>1 DEF Job
    <3>3. QED
      BY <3>2
  <2>3. job[w].alone => Stored(w)' /\ Extracted(w)'
    BY <2>1, <2>2 DEF RowsInv, Stored, Extracted, Keeps, rows
  <2>4. QED
    BY <2>1, <2>3, RowsOfOne DEF Others, Keeps
<1>6. ASSUME NEW w \in Ingestors, NEW ns \in SUBSET Numbers, Extract(w, ns) PROVE RowsInv'
  BY <1>6, ExtractRows
<1>7. ASSUME NEW w \in Ingestors, ExtractFails(w) PROVE RowsInv'
  <2>1. /\ UNCHANGED <<rows, job>> /\ pc[w] = "extract" /\ pc'[w] = "failed"
        /\ \A u \in Ingestors \ {w} : pc'[u] = pc[u]
    BY <1>7 DEF TypeOK, ExtractFails
  <2>2. QED
    BY <2>1, RowsKept DEF Keeps, Busy
<1>8. ASSUME NEW w \in Ingestors, Finish(w) PROVE RowsInv'
  <2>1. /\ UNCHANGED <<rows, job>> /\ pc[w] = "extract" /\ pc'[w] = "finished"
        /\ job[w].at = Len(job[w].documents) + 1
        /\ \A u \in Ingestors \ {w} : pc'[u] = pc[u]
    BY <1>8 DEF TypeOK, Finish
  <2>2. job[w].alone => Stored(w)' /\ Extracted(w)'
    BY <2>1 DEF RowsInv, Stored, Extracted, rows
  <2>3. QED
    BY <2>1, <2>2, RowsOfOne DEF Busy
<1>9. ASSUME NEW p \in Places, NEW c \in Contents \cup {Absent}, Publish(p, c) PROVE RowsInv'
  BY <1>9 DEF RowsInv, Publish, Busy, rows
<1>10. CASE Crash
  <2>1. \A u \in Ingestors : ~Busy(u)'
    BY <1>10 DEF Crash, Busy
  <2>2. ASSUME NEW u \in Ingestors, job'[u].alone PROVE ~Busy(u)
    <3>1. Busy(u) => job'[u] = [Fresh EXCEPT !.alone = FALSE]
      BY <1>10 DEF Crash
    <3>2. QED
      BY <2>2, <3>1 DEF Fresh
  <2>3. ASSUME NEW u \in Ingestors, job'[u].alone PROVE Stored(u)' /\ Extracted(u)'
    <3>1. job'[u] = job[u] /\ pc'[u] = pc[u] /\ UNCHANGED rows
      BY <1>10, <2>2, <2>3 DEF Crash
    <3>2. QED
      BY <2>3, <3>1 DEF RowsInv, Stored, Extracted, rows
  <2>4. QED
    BY <2>1, <2>3 DEF RowsInv, Stored, Extracted
<1>11. CASE UNCHANGED vars
  BY <1>11 DEF RowsInv, vars, rows, Busy
<1>12. QED
  BY <1>1, <1>2, <1>3, <1>4, <1>5, <1>6, <1>7, <1>8, <1>9, <1>10, <1>11 DEF Next

-----------------------------------------------------------------------------
(***************************************************************************)
(* The local sources.                                                      *)
(***************************************************************************)

(* What ReadInv says of one ingestion.                                     *)
HasRead(w) ==
  pc[w] \notin {"idle", "failed"} /\ job[w].kind = "run" /\ changes = 0 =>
    \A i \in DOMAIN registry :
      Passed(w, i) /\ registry[i].local /\ world[registry[i].place] # Absent =>
        \E k \in DOMAIN job[w].documents : job[w].documents[k].id = registry[i].id

LEMMA ReadOfOne ==
  ASSUME ReadInv, NEW w \in Ingestors, UNCHANGED <<registry, world, changes>>,
         \A u \in Ingestors \ {w} :
           /\ pc'[u] = pc[u] /\ job'[u].at = job[u].at
           /\ job'[u].kind = job[u].kind /\ job'[u].documents = job[u].documents,
         HasRead(w)'
  PROVE  ReadInv'
  BY DEF ReadInv, HasRead, Passed

(* One that has passed no source since, or a source that it need not read. *)
LEMMA ReadKept ==
  ASSUME ReadInv, NEW w \in Ingestors, UNCHANGED <<registry, world, changes>>,
         pc[w] \notin {"idle", "failed"}, Keeps(w),
         \A i \in DOMAIN registry : Passed(w, i)' =>
           Passed(w, i) \/ ~registry[i].local \/ world[registry[i].place] = Absent
  PROVE  HasRead(w)'
<1> SUFFICES ASSUME job[w].kind = "run", changes = 0, NEW i \in DOMAIN registry,
                    Passed(w, i)', registry[i].local, world[registry[i].place] # Absent
             PROVE  \E k \in DOMAIN job'[w].documents : job'[w].documents[k].id = registry[i].id
  BY DEF HasRead, Keeps
<1>1. Passed(w, i)
  OBVIOUS
<1>2. QED
  BY <1>1 DEF ReadInv, Keeps

LEMMA AtTyped ==
  ASSUME TypeOK, NEW w \in Ingestors
  PROVE  job[w].at \in Nat /\ job[w].documents \in Seq([id : Ids, sha : Bytes])
<1>1. job[w] \in Job
  BY DEF TypeOK
<1>2. QED
  BY <1>1 DEF Job

LEMMA RecordRead ==
  ASSUME TypeOK, SourceInv, ReadInv, NEW w \in Ingestors, Record(w)
  PROVE  ReadInv'
<1> DEFINE d == Source(w).id
           b == job[w].bytes
           documents == job[w].documents
<1>1. /\ pc[w] = "record" /\ pc'[w] = "source" /\ Others(w)
      /\ b \in Bytes /\ d \in Ids
      /\ job'[w].at = job[w].at + 1 /\ job'[w].kind = job[w].kind
      /\ \/ job[w].kind = "register"
         \/ job'[w].documents = Append(documents, [id |-> d, sha |-> b])
      /\ registry \in Seq(Entry)
  BY RecordEffect
<1>2. UNCHANGED <<registry, world, changes>>
  BY DEF Record, bounds
<1>3. ASSUME job[w].kind = "run", changes = 0, NEW i \in DOMAIN registry, Passed(w, i)',
             registry[i].local, world[registry[i].place] # Absent
      PROVE  \E k \in DOMAIN job'[w].documents : job'[w].documents[k].id = registry[i].id
  <2>1. documents \in Seq([id : Ids, sha : Bytes]) /\ job[w].at \in Nat /\ i \in Nat
    <3>1. i \in Nat
      BY <1>1
    <3>2. QED
      BY <3>1, AtTyped
  <2>2. [id |-> d, sha |-> b] \in [id : Ids, sha : Bytes]
    BY <1>1
  <2>3. job'[w].documents = Append(documents, [id |-> d, sha |-> b])
    BY <1>1, <1>3
  <2>4. /\ DOMAIN documents \subseteq DOMAIN job'[w].documents
        /\ \A k \in DOMAIN documents : job'[w].documents[k] = documents[k]
    BY <2>1, <2>2, <2>3, AppendTyped
  <2>5. Len(documents) + 1 \in DOMAIN job'[w].documents /\ job'[w].documents[Len(documents) + 1].id = d
    BY <2>1, <2>2, <2>3, AppendTyped
  <2>6. CASE i = job[w].at
    BY <2>5, <2>6 DEF Source
  <2>7. CASE i < job[w].at
    <3>1. \E k \in DOMAIN documents : documents[k].id = registry[i].id
      BY <1>1, <1>3, <2>7 DEF ReadInv, Passed
    <3>2. QED
      BY <2>4, <3>1
  <2>8. i < job[w].at + 1
    BY <1>1, <1>3 DEF Passed
  <2>9. QED
    BY <2>1, <2>6, <2>7, <2>8
<1>4. HasRead(w)'
  BY <1>1, <1>2, <1>3 DEF HasRead
<1>5. QED
  BY <1>1, <1>2, <1>4, ReadOfOne DEF Others

LEMMA NextRead ==
  ASSUME TypeOK, SourceInv, ReadInv, [Next]_vars
  PROVE  ReadInv'
<1>1. ASSUME NEW w \in Ingestors, NEW kind \in Kinds, NEW localOnly \in BOOLEAN, Start(w, kind, localOnly)
      PROVE  ReadInv'
  <2>1. UNCHANGED <<registry, world, changes>>
    BY <1>1 DEF Start
  <2>2. /\ pc'[w] = (IF registry = Missing THEN "failed" ELSE "source") /\ job'[w].at = 1
        /\ \A u \in Ingestors \ {w} :
             /\ pc'[u] = pc[u] /\ job'[u].at = job[u].at
             /\ job'[u].kind = job[u].kind /\ job'[u].documents = job[u].documents
    BY <1>1, StartEffect
  <2>3. registry # Missing => registry \in Seq(Entry)
    BY RegistryAssumption DEF TypeOK
  <2>4. registry # Missing => \A i \in DOMAIN registry : ~(i < 1)
    BY <2>3
  <2>5. HasRead(w)'
    BY <2>1, <2>2, <2>4 DEF HasRead, Passed
  <2>6. QED
    BY <2>1, <2>2, <2>5, ReadOfOne
<1>2. ASSUME NEW w \in Ingestors,
             \/ SkipSource(w) \/ ReadLocal(w) \/ NotThere(w) \/ ReadPinned(w) \/ Request(w) \/ Answer(w)
             \/ \E transport \in BOOLEAN : Retry(w, transport)
      PROVE  ReadInv'
  <2>1. UNCHANGED <<registry, world, changes>>
    BY <1>2 DEF SkipSource, ReadLocal, NotThere, ReadPinned, Request, Answer, Retry, bounds
  <2>2. /\ pc[w] \in {"source", "http"} /\ registry \in Seq(Entry)
        /\ Others(w) /\ Keeps(w) /\ (Stays(w) \/ Passes(w))
    BY <1>2, ReadingEffect
  <2>3. job[w].at \in Nat
    BY AtTyped
  <2>4. ASSUME NEW i \in DOMAIN registry, Passed(w, i)'
        PROVE  Passed(w, i) \/ ~registry[i].local \/ world[registry[i].place] = Absent
    <3>1. i \in Nat
      BY <2>2
    <3>2. QED
      BY <2>2, <2>3, <2>4, <3>1 DEF Passed, Stays, Passes, Source
  <2>5. HasRead(w)'
    BY <2>1, <2>2, <2>4, ReadKept
  <2>6. QED
    BY <2>1, <2>2, <2>5, ReadOfOne DEF Others
<1>3. ASSUME NEW w \in Ingestors, Open(w) \/ Write(w) \/ Replace(w) \/ ReplaceFails(w)
      PROVE  ReadInv'
  <2>1. UNCHANGED <<registry, world, changes>>
    BY <1>3 DEF Open, Write, Replace, ReplaceFails, bounds
  <2>2. /\ pc[w] \in {"open", "write", "replace"} /\ pc'[w] \notin {"extract", "finished"}
        /\ \A u \in Ingestors \ {w} : pc'[u] = pc[u]
        /\ \A u \in Ingestors : Keeps(u) /\ job'[u].at = job[u].at
    BY <1>3, CachingEffect
  <2>3. HasRead(w)'
    BY <2>1, <2>2, ReadKept DEF Passed
  <2>4. QED
    BY <2>1, <2>2, <2>3, ReadOfOne DEF Keeps
<1>4. ASSUME NEW w \in Ingestors, Record(w) PROVE ReadInv'
  BY <1>4, RecordRead
<1>5. ASSUME NEW w \in Ingestors, EndSources(w) PROVE ReadInv'
  <2>1. /\ Others(w) /\ Keeps(w) /\ UNCHANGED <<registry, world, changes>>
        /\ pc[w] = "source" /\ job[w].at = Len(registry) + 1 /\ registry \in Seq(Entry)
    BY <1>5, EndSourcesEffect DEF EndSources, SourceInv, bounds
  <2>2. \A i \in DOMAIN registry : Passed(w, i)
    BY <2>1 DEF Passed
  <2>3. HasRead(w)'
    BY <2>1, <2>2, ReadKept
  <2>4. QED
    BY <2>1, <2>3, ReadOfOne DEF Others
<1>6. ASSUME NEW w \in Ingestors, NEW ns \in SUBSET Numbers, Extract(w, ns) PROVE ReadInv'
  <2>1. /\ Others(w) /\ Keeps(w) /\ UNCHANGED <<registry, world, changes>> /\ pc[w] = "extract"
    BY <1>6, ExtractEffect DEF Extract, bounds
  <2>2. HasRead(w)'
    BY <2>1, ReadKept DEF Passed
  <2>3. QED
    BY <2>1, <2>2, ReadOfOne DEF Others
<1>7. ASSUME NEW w \in Ingestors, ExtractFails(w) \/ Finish(w) PROVE ReadInv'
  <2>1. /\ UNCHANGED <<registry, world, changes, job>> /\ pc[w] = "extract"
        /\ \A u \in Ingestors \ {w} : pc'[u] = pc[u]
    BY <1>7 DEF TypeOK, ExtractFails, Finish, bounds
  <2>2. HasRead(w)'
    BY <2>1, ReadKept DEF Passed, Keeps
  <2>3. QED
    BY <2>1, <2>2, ReadOfOne
<1>8. ASSUME NEW p \in Places, NEW c \in Contents \cup {Absent}, Publish(p, c) PROVE ReadInv'
  <2>1. changes' # 0
    BY <1>8 DEF TypeOK, Publish
  <2>2. QED
    BY <2>1 DEF ReadInv
<1>9. CASE Crash
  <2>1. \A u \in Ingestors : pc'[u] = "failed" \/ (pc'[u] = pc[u] /\ job'[u] = job[u])
    BY <1>9 DEF Crash
  <2>2. UNCHANGED <<registry, world, changes>>
    BY <1>9 DEF Crash
  <2>3. QED
    BY <2>1, <2>2 DEF ReadInv, Passed
<1>10. CASE UNCHANGED vars
  BY <1>10 DEF ReadInv, Passed, vars, bounds
<1>11. QED
  BY <1>1, <1>2, <1>3, <1>4, <1>5, <1>6, <1>7, <1>8, <1>9, <1>10 DEF Next

-----------------------------------------------------------------------------
(***************************************************************************)
(* The theorems.                                                           *)
(***************************************************************************)
CorpusInv == TypeOK /\ SourceInv /\ CacheInv /\ RowsInv /\ ReadInv

(* All of it is kept by every step.                                        *)
LEMMA Inductive == Spec => []CorpusInv
<1>1. Init => CorpusInv
  <2> SUFFICES ASSUME Init PROVE CorpusInv
    OBVIOUS
  <2>1. TypeOK
    BY InitTyped
  <2>2. SourceInv /\ ReadInv
    BY DEF Init, SourceInv, ReadInv, AtHand, Holding
  <2>3. CacheInv
    BY DEF Init, CacheInv
  <2>4. RowsInv
    BY DEF Init, RowsInv, Busy, Fresh
  <2>5. QED
    BY <2>1, <2>2, <2>3, <2>4 DEF CorpusInv
<1>2. CorpusInv /\ [Next]_vars => CorpusInv'
  BY NextTyped, NextSource, NextCache, NextRows, NextRead DEF CorpusInv
<1>3. QED
  BY <1>1, <1>2, PTL DEF Spec

(* Every variable keeps its type.                                          *)
THEOREM CorpusTypeCorrect == Spec => []TypeOK
  BY Inductive, PTL DEF CorpusInv

(* An entry of the cache is torn only where two ingestions had its         *)
(* temporary file open at once (RawByteCache.store).                       *)
THEOREM TornOnlyByRace == Spec => []TornNeedsRace
<1>1. CorpusInv => TornNeedsRace
  BY DEF CorpusInv, CacheInv, TornNeedsRace
<1>2. QED
  BY <1>1, Inductive, PTL

(* A run that had the store for itself leaves the rows of what it read,    *)
(* whatever was there before (ingest_node, extract_node).                  *)
THEOREM RunIsStored == Spec => []FinishedRunIsStored
<1>1. CorpusInv => FinishedRunIsStored
  <2> SUFFICES ASSUME CorpusInv, NEW w \in Ingestors,
                      pc[w] = "finished", job[w].kind = "run", job[w].alone,
                      NEW k \in DOMAIN job[w].documents
               PROVE  LET d == job[w].documents[k].id
                          b == job[w].raw[d]
                      IN  /\ document[d] = b
                          /\ b.whole => \A n \in ElementsOf[b.of] : element[d][n] = b
    BY DEF FinishedRunIsStored
  <2>1. job[w].at = Len(job[w].documents) + 1
    BY DEF CorpusInv, RowsInv
  <2>2. job[w].documents \in Seq([id : Ids, sha : Bytes])
    BY AtTyped DEF CorpusInv
  <2>3. k < job[w].at
    BY <2>1, <2>2
  <2>4. QED
    BY <2>3 DEF CorpusInv, RowsInv
<1>2. QED
  BY <1>1, Inductive, PTL

(* A source that cannot be read costs no local source its document         *)
(* (ingest_node).                                                          *)
THEOREM LocalsAreRead == Spec => []LocalSourcesAreRead
<1>1. CorpusInv => LocalSourcesAreRead
  <2> SUFFICES ASSUME CorpusInv, NEW w \in Ingestors,
                      pc[w] = "finished", job[w].kind = "run", changes = 0,
                      NEW i \in DOMAIN registry, registry[i].local, world[registry[i].place] # Absent
               PROVE  /\ \E k \in DOMAIN job[w].documents : job[w].documents[k].id = registry[i].id
                      /\ ~Degraded(w)
    BY DEF LocalSourcesAreRead
  <2>1. \E k \in DOMAIN job[w].documents : job[w].documents[k].id = registry[i].id
    BY DEF CorpusInv, ReadInv, Passed
  <2>2. QED
    BY <2>1 DEF Degraded
<1>2. QED
  BY <1>1, Inductive, PTL
=============================================================================
