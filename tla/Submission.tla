----------------------------- MODULE Submission -----------------------------
(***************************************************************************)
(* The submission of a run: one row per claim that is not rejected, built  *)
(* from the claim, the stored clause, the registry and the gold set, and   *)
(* written to a CSV file and then to a JSON file.                          *)
(*                                                                         *)
(* run_pipeline calls write_submission after the graph is done.  The files *)
(* are named after the run id, so another attempt of a run replaces them.  *)
(* Rows are checked as they are built, and one that lacks a required field *)
(* raises; a file is truncated when it is opened, and then written.        *)
(***************************************************************************)
EXTENDS Filter, Integers, FiniteSetsExt, SequencesExt

CONSTANTS
  Runs,         (* what a run may hand over, see HandedOver                *)
  LengthOf,     (* length of the text of each element that can be read     *)
  StartOf,      (* where it starts in its document                         *)
  DecimalIds,   (* indicator ids of the form pillar.indicator              *)
  KnownItems,   (* the gold items, each [ind, doc, text]                   *)
  NoFile,
  Torn,         (* a file that was opened and not yet written              *)
  MaxAttempts   (* bound on the attempts of the run                        *)

(* claims: in order, each [id, ind, clause, doc, spanned, from, to], with  *)
(* its first span if it has one, else with its clause for a document;      *)
(* status: the verdict on each id, "pending" without a report; listed: the *)
(* documents of the registry, none if it fails to load; linked: those with *)
(* a URL, their own or the registry's; gold: whether the gold set loads.   *)
HandedOver(r) ==
  /\ IsList(r.claims)
  /\ \A c \in Range(r.claims) : c.from \in Nat /\ c.to \in Nat /\ (~c.spanned => c.doc = c.clause)

ASSUME SubmissionAssumption ==
  /\ \A r \in Runs : HandedOver(r)
  /\ \A e \in DOMAIN LengthOf : LengthOf[e] \in Nat /\ StartOf[e] \in Nat
  /\ MaxAttempts \in Nat

VARIABLES
  run,          (* what the present attempt was handed                     *)
  phase,        (* "idle", "rows", "csv", "in_csv", "json", "in_json",     *)
                (* "written" or "failed"                                   *)
  records,      (* the rows that were built                                *)
  csv, json,    (* the two files, NoFile or Torn                           *)
  before,       (* history: the files when the attempt began               *)
  interrupted,  (* history: the attempt has stopped once a file was open   *)
  attempts      (* attempts begun                                          *)

submissionVars == <<run, phase, records, csv, json, before, interrupted, attempts>>

SubmissionTypeOK ==
  /\ run \in Runs \cup {NoFile} /\ (phase # "idle" => run \in Runs)
  /\ phase \in {"idle", "rows", "csv", "in_csv", "json", "in_json", "written", "failed"}
  /\ (csv = NoFile => json = NoFile) /\ interrupted \in BOOLEAN /\ attempts \in 0..MaxAttempts

SubmissionInit ==
  /\ run = NoFile /\ phase = "idle" /\ records = <<>>
  /\ csv = NoFile /\ json = NoFile /\ before = <<NoFile, NoFile>>
  /\ interrupted = FALSE /\ attempts = 0

-----------------------------------------------------------------------------
(* The words of an element are told apart by their places.                 *)
WordsOf(e, from, to) == {<<e, i>> : i \in {n \in from + 1..to : n <= LengthOf[e]}}

(* An offset in the document as one in the element, where it is one.       *)
InElement(e, offset) == IF offset >= StartOf[e] THEN offset - StartOf[e] ELSE 0

(* _verbatim: the text of the clause, cut by the first span.  A span that  *)
(* does not lie in the clause is read as one of the document; without a    *)
(* span, or if it then cuts out nothing, all of the clause is taken.       *)
Snippet(c) ==
  IF c.clause \notin DOMAIN LengthOf THEN {}
  ELSE LET n   == LengthOf[c.clause]
           cut == IF c.from < c.to /\ c.to <= n THEN WordsOf(c.clause, c.from, c.to)
                  ELSE WordsOf(c.clause, InElement(c.clause, c.from), InElement(c.clause, c.to))
       IN  IF c.spanned /\ cut # {} THEN cut ELSE WordsOf(c.clause, 0, n)

(* token_overlap of two texts, at least 0.6                                *)
Alike(a, b) == 10 * Cardinality(a \cap b) >= 6 * Cardinality(a \cup b)

(* tag_discovery: known by the law of its span, or by the text.            *)
Tag(r, c) ==
  IF r.gold /\ \E g \in KnownItems :
       g.ind = c.ind /\ ((c.spanned /\ g.doc = c.doc) \/ Alike(Snippet(c), g.text))
  THEN "KNOWN" ELSE "NEW"

RowOf(r, c) ==
  [claim |-> c.id, snippet |-> Snippet(c), tag |-> Tag(r, c), status |-> r.status[c.id]]

(* _source_meta: only the registry has the number or title of a law.       *)
IsListed(r, c) == c.doc \in r.listed

(* to_display_indicator                                                    *)
HasDisplay(c) == c.ind \in DecimalIds

(* ProvisionRecord: snippet, law number and URL are required, and the      *)
(* indicator id must have its display form.                                *)
IsRecord(r, c) == Snippet(c) # {} /\ IsListed(r, c) /\ c.doc \in r.linked /\ HasDisplay(c)

(* Rejected claims are left out; flagged and undecided ones are not.       *)
Exported(r) == Kept(r.claims, {c \in Range(r.claims) : r.status[c.id] # "rejected"})

WithCounts(rs) ==
  [provisions |-> rs, total |-> Len(rs),
   new |-> Cardinality({k \in DOMAIN rs : rs[k].tag = "NEW"}),
   known |-> Cardinality({k \in DOMAIN rs : rs[k].tag = "KNOWN"})]

(* Where there is no file, there is nothing to mistake for one.            *)
ASSUME FileAssumption ==
  /\ NoFile # Torn
  /\ \A r \in Runs : NoFile \notin Seq({RowOf(r, c) : c \in Range(r.claims)})

-----------------------------------------------------------------------------
(* write_submission is called with the final state.                        *)
BeginSubmission(r) ==
  /\ phase \in {"idle", "written", "failed"} /\ attempts < MaxAttempts
  /\ run' = r /\ phase' = "rows" /\ records' = <<>>
  /\ before' = <<csv, json>> /\ interrupted' = FALSE /\ attempts' = attempts + 1
  /\ UNCHANGED <<csv, json>>

(* Mutant: the CSV is opened before its rows are known to be right.        *)
BuildOpened ==
  /\ phase = "rows"
  /\ csv' = Torn
  /\ IF \A c \in Range(Exported(run)) : IsRecord(run, c)
       THEN records' = [k \in DOMAIN Exported(run) |-> RowOf(run, Exported(run)[k])] /\ phase' = "csv"
       ELSE phase' = "failed" /\ UNCHANGED records
  /\ UNCHANGED <<run, json, before, interrupted, attempts>>

(* build_provision_records: one row that is none, and no file is opened.   *)
BuildRecords ==
  /\ phase = "rows"
  /\ IF \A c \in Range(Exported(run)) : IsRecord(run, c)
       THEN records' = [k \in DOMAIN Exported(run) |-> RowOf(run, Exported(run)[k])] /\ phase' = "csv"
       ELSE phase' = "failed" /\ UNCHANGED records
  /\ UNCHANGED <<run, csv, json, before, interrupted, attempts>>

(* write_csv                                                               *)
WriteCsv ==
  /\ \/ phase = "csv" /\ csv' = Torn /\ phase' = "in_csv"
     \/ phase = "in_csv" /\ csv' = records /\ phase' = "json"
  /\ UNCHANGED <<run, records, json, before, interrupted, attempts>>

(* write_json, with the rows and their counts                              *)
WriteJson ==
  /\ \/ phase = "json" /\ json' = Torn /\ phase' = "in_json"
     \/ phase = "in_json" /\ json' = WithCounts(records) /\ phase' = "written"
  /\ UNCHANGED <<run, records, csv, before, interrupted, attempts>>

(* The process ends, or the disk is full.                                  *)
StopSubmission ==
  /\ phase \in {"rows", "csv", "in_csv", "json", "in_json"}
  /\ phase' = "failed"
  /\ interrupted' = (phase \in {"in_csv", "json", "in_json"})
  /\ UNCHANGED <<run, records, csv, json, before, attempts>>

SubmissionNext ==
  \/ \E r \in Runs : BeginSubmission(r)
  \/ BuildRecords \/ WriteCsv \/ WriteJson \/ StopSubmission

SubmissionSpec == SubmissionInit /\ [][SubmissionNext]_submissionVars

-----------------------------------------------------------------------------
(* Both files or neither: an attempt that fails on a row leaves what an    *)
(* earlier one wrote; the files of the last attempt differ only when it    *)
(* stopped between them; and what is written has a row for each claim that *)
(* is not rejected, in order, quotes the claim's clause and adds up        *)
(* (write_submission, build_provision_records).                            *)
SubmissionIsWhole ==
  /\ phase = "failed" /\ ~interrupted => <<csv, json>> = before
  /\ phase = "written" =>
       /\ json.provisions = csv
       /\ json.new + json.known = json.total /\ json.total = Len(csv)
       /\ \A c \in Range(run.claims) :
            c.id \in {w.claim : w \in Range(csv)} <=> run.status[c.id] # "rejected"
       /\ \A k, l \in DOMAIN csv : k < l =>
            \E i, j \in DOMAIN run.claims :
              i < j /\ run.claims[i].id = csv[k].claim /\ run.claims[j].id = csv[l].claim
       /\ \A w \in Range(csv) : w.snippet # {} /\ w.status # "rejected" /\
            \E c \in Range(run.claims) :
              c.id = w.claim /\ w.snippet \subseteq WordsOf(c.clause, 0, LengthOf[c.clause])
=============================================================================
