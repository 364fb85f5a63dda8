------------------------------- MODULE Notices ------------------------------
(***************************************************************************)
(* What a model is told and what a client is sent, for one margin call:    *)
(* the CSA terms are retrieved and extracted (csa_rag), a person approves, *)
(* and the notice is drafted around placeholders, on Slack or as the PDF   *)
(* of a WhatsApp template.  Every model call goes through GuardedLLM.      *)
(* Meanwhile the CSA is edited and re-ingested, counterparties are added   *)
(* and time passes.  A text is the set of things in it that some check     *)
(* looks for; a chunk is its section and the edition it was cut from.      *)
(***************************************************************************)
EXTENDS Integers, Sequences, SequencesExt

CONSTANTS
  Editions,   \* the CSA as edited over time: sections, and what its text carries
  Clauses,    \* the sections a PDF quotes
  Names,      \* legal names of counterparties
  KnownNames, \* those in the database from the start
  TTL,        \* how long DbPseudonymSource keeps its pairs
  SLA,
  MaxTime     \* bound

ASSUME NoticesAssumption ==
  /\ Editions # <<>> /\ Editions \in Seq(ToSet(Editions)) /\ KnownNames \subseteq Names
  /\ \A e \in DOMAIN Editions : Editions[e].sections \in Seq(ToSet(Editions[e].sections))
  /\ TTL \in Nat \ {0} /\ SLA \in Nat /\ MaxTime \in Nat \ {0}

VARIABLES
  now,
  edition,    \* the edition in the document store
  ingesting,  \* each ingestion run: the edition it read, 0 when idle
  chunks,     \* rag_chunks of this CSA, by position
  ingested,   \* the edition upserted last
  added,      \* when a name was added to the database
  pseudonyms, \* DbPseudonymSource._cache, and when its rows were read
  mode,       \* CLIENT_NOTIFIER and WHATSAPP_NOTICE_PDF
  call        \* the run, as far as its texts go

noticeVars == <<now, edition, ingesting, chunks, ingested, added, pseudonyms, mode, call>>

Channels == {"slack", "whatsapp", "pdf"}
Runs == 1..2
Never == MaxTime + 1
Account == {"account"}
Guards == {"modelarmor", "incode"}
\* What each guardrail finds in a prompt.
Finds == [modelarmor |-> {"flagged"}, incode |-> {"inject"}]
Allowed(channel) == IF channel = "pdf" THEN {"DEADLINE", "REFERENCE"} ELSE {"DEADLINE", "MTA"}
Required(channel) == IF channel = "pdf" THEN {"DEADLINE", "REFERENCE"} ELSE {"DEADLINE"}
Drafts == [used : SUBSET {"DEADLINE", "REFERENCE", "MTA"}, digits : BOOLEAN]
NoNotice == [used |-> {}, digits |-> FALSE, document |-> FALSE, deadline |-> 0]
Missing == [read |-> 0, at |-> 0, names |-> {}, stored |-> FALSE]
NoCall == [stage |-> "new", step |-> "none", text |-> {}, names |-> Missing, looked |-> 0, passed |-> {},
           grounds |-> {}, clauses |-> {}, sent_at |-> 0, notice |-> NoNotice, reported |-> "nothing",
           incident |-> [what |-> "none", at |-> 0]]

NoticesInit ==
  /\ now = 1
  /\ edition = 1
  /\ ingesting = [r \in Runs |-> 0]
  /\ chunks = <<>>
  /\ ingested = 0
  /\ added = [n \in Names |-> IF n \in KnownNames THEN 0 ELSE Never]
  /\ pseudonyms = Missing
  /\ mode \in Channels
  /\ call = NoCall

others == <<edition, ingesting, chunks, ingested, added, mode>>

TimePasses == now < MaxTime /\ now' = now + 1 /\ UNCHANGED <<others, pseudonyms, call>>

EditCsa ==
  /\ edition < Len(Editions) /\ edition' = edition + 1
  /\ UNCHANGED <<now, ingesting, chunks, ingested, added, pseudonyms, mode, call>>

AddName(n) ==
  /\ added[n] = Never /\ added' = [added EXCEPT ![n] = now]
  /\ UNCHANGED <<now, edition, ingesting, chunks, ingested, pseudonyms, mode, call>>

----------------------------------------------------------------------------
\* run_ingestion: the documents are read, embedded, then upserted at once.
ReadCorpus(r) ==
  /\ ingesting[r] = 0 /\ ingesting' = [ingesting EXCEPT ![r] = edition]
  /\ UNCHANGED <<now, edition, chunks, ingested, added, pseudonyms, mode, call>>

chunk_markdown(e) ==
  [i \in DOMAIN Editions[e].sections |-> [section |-> Editions[e].sections[i], of |-> e]]

\* ON CONFLICT DO NOTHING: what is stored stays.
upsert_Keeps(old, new) == old \o SubSeq(new, Len(old) + 1, Len(new))

\* A position the document no longer reaches keeps its chunk.
upsert(old, new) == new \o SubSeq(old, Len(new) + 1, Len(old))

Upsert(r) ==
  /\ ingesting[r] # 0 /\ ingesting' = [ingesting EXCEPT ![r] = 0]
  /\ chunks' = upsert(chunks, chunk_markdown(ingesting[r]))
  /\ ingested' = ingesting[r]
  /\ UNCHANGED <<now, edition, added, pseudonyms, mode, call>>

\* The embedder, the redactor or the database fails: nothing is written.
FailIngestion(r) ==
  /\ ingesting[r] # 0 /\ ingesting' = [ingesting EXCEPT ![r] = 0]
  /\ UNCHANGED <<now, edition, chunks, ingested, added, pseudonyms, mode, call>>

\* The chunks as retrieved: where each sits and what was upserted last.
Retrieved(sections) ==
  {[section |-> chunks[i].section, of |-> chunks[i].of, at |-> i, last |-> ingested]
     : i \in {j \in DOMAIN chunks : chunks[j].section \in sections}}

AllSections == {c.section : c \in ToSet(chunks)}

\* ingest masks account data before it is stored.
TextOf(retrieved) == UNION {Editions[c.of].carries : c \in retrieved} \ Account

----------------------------------------------------------------------------
\* Which exceptions send_notification turns into a failed notice.
Turned(kind) == mode = "pdf" /\ kind \in {"guardrail", "drafting"}

Rests(stage) == [call EXCEPT !.stage = stage, !.step = "none", !.text = {}, !.names = Missing,
                                    !.looked = 0, !.passed = {}]

Failed == [Rests("failed") EXCEPT !.notice = NoNotice]

\* An exception: terms are asked for again by a later run of the node; a
\* notice is recorded as failed, or its node runs again when resumed.
Raised(kind) ==
  IF call.stage = "terms" THEN NoCall
  ELSE IF Turned(kind) THEN Failed
  ELSE [Rests("approved") EXCEPT !.sent_at = 0, !.clauses = {}, !.notice = NoNotice]

Raise(kind) == call' = Raised(kind) /\ UNCHANGED <<now, others, pseudonyms>>

\* answer_csa_terms up to the model call: none retrieved raises.
RetrieveTerms ==
  /\ call.stage = "new" /\ chunks # <<>>
  /\ LET grounds == Retrieved(AllSections) IN
     call' = [call EXCEPT !.stage = "terms", !.step = "filter", !.grounds = grounds,
                          !.text = TextOf(grounds)]
  /\ UNCHANGED <<now, others, pseudonyms>>

\* DataClassFilter.redact: a denied value, or a prompt too large.
BlockPrompt ==
  /\ call.step = "filter" /\ "denied" \in call.text
  /\ Raise("guardrail")

PairsHeld_Forever == pseudonyms.stored

PairsHeld == pseudonyms.stored /\ now - pseudonyms.at < TTL

UsePseudonyms ==
  /\ call.step = "filter" /\ "denied" \notin call.text
  /\ PairsHeld
  /\ call' = [call EXCEPT !.step = "mask", !.names = pseudonyms, !.looked = now]
  /\ UNCHANGED <<now, others, pseudonyms>>

ReadPseudonyms ==
  /\ call.step = "filter" /\ "denied" \notin call.text
  /\ ~PairsHeld
  /\ call' = [call EXCEPT !.step = "keep", !.names =
       [Missing EXCEPT !.names = {n \in Names : added[n] <= now}, !.read = now]]
  /\ UNCHANGED <<now, others, pseudonyms>>

\* The pairs count as young from here.
KeepPseudonyms ==
  /\ call.step = "keep"
  /\ pseudonyms' = [call.names EXCEPT !.at = now, !.stored = TRUE]
  /\ call' = [call EXCEPT !.step = "mask", !.names = pseudonyms', !.looked = now]
  /\ UNCHANGED <<now, others>>

\* The pairs cannot be loaded: closed.
FailPseudonyms == call.step = "filter" /\ "denied" \notin call.text /\ ~PairsHeld /\ Raise("guardrail")

\* Names out, then account data.
MaskPrompt ==
  /\ call.step = "mask"
  /\ call' = [call EXCEPT !.step = "screen", !.text = @ \ (call.names.names \cup Account)]
  /\ UNCHANGED <<now, others, pseudonyms>>

\* Sensitive Data Protection fails: no guardrail error.
FailRedactor == call.step = "mask" /\ Raise("other")

----------------------------------------------------------------------------

\* CompositeGuardrail: the guardrails that answered and allow the text.
Screen(text, answered) == {g \in answered : Finds[g] \cap text = {}}

ScreenPrompt(answered) ==
  /\ call.step = "screen"
  /\ IF Screen(call.text, answered) = Guards
     THEN /\ call' = [call EXCEPT !.step = "answer", !.passed =
                          {g \in answered : Finds[g] \cap call.text = {}}]
          /\ UNCHANGED <<now, others, pseudonyms>>
     ELSE Raise("guardrail")

\* The model cannot be reached.
FailModel == call.step = "answer" /\ Raise("other")

\* The answer is screened too; Model Armor may find something in it.
BlockAnswer == call.step = "answer" /\ Raise("guardrail")

NoTerms == call.stage = "terms" /\ call.step = "answer" /\ Raise("other")

ExtractTerms ==
  /\ call.stage = "terms" /\ call.step = "answer"
  /\ call' = Rests("priced")
  /\ UNCHANGED <<now, others, pseudonyms>>

Approve ==
  /\ call.stage = "priced" /\ call' = Rests("approved")
  /\ UNCHANGED <<now, others, pseudonyms>>

----------------------------------------------------------------------------
\* send_notification: the send time is fixed first.
StartNotice ==
  /\ call.stage = "approved"
  /\ call' = [call EXCEPT !.sent_at = now,
                !.stage = CASE mode = "slack" -> "draft" [] mode = "pdf" -> "clauses" [] OTHER -> "send",
                !.step = IF mode = "slack" THEN "filter" ELSE "none",
                !.notice = [NoNotice EXCEPT !.deadline = now + SLA]]
  /\ UNCHANGED <<now, others, pseudonyms>>

\* csa_extra_clauses: of two chunks of a section, the nearer one.
RetrieveClauses ==
  /\ call.stage = "clauses"
  /\ \E found \in SUBSET Retrieved(Clauses) :
       /\ \A s \in Clauses \cap AllSections : \E c \in found : c.section = s
       /\ \A c, d \in found : c.section = d.section => c = d
       /\ call' = [call EXCEPT !.stage = "draft", !.step = "filter", !.clauses = found]
  /\ UNCHANGED <<now, others, pseudonyms>>

FailRetrieval == call.stage = "clauses" /\ Raise("drafting")

\* Any digit is let through.
Usable_Digits(draft) == Required(mode) \subseteq draft.used /\ draft.used \subseteq Allowed(mode)

\* _validate_draft finds no problem.
Usable(draft) ==
  /\ draft.used \subseteq Allowed(mode)
  /\ Required(mode) \subseteq draft.used
  /\ ~draft.digits

Filled(draft) ==
  [call.notice EXCEPT !.used = draft.used, !.digits = draft.digits, !.document = (mode = "pdf")]

Draft(draft) ==
  /\ call.stage \in {"draft", "redraft"} /\ call.step = "answer"
  /\ IF Usable(draft)
     THEN call' = [Rests("send") EXCEPT !.notice = Filled(draft)] /\ UNCHANGED <<now, others, pseudonyms>>
     ELSE IF call.stage = "draft"
     THEN call' = [call EXCEPT !.stage = "redraft", !.step = "filter", !.text = {}, !.passed = {}]
          /\ UNCHANGED <<now, others, pseudonyms>>
     ELSE Raise("drafting")

SentAt == call.sent_at

Send ==
  /\ call.stage = "send"
  /\ call' = [Rests("sent") EXCEPT !.sent_at = SentAt]
  /\ UNCHANGED <<now, others, pseudonyms>>

\* Slack raises; a WhatsApp failure is recorded on the run.
FailSend ==
  /\ call.stage = "send"
  /\ IF mode = "slack" THEN Raise("other")
     ELSE call' = Failed /\ UNCHANGED <<now, others, pseudonyms>>

\* The timer checks: the deadline must have passed.
Overdue ==
  /\ call.stage = "sent" /\ now >= call.sent_at + SLA
  /\ call' = Rests("overdue")
  /\ UNCHANGED <<now, others, pseudonyms>>

\* WhatsApp reports the notice it took as failed, before its gate resolved.
ReportFailed ==
  /\ call.stage = "sent" /\ mode # "slack"
  /\ call' = [Rests("returned") EXCEPT !.reported = "failed"]
  /\ UNCHANGED <<now, others, pseudonyms>>

\* The run holds a delivery failure: its notice never left, or came back.
delivery_failure == call.stage \in {"failed", "returned"}

\* escalate: the incident says that the notice was not delivered, or that the
\* deadline was missed.  ServiceNow or the retrieval failing opens none: stutter.
Escalate ==
  /\ delivery_failure \/ call.stage = "overdue"
  /\ call' = [Rests("escalated") EXCEPT
                !.incident = [what |-> IF delivery_failure THEN "undelivered" ELSE "missed", at |-> now]]
  /\ UNCHANGED <<now, others, pseudonyms>>

CsaNext ==
  \/ EditCsa
  \/ \E r \in Runs : ReadCorpus(r) \/ Upsert(r) \/ FailIngestion(r)

PromptNext ==
  \/ BlockPrompt \/ UsePseudonyms \/ ReadPseudonyms \/ KeepPseudonyms \/ FailPseudonyms
  \/ MaskPrompt \/ FailRedactor
  \/ \E answered \in SUBSET Guards : ScreenPrompt(answered)
  \/ FailModel \/ BlockAnswer

NoticeNext ==
  \/ RetrieveTerms \/ NoTerms \/ ExtractTerms \/ Approve
  \/ StartNotice \/ RetrieveClauses \/ FailRetrieval
  \/ \E draft \in Drafts : Draft(draft)
  \/ Send \/ FailSend \/ Overdue \/ ReportFailed \/ Escalate

NoticesNext == TimePasses \/ (\E n \in Names : AddName(n)) \/ CsaNext \/ PromptNext \/ NoticeNext

----------------------------------------------------------------------------
\* A run is inside a model call exactly while it extracts or drafts; what it
\* read, masked and sent is what exists.
NoticesTypeOK ==
  /\ now \in 1..MaxTime /\ edition \in DOMAIN Editions /\ ingested \in 0..edition
  /\ \A r \in Runs : ingesting[r] \in 0..edition
  /\ pseudonyms.read <= pseudonyms.at /\ pseudonyms.at <= now
  /\ call.step # "none" <=> call.stage \in {"terms", "draft", "redraft"}
  /\ call.sent_at <= now /\ call.names.names \subseteq Names
  /\ call.clauses = {} \/ mode = "pdf"

\* What the model is told was masked and passed every guardrail: no outage,
\* cached pair or retry lets account data, a denied value or a text that a
\* guardrail finds reach it (guarded_llm.py, composite_guardrail.py).
OnlyScreenedIsTold ==
  call.step = "answer" =>
    /\ call.passed = Guards
    /\ call.text \cap (Account \cup {"denied"} \cup Finds.modelarmor \cup Finds.incode) = {}

\* A legal name reaches the model only when it was added after the pairs in
\* use were read, and those were younger than the TTL (classification.py).
NamesAreMasked ==
  call.step = "answer" =>
    \A n \in call.text \cap Names :
      /\ added[n] >= call.names.read
      /\ call.looked - call.names.at < TTL

\* Whatever fails, is retried or resumed, a notice that left says all it must,
\* nothing it may not, no figure of the model's, and has its PDF exactly when
\* one is due: never the plain template instead (notice_pdf.py, ADR-0016).
SentIsWhole ==
  call.stage = "sent" =>
    /\ call.notice.document <=> mode = "pdf"
    /\ ~call.notice.digits
    /\ mode # "whatsapp" => /\ Required(mode) \subseteq call.notice.used
                            /\ call.notice.used \subseteq Allowed(mode)

\* The deadline a notice quotes is the one its timer enforces, however long
\* drafting took and however often the node ran.  An incident says it was
\* missed only once that deadline passed, for a notice that left and that
\* WhatsApp had not reported failed; and that the notice was not delivered
\* only of one that never left or that WhatsApp did report (orchestrator.py,
\* MM-125; escalation.py, MM-118).
DeadlineIsEnforced ==
  /\ call.stage = "sent" => call.notice.deadline = call.sent_at + SLA
  /\ call.incident.what = "missed" =>
       call.notice # NoNotice /\ call.incident.at >= call.notice.deadline /\ call.reported = "nothing"
  /\ call.incident.what = "undelivered" => call.notice = NoNotice \/ call.reported = "failed"

\* What a run's terms and clauses are taken from is the edition ingested last
\* when they were retrieved, whatever ingestions overlapped; except a chunk
\* at a position that edition no longer reaches (ingest.py, csa_rag.py).
GroundedOnFile ==
  \A c \in call.grounds \cup call.clauses :
    c.of = c.last \/ c.at > Len(Editions[c.last].sections)

\* Nothing reaches the model that masking and screening should have held back.
ToldIsScreened == NoticesTypeOK /\ OnlyScreenedIsTold /\ NamesAreMasked

\* A notice that left is whole, its deadline the one enforced, its grounds on
\* file.
NoticeIsTrue == SentIsWhole /\ DeadlineIsEnforced /\ GroundedOnFile
=============================================================================
