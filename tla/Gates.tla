------------------------------- MODULE Gates --------------------------------
(***************************************************************************)
(* The gates one process puts before its scarce resources, and the calls   *)
(* that pass them: uploads (httpapi), put and heavy and titles (Service),  *)
(* sem and fast (engine.Client), and the workers of the pool, which are a  *)
(* gate for the jobs in its queue.  A gate is a buffered channel: who      *)
(* blocks on it is served first come, first served.  So a gate is a line   *)
(* of calls, and the first Slots of them are inside.                       *)
(*                                                                         *)
(* Time is left out: a timer may fire at any moment and nothing relies on  *)
(* one.  The queue of the pool is long enough here; Pipeline bounds it.    *)
(***************************************************************************)
EXTENDS Integers, Sequences, FiniteSets, SequencesExt

CONSTANTS
  Call,      (* requests and jobs; each may come again and again            *)
  KindsOf,   (* what each call may be, [Call -> SUBSET Kind]                *)
  Slots,     (* [Gate -> Nat], the capacity of each channel                 *)
  Attempts   (* round trips of one engine call; 4 in the code               *)

Gate == {"uploads", "put", "heavy", "workers", "titles", "sem", "fast"}
Kind == {"upload", "suggest", "hash", "title"}

ASSUME GatesAssumption ==
  /\ KindsOf \in [Call -> SUBSET Kind] /\ Slots \in [Gate -> Nat \ {0}]
  /\ Attempts \in Nat \ {0}
  \* cfg.TitleConcurrency is the limit of both.
  /\ Slots["titles"] = Slots["sem"]

VARIABLES
  line,      (* of each gate: who is inside it and, behind them, who waits  *)
  kind,      (* of each call, which it keeps                                *)
  at,        (* the gate or the step each call is at                        *)
  tries,     (* round trips this engine call has made before                *)
  fastLive   (* Client.fastLive                                             *)

gateVars == <<line, kind, at, tries, fastLive>>

\* "payload": the file is copied; "yield": before sem; "turn": the yield of
\* an attempt; "trip": the engine is asked, and the pause after an error;
\* "result": what was read, put or answered is stored.
Step == {"idle", "payload", "yield", "turn", "trip", "result"}

Of(k) == {c \in Call : kind[c] = k}

\* Is c inside gate g, that is, was it sent to the channel?
Inside(c, g) == \E i \in 1 .. Len(line[g]) : i <= Slots[g] /\ line[g][i] = c
Waits(c) == at[c] \in Gate /\ ~Inside(c, at[c])

GatesInit ==
  /\ line = [g \in Gate |-> <<>>]
  /\ kind \in {k \in [Call -> Kind] : \A c \in Call : k[c] \in KindsOf[c]}
  /\ at = [c \in Call |-> "idle"]
  /\ tries = [c \in Call |-> 0]
  /\ fastLive = 0

(***************************************************************************)
(* A call comes to a gate, or goes back through the ones it leaves.        *)
(***************************************************************************)
Acquire(c, g) ==
  /\ line' = [line EXCEPT ![g] = Append(@, c)]
  /\ at' = [at EXCEPT ![c] = g]

Without(s, c) ==
  IF c \in ToSet(s) THEN RemoveAt(s, CHOOSE i \in DOMAIN s : s[i] = c) ELSE s

Release(c, G) == line' = [g \in Gate |-> IF g \in G THEN Without(line[g], c) ELSE line[g]]

Return(c, G) ==
  /\ Release(c, G)
  /\ at' = [at EXCEPT ![c] = "idle"]

StepTo(c, step) == at' = [at EXCEPT ![c] = step] /\ UNCHANGED line

Engineless == UNCHANGED <<tries, fastLive>>

(***************************************************************************)
(* createDocument and addSources read the request with an upload slot held *)
(* and put its files, insert the rows and queue their jobs; inspectFile    *)
(* spools its file and analyses it.                                        *)
(***************************************************************************)
UploadArrives(c) ==
  kind[c] = "upload" /\ at[c] = "idle" /\ Acquire(c, "uploads") /\ Engineless

\* The request is refused, or it goes on.
UploadReads(c) ==
  /\ at[c] = "uploads" /\ Inside(c, "uploads")
  /\ Return(c, {"uploads"}) \/ Acquire(c, "put") \/ Acquire(c, "heavy")
  /\ Engineless

FilesPut(c) ==
  /\ at[c] = "put" /\ Inside(c, "put")
  /\ Release(c, {"put"})
  /\ at' = [at EXCEPT ![c] = "result"]
  /\ Engineless

\* The INSERT fails, or the jobs are queued.  The comparison of a printed title
\* is submitted on the context of the pool and waits for room in its queue,
\* with the upload slot in hand.
UploadStored(c) ==
  /\ kind[c] = "upload" /\ at[c] = "result"
  /\ Return(c, {"uploads"}) /\ Engineless

FileInspected(c) ==
  /\ kind[c] = "upload" /\ at[c] = "heavy" /\ Inside(c, "heavy")
  /\ Return(c, {"heavy", "uploads"}) /\ Engineless

(***************************************************************************)
(* hashSource, a job of the pool.                                          *)
(***************************************************************************)
HashQueued(c) ==
  kind[c] = "hash" /\ at[c] = "idle" /\ Acquire(c, "workers") /\ Engineless

\* The row has its hash, is gone, or the file is: no analysis.
HashFetches(c) ==
  /\ kind[c] = "hash" /\ at[c] = "workers" /\ Inside(c, "workers")
  /\ Return(c, {"workers"}) \/ Acquire(c, "heavy")
  /\ Engineless

HashAnalyzes(c) ==
  /\ kind[c] = "hash" /\ at[c] = "heavy" /\ Inside(c, "heavy")
  /\ Release(c, {"heavy"})
  /\ at' = [at EXCEPT ![c] = "result"]
  /\ Engineless

\* The result is published, or an error makes the job run again.
HashPublishes(c) ==
  /\ kind[c] = "hash" /\ at[c] = "result"
  /\ Return(c, {"workers"}) \/ Acquire(c, "heavy")
  /\ Engineless

(***************************************************************************)
(* engine.Client.title for the form (SuggestTitle) and for title jobs.     *)
(***************************************************************************)
SuggestArrives(c) ==
  /\ kind[c] = "suggest" /\ at[c] = "idle"
  /\ fastLive' = fastLive + 1
  /\ StepTo(c, "payload") /\ UNCHANGED tries

SuggestEnds(c, G) == Return(c, G) /\ fastLive' = fastLive - 1

\* Fault: the form waits where title jobs wait.
SuggestQueues(c) ==
  /\ kind[c] = "suggest" /\ at[c] = "payload"
  /\ Acquire(c, "sem") /\ Engineless

SuggestReads(c) ==
  /\ kind[c] = "suggest" /\ at[c] = "payload"
  /\ \/ SuggestEnds(c, {})
     \/ Acquire(c, "fast") /\ UNCHANGED fastLive
  /\ UNCHANGED tries

TitleQueued(c) ==
  kind[c] = "title" /\ at[c] = "idle" /\ Acquire(c, "workers") /\ Engineless

TitleFetches(c) ==
  /\ kind[c] = "title" /\ at[c] = "workers" /\ Inside(c, "workers")
  /\ Return(c, {"workers"}) \/ Acquire(c, "titles")
  /\ Engineless

\* Fault: the slot of Limits.Title is for copying the file only.
TitleReadsBriefly(c) ==
  /\ at[c] = "titles" /\ Inside(c, "titles")
  /\ Release(c, {"titles"}) /\ at' = [at EXCEPT ![c] = "yield"]
  /\ Engineless

\* Under retry.Do: the title is settled or the file gone, or it is copied.
TitleReads(c) ==
  /\ at[c] = "titles" /\ Inside(c, "titles")
  /\ Return(c, {"titles", "workers"}) \/ StepTo(c, "yield")
  /\ Engineless

Yield(c) ==
  /\ at[c] = "yield" /\ fastLive = 0
  /\ Acquire(c, "sem") /\ Engineless

Admitted(c) ==
  /\ at[c] \in {"sem", "fast"} /\ Inside(c, at[c])
  /\ StepTo(c, IF at[c] = "fast" THEN "trip" ELSE "turn") /\ Engineless

YieldTurn(c) == at[c] = "turn" /\ fastLive = 0 /\ StepTo(c, "trip") /\ Engineless

EngineEnds(c) ==
  /\ tries' = [tries EXCEPT ![c] = 0]
  /\ IF kind[c] = "suggest" THEN SuggestEnds(c, {"fast"})
     ELSE /\ Release(c, {"sem"})
          /\ at' = [at EXCEPT ![c] = "result"]
          /\ UNCHANGED fastLive

\* roundTrip has an answer, or an error that no other attempt would help.
Answered(c) == at[c] = "trip" /\ EngineEnds(c)

\* One that is worth a pause and another attempt, if there is one left.
Unanswered(c) ==
  /\ at[c] = "trip"
  /\ IF tries[c] + 1 < Attempts
     THEN /\ tries' = [tries EXCEPT ![c] = @ + 1]
          /\ StepTo(c, IF kind[c] = "suggest" THEN "trip" ELSE "turn")
          /\ UNCHANGED fastLive
     ELSE EngineEnds(c)

\* The title is stored or deferred, or retry.Do tries once more.
TitleStored(c) ==
  /\ kind[c] = "title" /\ at[c] = "result"
  /\ Return(c, {"titles", "workers"}) \/ StepTo(c, "yield")
  /\ Engineless

(***************************************************************************)
(* The context of a call is over: the client is gone, the 120 seconds of a *)
(* request, or the four minutes the pool gives a job.                      *)
(***************************************************************************)
\* Fault: a request that gives up in the second line stays in the first.
RequestGone(c) ==
  /\ kind[c] = "upload" /\ Waits(c)
  /\ Return(c, {at[c]})
  /\ Engineless

RequestOver(c) ==
  /\ kind[c] = "upload" /\ Waits(c)
  /\ Return(c, IF at[c] = "uploads" THEN {"uploads"} ELSE {at[c], "uploads"})
  /\ Engineless

SuggestOver(c) ==
  /\ kind[c] = "suggest"
  /\ Waits(c) \/ at[c] = "trip"
  /\ SuggestEnds(c, {"fast"})
  /\ tries' = [tries EXCEPT ![c] = 0]

HashOver(c) ==
  /\ kind[c] = "hash" /\ at[c] = "heavy" /\ Waits(c)
  /\ Return(c, {"heavy", "workers"}) /\ Engineless

TitleOver(c) ==
  /\ kind[c] = "title"
  /\ \/ at[c] \in {"titles", "sem"} /\ Waits(c)
     \/ at[c] \in {"yield", "turn", "trip"}
  /\ Return(c, {"sem", "titles", "workers"})
  /\ tries' = [tries EXCEPT ![c] = 0] /\ UNCHANGED fastLive

Over(c) == RequestOver(c) \/ SuggestOver(c) \/ HashOver(c) \/ TitleOver(c)

Enters(c) == UploadArrives(c) \/ SuggestArrives(c) \/ HashQueued(c) \/ TitleQueued(c)

Upload(c)  == UploadReads(c) \/ FilesPut(c) \/ UploadStored(c) \/ FileInspected(c)
Hash(c)    == HashFetches(c) \/ HashAnalyzes(c) \/ HashPublishes(c)
Attempt(c) == Admitted(c) \/ Answered(c) \/ Unanswered(c)
Title(c)   == TitleFetches(c) \/ TitleReads(c) \/ Yield(c) \/ YieldTurn(c) \/ TitleStored(c)

GatesNext ==
  /\ \E c \in Call : \/ Enters(c) \/ Over(c) \/ Upload(c) \/ Hash(c)
                     \/ SuggestReads(c) \/ Attempt(c) \/ Title(c)
  /\ UNCHANGED kind

\* Requests and fingerprints go on while their steps can be taken.  No timer
\* has to fire, no job that asks the engine has to go on, and the queue of the
\* pool need not have room again.
CallGoes(c) == \/ Upload(c) /\ at[c] # "result"
               \/ Hash(c) \/ SuggestReads(c)
               \/ kind[c] = "suggest" /\ Attempt(c)

GatesFairness == \A c \in Call : WF_gateVars(CallGoes(c) /\ UNCHANGED kind)

GatesSpec == GatesInit /\ [][GatesNext]_gateVars /\ GatesFairness

(***************************************************************************)
(* Properties.                                                             *)
(***************************************************************************)
\* The gates that a call is inside or waits for, by where it is.
Through(c) ==
  IF at[c] \in {"idle", "payload"} THEN {} ELSE
  CASE kind[c] = "upload" -> {"uploads"} \cup ({at[c]} \cap Gate)
    [] kind[c] = "suggest" -> {"fast"}
    [] kind[c] = "hash" -> {"workers"} \cup ({at[c]} \cap Gate)
    [] OTHER -> {"workers"} \cup
                (IF at[c] \in {"workers"} THEN {} ELSE {"titles"}) \cup
                (IF at[c] \in {"sem", "turn", "trip"} THEN {"sem"} ELSE {})

GatesTypeOK ==
  /\ line \in [Gate -> Seq(Call)]
  /\ at \in [Call -> Gate \cup Step] /\ kind \in [Call -> Kind]
  /\ tries \in [Call -> 0 .. Attempts - 1]
  /\ fastLive \in Int

\* Every way out of a call (an answer, an error, a request that is refused, a
\* context that is over) gives back each slot the call took, and no other: a
\* call that came back holds nothing, and fastLive counts the forms under way.
GatesExact ==
  /\ \A g \in Gate : /\ IsInjective(line[g])
                     /\ ToSet(line[g]) = {c \in Call : g \in Through(c)}
  /\ fastLive = Cardinality({c \in Of("suggest") : at[c] # "idle"})

\* A title job that has its slot of Limits.Title is never kept waiting by the
\* engine client, whose limit is the same number: the wait is in one place.
TitleSlotSuffices == \A c \in Call : at[c] = "sem" => Inside(c, "sem")

\* client.go:123, "the form path: it never waits on background title workers",
\* and service.go:1241, "a slow engine cannot block fingerprinting": a form
\* ends, and a request that has an upload slot gets its file analysed or its
\* files put, although no title job takes another step and no timer fires.
\* With its files put an upload may well wait for title jobs (UploadStored).
ForegroundEnds ==
  \A c \in Call :
    /\ kind[c] = "suggest" => (at[c] # "idle" ~> at[c] = "idle")
    /\ kind[c] = "upload" => (Inside(c, "uploads") ~> at[c] \in {"idle", "result"})
=============================================================================
