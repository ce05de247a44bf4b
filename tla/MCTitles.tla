------------------------------ MODULE MCTitles ------------------------------
(***************************************************************************)
(* What a title job passes on its way to the engine, how it scores titles, *)
(* the rows it compares, and how fingerprints are compared: TLC explores   *)
(* one of them in each behaviour.                                          *)
(***************************************************************************)
EXTENDS MCTitleSimilar, Gates, TitleScore, Fingerprint, TLC

VARIABLE part   (* "gates", "score", "similar" or "prints"                  *)

titleVars == <<part, vars, gateVars, alignVars, printVars>>

CONSTANTS u1, f1, x1, h1, j1, p, q, r, w1

\* One call of each kind, and one that is another form or another title job;
\* two workers, and one slot of everything else.
Calls == (u1 :> {"upload"}) @@ (f1 :> {"suggest"}) @@ (h1 :> {"hash"})
           @@ (j1 :> {"title"}) @@ (x1 :> {"suggest", "title"})
OneSlot == [g \in Gate |-> IF g = "workers" THEN 2 ELSE 1]

\* Three words: q is spelt like p and like r.
Spelling ==
  [v \in Word \X Word |->
     CASE v[1] = v[2] -> 100 [] {v[1], v[2]} = {p, q} -> 85
       [] {v[1], v[2]} = {q, r} -> 90 [] OTHER -> 40]

\* Bits at both ends of the bands: texts one or two bits apart, images that
\* differ within a band, across two, or have the hash zero.
TextHash == [brief |-> {0, 16}, letter |-> {16}, report |-> {0, 16, 63}]
ImageHashes == {{}, {0}, {0, 15}, {15, 16, 63}}

NoPrint == CHOOSE f \in PlainPrint : TRUE

TitlesInit ==
  /\ part \in {"gates", "score", "similar", "prints"}
  /\ Init /\ GatesInit /\ AlignInit /\ FingerprintInit
  /\ part = "gates" \/ kind[x1] = "title"
  /\ part # "score" => left = <<p>> /\ right = <<p>>
  /\ part # "prints" => fresh = NoPrint /\ stored = NoPrint

TitlesNext ==
  /\ \/ /\ part = "similar" /\ Next
        /\ UNCHANGED <<gateVars, alignVars, printVars>>
     \/ /\ part = "gates" /\ GatesNext
        /\ UNCHANGED <<vars, alignVars, printVars>>
     \/ /\ part = "score" /\ AlignNext
        /\ UNCHANGED <<vars, gateVars, printVars>>
     \/ /\ part = "prints" /\ FingerprintNext
        /\ UNCHANGED <<vars, gateVars, alignVars>>
  /\ UNCHANGED part

\* The fairness of each, for the one that runs: TLC has few formulas to keep.
Goes(c) ==
  \/ /\ part = "gates" /\ CallGoes(c)
     /\ UNCHANGED <<part, kind, vars, alignVars, printVars>>
  \/ /\ part = "similar" /\ c = u1
     /\ List(w1) \/ Peers(w1) \/ Replace(w1)
     /\ UNCHANGED <<part, gateVars, alignVars, printVars>>

GetsWorker(s) ==
  /\ part = "similar" /\ Swept(w1, s)
  /\ UNCHANGED <<part, gateVars, alignVars, printVars>>

TitlesSpec ==
  /\ TitlesInit /\ [][TitlesNext]_titleVars
  /\ \A c \in Call : WF_titleVars(Goes(c))
  /\ \A s \in Source : SF_titleVars(GetsWorker(s))
=============================================================================
