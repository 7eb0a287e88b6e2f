----------------------------- MODULE ModelLists -----------------------------
(***************************************************************************)
(* Asking a service for its models.  A compatible service is asked at the  *)
(* addresses its base suggests, one after the other; Anthropic page by     *)
(* page, each page naming where the next begins; Ollama once; the servers  *)
(* that have no models are only asked whether they are there.              *)
(***************************************************************************)
EXTENDS Naturals, FiniteSets

CONSTANTS
    Ids, Cursors,   \* models and places in a list
    Candidates,     \* addresses a base suggests, at most
    MaxPages        \* pages asked for, at most

VARIABLES
    kind,
    bases,          \* addresses the base suggests
    at,             \* the address or page being asked for
    seen, models,   \* cursors and models so far
    outcome,
    served          \* what the service said, page by page

vars == <<kind, bases, at, seen, models, outcome, served>>

Kinds == {"compatible", "anthropic", "ollama", "health"}
None == [kind |-> "none"]
Error(why) == [kind |-> "error", why |-> why]
List(ids) == [kind |-> "list", ids |-> ids]

\* A page: its status, whether its body is a list, its models, whether it says
\* that there are more, and where they begin.
Pages == [status : {"ok", "denied", "missing", "other"}, list : BOOLEAN,
          ids : SUBSET Ids, more : BOOLEAN, last : Cursors \cup {"nowhere"}]

Init ==
    /\ kind \in Kinds /\ bases \in 0 .. Candidates
    /\ at = 0 /\ seen = {} /\ models = {}
    /\ outcome = None /\ served = {}

Asking == outcome = None

\* A failed exchange, or the time for the whole traversal being over.
Fail ==
    /\ Asking
    /\ outcome' = Error("network")
    /\ UNCHANGED <<kind, bases, at, seen, models, served>>

\* interpret_models_response
Interpret(page) ==
    IF page.status = "ok" THEN (IF page.list THEN "success" ELSE "fail")
    ELSE IF page.status = "missing" THEN "next" ELSE "fail"

\* fetch_models_with_candidates: only an address that is not there leads to
\* the next one.
Candidate ==
    /\ kind = "compatible" /\ Asking /\ at < bases
    /\ \E page \in Pages :
           LET is == Interpret(page)
           IN  /\ served' = served \cup {page}
               /\ IF is = "next" /\ at + 1 < bases
                  THEN at' = at + 1 /\ UNCHANGED outcome
                  ELSE /\ UNCHANGED at
                       /\ outcome' = IF is = "success" THEN List(page.ids)
                                     ELSE IF page.status = "denied" THEN Error("auth")
                                     ELSE Error("network")
    /\ UNCHANGED <<kind, bases, seen, models>>

\* A base that suggests no address is asked nothing.
NoCandidate ==
    /\ kind = "compatible" /\ Asking /\ bases = 0
    /\ outcome' = Error("no address")
    /\ UNCHANGED <<kind, bases, at, seen, models, served>>

\* Mutant: a list that names no next page is over.
EndsNowhere(page) ==
    IF Interpret(page) # "success" THEN Error("network")
    ELSE IF ~page.more \/ page.last = "nowhere" THEN List(models \cup page.ids)
    ELSE IF page.last \in seen \/ at + 1 = MaxPages THEN Error("network")
    ELSE None

\* Where a page leaves the traversal.
Ends(page) ==
    IF Interpret(page) # "success" THEN Error("network")
    ELSE IF ~page.more THEN List(models \cup page.ids)
    ELSE IF page.last \in seen \cup {"nowhere"} \/ at + 1 = MaxPages THEN Error("network")
    ELSE None

\* Anthropic's list_models, one page.
Page ==
    /\ kind = "anthropic" /\ Asking
    /\ \E page \in Pages :
           /\ served' = served \cup {page}
           /\ outcome' = Ends(page)
           /\ models' = IF Interpret(page) = "success" THEN models \cup page.ids ELSE models
           /\ seen' = IF outcome' = None THEN seen \cup {page.last} ELSE seen
           /\ at' = IF outcome' = None THEN at + 1 ELSE at
    /\ UNCHANGED <<kind, bases>>

\* Ollama's list_models.
Tags ==
    /\ kind = "ollama" /\ Asking
    /\ \E page \in Pages :
           /\ served' = served \cup {page}
           /\ outcome' = IF page.status # "ok" THEN Error("network")
                         ELSE IF page.list THEN List(page.ids) ELSE Error("serialization")
    /\ UNCHANGED <<kind, bases, at, seen, models>>

\* LibreTranslate's languages and MTranServer's health: a good status and no
\* model.
Health ==
    /\ kind = "health" /\ Asking
    /\ \E page \in Pages :
           /\ served' = served \cup {page}
           /\ outcome' = IF page.status = "ok" THEN List({}) ELSE Error("network")
    /\ UNCHANGED <<kind, bases, at, seen, models>>

Next == Fail \/ Candidate \/ NoCandidate \/ Page \/ Tags \/ Health

Spec == Init /\ [][Next]_vars

-----------------------------------------------------------------------------
TypeOK ==
    /\ kind \in Kinds /\ bases \in 0 .. Candidates /\ at \in Nat
    /\ seen \subseteq Cursors /\ models \subseteq Ids
    /\ served \subseteq Pages

\* A list is whole: no page that was served was refused, all their models are
\* in it and no other, and one of them said it was the last; and no traversal
\* asks for more than its bound of pages.
WholeList ==
    /\ outcome.kind = "list" /\ kind = "anthropic" =>
           /\ \A page \in served : page.status = "ok" /\ page.list
           /\ outcome.ids = UNION {page.ids : page \in served}
           /\ \E page \in served : ~page.more
    /\ outcome.kind = "list" /\ kind = "compatible" =>
           \E page \in served : /\ page.status = "ok" /\ page.list /\ page.ids = outcome.ids
                                /\ \A p \in served \ {page} : p.status = "missing"
    /\ at < MaxPages \/ kind # "anthropic"
=============================================================================
