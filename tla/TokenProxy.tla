------------------------------ MODULE TokenProxy ------------------------------
(***************************************************************************)
(* The relay between a memory system and its model: token_proxy.py.  It    *)
(* writes two events of each request to an audit, one when it takes the    *)
(* request and one before the client can know that the answer is complete. *)
(* Writing an event never fails a request.                                 *)
(***************************************************************************)
EXTENDS Integers, Sequences, FiniteSets

CONSTANTS
    Runs,       \* the runs that want to import the audit
    NoRun,      \* no run
    Prompts,    \* requests of the memory system to its model
    MaxTrouble, \* bound on failures, kills and restarts, for each source
    Missing     \* usage that is not known

Call(kind, x, i) == <<kind, x, i>>  \* a call of a model, and its tokens
RequestCall(q) == Call("proxy", q, 0)

VARIABLES
    source, \* where the evidence comes from: agent, task, counter, proxy
    faults,
    audit,  \* [id, owner, log]: proxy_id, run-owner.json and requests.jsonl
    post,   \* where do_POST is with each request
    run     \* what a run has seen and holds: its state and its start

proxyVars == <<audit, post>>

Trouble == faults < MaxTrouble[source] /\ faults' = faults + 1
Fine == UNCHANGED faults

Event(ev, q, use) == [event |-> ev, request |-> q, use |-> use]

ProxyInit ==
    /\ faults = 0
    /\ audit = [id |-> 1, owner |-> NoRun, log |-> <<>>]
    /\ post = [q \in Prompts |-> "none"]

Written(e) == audit' = [audit EXCEPT !.log = Append(@, e)]

\* An event that cannot be written is left out.
Emit(e) == (Written(e) /\ Fine) \/ (UNCHANGED audit /\ Trouble)

At(q, from, to) == post[q] = from /\ post' = [post EXCEPT ![q] = to]

Receive(q) ==
    /\ source = "proxy"
    /\ At(q, "none", "upstream")
    /\ Emit(Event("started", q, Missing))
    /\ UNCHANGED <<source, run>>

\* The answer is complete, with its usage or without, or it is an error, too
\* large, cut or never comes.
ModelAnswers(q) ==
    /\ At(q, "upstream", "complete") \/ At(q, "upstream", "unmetered")
       \/ At(q, "upstream", "failed")
    /\ Fine
    /\ UNCHANGED <<source, audit, run>>

\* The last frame, or the whole answer, waits for the event.
Finish(q) ==
    /\ \/ /\ At(q, "complete", "audited") /\ Fine
          /\ Written(Event("finished", q, {RequestCall(q)}))
       \/ At(q, "complete", "unaudited") /\ Trouble /\ UNCHANGED audit
       \/ /\ At(q, "unmetered", "unaudited") \/ At(q, "refused", "over")
          /\ Emit(Event("finished", q, Missing))
    /\ UNCHANGED <<source, run>>

\* Mutant: the answer is sent before its event is written.
ReplyFirst(q) ==
    /\ At(q, "complete", "delivered") \/ At(q, "failed", "refused")
    /\ Fine
    /\ UNCHANGED <<source, audit, run>>

\* An error is sent first: it carries no usage.  A client may be gone.
Reply(q) ==
    /\ \/ At(q, "audited", "delivered") \/ At(q, "audited", "over")
       \/ At(q, "unaudited", "over") \/ At(q, "failed", "refused")
    /\ Fine
    /\ UNCHANGED <<source, audit, run>>

\* The proxy is started anew, on a directory that it has to create.
Replace ==
    /\ source = "proxy" /\ Trouble
    /\ audit' = [id |-> audit.id + 1, owner |-> NoRun, log |-> <<>>]
    /\ post' = [q \in Prompts |->
                  IF post[q] \in {"none", "delivered"} THEN post[q] ELSE "over"]
    /\ UNCHANGED <<source, run>>

ProxyNext ==
    \/ \E q \in Prompts : Receive(q) \/ ModelAnswers(q) \/ Finish(q) \/ Reply(q)
    \/ Replace
=============================================================================
