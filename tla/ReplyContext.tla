----------------------------- MODULE ReplyContext ------------------------------
(***************************************************************************)
(* What a reply needs besides its message: the context token of the        *)
(* conversation.  The channel stores it while it materializes a message    *)
(* (src/channels/weixin/adapter.ts), it expires after a week, and the      *)
(* retention sweep removes it once no work depends on it                   *)
(* (src/daemon/store.ts).  The token is in one table, the work in two      *)
(* others, and a reservation turns into a row in a transaction that is     *)
(* neither the one that stores the token nor the sweep's.                  *)
(*                                                                         *)
(* The steps of the pipeline happen as they are, except that a message is  *)
(* finalized only after its token was stored and that the sweep also       *)
(* looks at the tokens.  In this channel a conversation is one route.      *)
(***************************************************************************)
EXTENDS InboundPipeline

VARIABLES
  context, \* channel_state 'context:<conversation>': no row, fresh or expired
  stored   \* onInbound calls whose materialize() has stored the token

contextVars == <<vars, context, stored>>

ContextState == {"none", "fresh", "expired"}

----------------------------------------------------------------------------
(* Reading and keeping the token. *)

\* #hasActiveContextDependency: a row is outstanding, or an admission of a bound
\* route reserved, whether or not the reservation's time has passed.
Dependency(r) ==
  \E m \in OnRoute(r) :
    \/ inbox[m].status \in Outstanding
    \/ admission[m].disp = "reserved" /\ binding[r] # None

\* getChannelState, as send() calls it for each chunk of a reply: an expired token
\* is still there for work that depends on it.
Readable(r) == context[r] = "fresh" \/ (context[r] = "expired" /\ Dependency(r))

\* Faulty variant: the token is kept for what is queued, not for what is reserved.
ForgettableByRows ==
  {r \in Route : /\ context[r] = "expired"
                 /\ \A m \in OnRoute(r) : inbox'[m].status \notin Outstanding}

\* Faulty variant: as long as the route is bound the token stays.
ForgettableIfUnbound == {r \in Route : context[r] = "expired" /\ binding'[r] = None}

\* The expired tokens that nothing depends on, once the sweep has lifted its
\* barriers.
Forgettable == {r \in Route : context[r] = "expired" /\ ~Dependency(r)'}

----------------------------------------------------------------------------
(* The steps that concern tokens. *)

\* setChannelState, in materialize(): a transaction of its own.
StoreContext(t) ==
  /\ t \in tasks \ stored /\ Holds(t.daemon)
  /\ context' = [context EXCEPT ![t.msg[1]] = "fresh"]
  /\ stored' = stored \cup {t}
  /\ UNCHANGED vars

ContextExpires(r) ==
  /\ context[r] = "fresh"
  /\ context' = [context EXCEPT ![r] = "expired"]
  /\ UNCHANGED <<vars, stored>>

\* cleanup removes a batch of the forgettable tokens along with the rest.
Sweep(d) ==
  /\ Cleanup(d)
  /\ \E F \in SUBSET Forgettable :
       /\ Cardinality(F) = Min2(CleanupBatchSize, Cardinality(Forgettable))
       /\ context' = [r \in Route |-> IF r \in F THEN "none" ELSE context[r]]
  /\ UNCHANGED stored

\* onInbound goes on: the message is finalized when materialize() has returned.
ResumeStored ==
  \E t \in tasks :
    \/ t \in stored /\ (Finalize(t) \/ FinalizeControl(t))
    \/ FailMaterialization(t) \/ Superseded(t)

\* The other steps of the pipeline.
Around ==
  /\ \/ \E d \in Daemon : Life(d) \/ Ingress(d) \/ Extension(d) \/ Admin(d)
     \/ ResumeStored
     \/ Time
  /\ stored' = stored \cap tasks' /\ UNCHANGED context

----------------------------------------------------------------------------
ContextInit == Init /\ context = [r \in Route |-> "none"] /\ stored = {}

ContextNext ==
  \/ \E t \in tasks : StoreContext(t)
  \/ \E r \in Route : ContextExpires(r)
  \/ \E d \in Daemon : Sweep(d)
  \/ Around

ContextSpec == ContextInit /\ [][ContextNext]_contextVars
----------------------------------------------------------------------------
(* Correctness. *)

\* Types of the tokens.
ContextTypeOK == context \in [Route -> ContextState] /\ stored \subseteq tasks

\* A reply to a message that still has to be answered finds its conversation's
\* token, however long the message has waited and whatever was swept, reclaimed or
\* rebound meanwhile.  security.md: "An expired context token remains available
\* while its exact tenant/channel/account/conversation still has pending, leased,
\* retry-wait, or reserved work."
ReplyFindsContext ==
  \A m \in Message : inbox[m].status \in Outstanding => Readable(m[1])
================================================================================
