------------------------------- MODULE MCWorkers -------------------------------
(* What the worker host must bring to an end: small instances of the services *)
(* it drives, one of which moves in a behaviour while the others rest in their *)
(* initial states (they share no table here). The fairness is that of each     *)
(* service, for the one that moves.                                            *)
EXTENDS BusinessEvents, MiddlewareCommands, BillingWork, PostalProvisioning,
        CampaignDispatch

CONSTANTS w1, w2, r1, r2

VARIABLE moving

workersVars == <<moving, eventVars, commandVars, workVars, provisionVars, vars>>

MCCommandKind ==
    [c \in Commands |-> CASE c = 1 -> "send" [] c = 2 -> "cancel" [] OTHER -> "other"]
MCCancelledBy == [c \in Commands |-> 1]

WorkersInit ==
    /\ moving \in {"events", "commands", "work", "provisioning", "campaign"}
    /\ EventInit /\ CommandInit /\ WorkInit /\ ProvisionInit /\ Init

EventsMove ==
    /\ moving = "events" /\ EventNext
    /\ UNCHANGED <<moving, commandVars, workVars, provisionVars, vars>>
CommandsMove ==
    /\ moving = "commands" /\ CommandNext
    /\ UNCHANGED <<moving, eventVars, workVars, provisionVars, vars>>
WorkMoves ==
    /\ moving = "work" /\ WorkNext
    /\ UNCHANGED <<moving, eventVars, commandVars, provisionVars, vars>>
ProvisioningMoves ==
    /\ moving = "provisioning" /\ ProvisionNext
    /\ UNCHANGED <<moving, eventVars, commandVars, workVars, vars>>
\* A refusal is in a behaviour without requests and crashes, to keep them few.
CampaignMoves ==
    /\ moving = "campaign" /\ Next
    /\ count'.refusals = 0 \/ count'.requests + count'.crashes = 0
    /\ UNCHANGED <<moving, eventVars, commandVars, workVars, provisionVars>>

WorkersNext ==
    EventsMove \/ CommandsMove \/ WorkMoves \/ ProvisioningMoves \/ CampaignMoves

\* EventFairness, CommandFairness, WorkFairness, ProvisionFairness and the
\* campaign's Fairness, asked of the service that moves.
WorkersFairness ==
    /\ \A e \in Events :
          /\ WF_eventVars(moving = "events" /\ EventBecomesDue(e))
          /\ WF_eventVars(moving = "events" /\ EventLeaseExpires(e))
    /\ \A p \in Publishers :
          WF_eventVars(moving = "events" /\ (EventClaim(p) \/ EventPost(p) \/ EventComplete(p)))
    /\ WF_commandVars(moving = "commands" /\ CommandRecover)
    /\ \A c \in Commands :
          /\ WF_commandVars(moving = "commands" /\ CommandGetsStale(c))
          /\ SF_commandVars(moving = "commands" /\ \E x \in Executors : CommandClaim(x, c))
    /\ \A x \in Executors : WF_commandVars(moving = "commands" /\ CommandGoesOn(x))
    /\ \A e \in BillingEvents :
          /\ WF_workVars(moving = "work" /\ WorkBecomesDue(e))
          /\ WF_workVars(moving = "work" /\ WorkExpires(e))
    /\ \A w \in BillingWorkers : WF_workVars(moving = "work" /\ TickStep(w))
    /\ \A t \in NewTenants :
          /\ WF_provisionVars(moving = "provisioning" /\ JobBecomesDue(t))
          /\ WF_provisionVars(moving = "provisioning" /\ JobExpires(t))
    /\ \A w \in Provisioners : WF_provisionVars(moving = "provisioning" /\ ProvisionerStep(w))
    /\ WF_vars(moving = "campaign" /\ Begin)
    /\ WF_vars(moving = "campaign" /\ RunBecomesDue)
    /\ WF_vars(moving = "campaign" /\ LeaseExpires)
    /\ \A r \in Recipients : WF_vars(moving = "campaign" /\ ItemBecomesDue(r))
    /\ WF_vars(moving = "campaign" /\ Serve)
    /\ \A w \in Workers : WF_vars(moving = "campaign" /\ Tick(w))

WorkersSpec == WorkersInit /\ [][WorkersNext]_workersVars /\ WorkersFairness

\* A billing event, and a business event to publish, is worked off once it is
\* committed (EveryBillingEventSettles, EveryEventSettles).
EveryBookedEventSettles == EveryBillingEventSettles /\ EveryEventSettles
===============================================================================
