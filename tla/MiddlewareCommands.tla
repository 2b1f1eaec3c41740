-------------------------- MODULE MiddlewareCommands --------------------------
(***************************************************************************)
(* Commands of the middleware: their durable acceptance                    *)
(* (middleware_command), their execution by the request or by the mail     *)
(* worker (execute_middleware_command), the recovery of executions that    *)
(* were interrupted (recover_middleware_commands) and the projection of a  *)
(* message's outcome on the command that sent it                           *)
(* (reconcile_email_command_operation).                                    *)
(*                                                                         *)
(* An execution claims the command under its row lock, commits, and works  *)
(* without the lock; five minutes later recovery takes it for interrupted, *)
(* dead or only slow, and a second execution may run beside the first.     *)
(* The sending itself is protected by the idempotency row of the message.  *)
(***************************************************************************)
EXTENDS Integers

CONSTANTS
    Commands,           \* accepted (tenant, idempotency key) pairs
    CommandKind,        \* "send", "cancel" or "other" (verify, suppress, snapshot)
    CancelledBy,        \* the send command whose message a cancel command names
    Executors,          \* requests and recovery passes executing a command
    NoCommand,          \* no command
    CommandMaxFaults    \* bound: executions that are interrupted, die or are asked for again

ASSUME CommandAssumption ==
    /\ CommandKind \in [Commands -> {"send", "cancel", "other"}]
    /\ CancelledBy \in [Commands -> Commands]
    /\ \A c \in Commands : CommandKind[c] = "cancel" => CommandKind[CancelledBy[c]] = "send"
    /\ NoCommand \notin Commands /\ CommandMaxFaults \in Nat

VARIABLES
    command,            \* the table middleware_command_operations
    executor,           \* what each execution has found so far
    made,               \* messages made for each send command
    remembered,         \* the idempotency row of a send: the message it names
    message,            \* status of the (last) message of each send command
    commandFaults       \* faults so far

commandVars == <<command, executor, made, remembered, message, commandFaults>>

CommandStates == {"none", "accepted", "processing", "queued", "submitted", "delivered",
                  "cancelled", "completed", "failed", "unknown_outcome"}
CommandEnds == CommandStates \ {"none", "accepted", "processing"}
MessageStates == {"none", "queued", "sending", "delivered", "failed", "cancelled", "indeterminate"}

\* stale: updated_at is more than five minutes old. result: the message that
\* result_json names; 0 when it names none.
Command == [state : CommandStates, stale : BOOLEAN, result : Nat]

\* step: what comes next; found: what the idempotency row named when it was read.
Executor == [command : Commands \union {NoCommand}, step : {"look", "act"}, found : Nat]
IdleExecutor == [command |-> NoCommand, step |-> "look", found |-> 0]

CommandInit ==
    /\ command = [c \in Commands |-> [state |-> "none", stale |-> FALSE, result |-> 0]]
    /\ executor = [x \in Executors |-> IdleExecutor]
    /\ made = [c \in Commands |-> 0]
    /\ remembered = [c \in Commands |-> 0]
    /\ message = [c \in Commands |-> "none"]
    /\ commandFaults = 0

-------------------------------------------------------------------------------
\* A command is recorded before anything is done. A repeated request finds it.
CommandAccept(c) ==
    /\ command[c].state = "none"
    /\ command' = [command EXCEPT ![c].state = "accepted"]
    /\ UNCHANGED <<executor, made, remembered, message, commandFaults>>

\* Five minutes pass.
CommandGetsStale(c) ==
    /\ command[c].state = "processing" /\ ~command[c].stale
    /\ command' = [command EXCEPT ![c].stale = TRUE]
    /\ UNCHANGED <<executor, made, remembered, message, commandFaults>>

\* The request that accepted it, or the loop, claims a command.
CommandClaim(x, c) ==
    /\ executor[x] = IdleExecutor
    /\ command[c].state = "accepted"
    /\ command' = [command EXCEPT ![c].state = "processing", ![c].stale = FALSE]
    /\ executor' = [executor EXCEPT ![x].command = c]
    /\ UNCHANGED <<made, remembered, message, commandFaults>>

Doing(x, kind, step) ==
    /\ executor[x].command # NoCommand
    /\ CommandKind[executor[x].command] = kind
    /\ executor[x].step = step

\* The message that an earlier execution made.
Found(c) == remembered[c]

\* _send looks for the idempotency row of the command.
CommandLook(x) ==
    /\ Doing(x, "send", "look")
    /\ executor' = [executor EXCEPT ![x].step = "act", ![x].found = Found(executor[x].command)]
    /\ UNCHANGED <<command, made, remembered, message, commandFaults>>

\* A faulty variant: the row is not unique.
UnrememberedAlways(c) == TRUE

Unremembered(c) == remembered[c] = 0

\* _send commits the message with its idempotency row, unless it has found one.
\* The row is unique: of two executions that found none, the second one fails.
CommandSend(x) ==
    LET c == executor[x].command
    IN /\ Doing(x, "send", "act") /\ executor[x].found = 0
       /\ Unremembered(c)
       /\ made' = [made EXCEPT ![c] = @ + 1]
       /\ remembered' = [remembered EXCEPT ![c] = made[c] + 1]
       /\ message' = [message EXCEPT ![c] = "queued"]
       /\ executor' = [executor EXCEPT ![x].found = made[c] + 1]
       /\ UNCHANGED <<command, commandFaults>>

\* The execution writes what it has done over whatever the command says now.
Finished(c, state, result) ==
    command' = [command EXCEPT ![c] = [state |-> state, stale |-> FALSE, result |-> result]]

CommandQueued(x) ==
    /\ Doing(x, "send", "act") /\ executor[x].found # 0
    /\ Finished(executor[x].command, "queued", executor[x].found)
    /\ executor' = [executor EXCEPT ![x] = IdleExecutor]
    /\ UNCHANGED <<made, remembered, message, commandFaults>>

\* The guards of a send refuse it, a cancellation finds nothing to cancel, or
\* another command is refused: the command has failed.
CommandRefused(x) ==
    LET c == executor[x].command
    IN /\ \/ Doing(x, "send", "act") /\ executor[x].found = 0
          \/ /\ Doing(x, "cancel", "look")
             /\ message[CancelledBy[c]] \notin {"queued", "cancelled"}
          \/ Doing(x, "other", "look")
       /\ Finished(c, "failed", command[c].result)
       /\ executor' = [executor EXCEPT ![x] = IdleExecutor]
       /\ UNCHANGED <<made, remembered, message, commandFaults>>

\* A cancellation locks message and outbox row and ends both, or finds it done.
CommandCancel(x) ==
    LET c == executor[x].command
    IN /\ Doing(x, "cancel", "look")
       /\ message[CancelledBy[c]] \in {"queued", "cancelled"}
       /\ message' = [message EXCEPT ![CancelledBy[c]] = "cancelled"]
       /\ Finished(c, "cancelled", command[c].result)
       /\ executor' = [executor EXCEPT ![x] = IdleExecutor]
       /\ UNCHANGED <<made, remembered, commandFaults>>

\* The other commands write their effect with their completion.
CommandComplete(x) ==
    /\ Doing(x, "other", "look")
    /\ Finished(executor[x].command, "completed", 0)
    /\ executor' = [executor EXCEPT ![x] = IdleExecutor]
    /\ UNCHANGED <<made, remembered, message, commandFaults>>

Interrupted(c) ==
    IF command[c].state = "processing"
    THEN [command EXCEPT ![c].state = "accepted", ![c].stale = FALSE] ELSE command

\* An execution fails for another reason; one reason is the unique row above.
CommandInterrupted(x) ==
    LET c == executor[x].command
        collides == Doing(x, "send", "act") /\ executor[x].found = 0 /\ ~Unremembered(c)
    IN /\ c # NoCommand
       /\ collides \/ commandFaults < CommandMaxFaults
       /\ commandFaults' = IF collides THEN commandFaults ELSE commandFaults + 1
       /\ command' = Interrupted(c)
       /\ executor' = [executor EXCEPT ![x] = IdleExecutor]
       /\ UNCHANGED <<made, remembered, message>>

\* The process dies; the command stays as it is.
CommandDies(x) ==
    /\ executor[x].command # NoCommand
    /\ commandFaults < CommandMaxFaults
    /\ commandFaults' = commandFaults + 1
    /\ executor' = [executor EXCEPT ![x] = IdleExecutor]
    /\ UNCHANGED <<command, made, remembered, message>>

\* A faulty variant: the loop looks for commands nobody has claimed.
StaleUnclaimed == {c \in Commands : command[c].state = "accepted" /\ command[c].stale}

StaleCommands == {c \in Commands : command[c].state = "processing" /\ command[c].stale}

\* The loop takes stale commands for interrupted.
CommandRecover ==
    /\ StaleCommands # {}
    /\ command' = [c \in Commands |-> IF c \in StaleCommands
          THEN [command[c] EXCEPT !.state = "accepted", !.stale = FALSE] ELSE command[c]]
    /\ UNCHANGED <<executor, made, remembered, message, commandFaults>>

-------------------------------------------------------------------------------
\* The delivery of the message goes its way (module EmailDelivery).
MessageMoves(c) ==
    /\ \/ message[c] = "queued" /\ message' = [message EXCEPT ![c] = "sending"]
       \/ /\ message[c] = "sending"
          /\ \E s \in {"queued", "delivered", "failed", "indeterminate"} :
                message' = [message EXCEPT ![c] = s]
    /\ UNCHANGED <<command, executor, made, remembered, commandFaults>>

Projected(status) ==
    CASE status = "sending" -> "processing"
      [] status = "delivered" -> "submitted"
      [] status = "indeterminate" -> "unknown_outcome"
      [] OTHER -> status

\* Reading a command back projects the message's outcome on it.
CommandReadBack(c) ==
    /\ CommandKind[c] = "send" /\ command[c].result # 0
    /\ command[c].state # Projected(message[c])
    /\ command' = [command EXCEPT ![c].state = Projected(message[c]), ![c].stale = FALSE]
    /\ UNCHANGED <<executor, made, remembered, message, commandFaults>>

\* The tenant cancels a command that nobody executes and that has not ended for
\* good; an execution that was taken for interrupted may still write over it.
CommandCancelled(c) ==
    /\ command[c].state \notin {"none", "processing", "completed", "failed", "cancelled"}
    /\ command' = [command EXCEPT ![c].state = "cancelled", ![c].stale = FALSE]
    /\ UNCHANGED <<executor, made, remembered, message, commandFaults>>

\* The tenant has a failed command executed again.
CommandReconcile(c) ==
    /\ command[c].state = "failed" /\ commandFaults < CommandMaxFaults
    /\ commandFaults' = commandFaults + 1
    /\ command' = [command EXCEPT ![c].state = "accepted", ![c].stale = FALSE]
    /\ UNCHANGED <<executor, made, remembered, message>>

\* An execution that was begun takes its next step.
CommandGoesOn(x) ==
    \/ CommandLook(x) \/ CommandSend(x) \/ CommandQueued(x) \/ CommandRefused(x)
    \/ CommandCancel(x) \/ CommandComplete(x) \/ CommandInterrupted(x)

CommandNext ==
    \/ \E c \in Commands : \/ CommandAccept(c) \/ CommandGetsStale(c)
                           \/ MessageMoves(c) \/ CommandReadBack(c)
                           \/ CommandCancelled(c) \/ CommandReconcile(c)
                           \/ \E x \in Executors : CommandClaim(x, c)
    \/ \E x \in Executors : CommandGoesOn(x) \/ CommandDies(x)
    \/ CommandRecover

\* The mail worker recovers and executes for ever, and executions go on.
CommandFairness ==
    /\ WF_commandVars(CommandRecover)
    /\ \A c \in Commands : WF_commandVars(CommandGetsStale(c))
    /\ \A c \in Commands : SF_commandVars(\E x \in Executors : CommandClaim(x, c))
    /\ \A x \in Executors : WF_commandVars(CommandGoesOn(x))

CommandSpec == CommandInit /\ [][CommandNext]_commandVars /\ CommandFairness

-------------------------------------------------------------------------------
CommandTypeOK ==
    /\ command \in [Commands -> Command]
    /\ executor \in [Executors -> Executor]
    /\ made \in [Commands -> Nat] /\ remembered \in [Commands -> Nat]
    /\ message \in [Commands -> MessageStates]
    /\ commandFaults \in 0..CommandMaxFaults

\* However often a send command is executed, also beside an execution that is
\* only slow, one message is made for it, and a result that is recorded names
\* that message ("Claim and execute one durably recorded Middleware command
\* exactly once").
CommandSendsOnce ==
    \A c \in Commands : made[c] <= 1 /\ command[c].result \in {0, made[c]}

\* A command that was accepted comes to an end, whoever dies while executing it.
EveryCommandEnds ==
    \A c \in Commands : command[c].state = "accepted" ~> command[c].state \in CommandEnds
===============================================================================
