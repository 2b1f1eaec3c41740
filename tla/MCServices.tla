------------------------------ MODULE MCServices ------------------------------
(* One small instance of each service that shares no table with the others    *)
(* here. A behaviour is one of one of them: the first state picks it, and the  *)
(* others rest in their initial states, so that states add up instead of       *)
(* multiplying.                                                                *)
EXTENDS BusinessEvents, PostalEvents, MiddlewareCommands, BillingMoney,
        UsageSnapshots, SecurityMail, DomainKeys, IntegrationResults, Accounts,
        Webmail, BillingWork, PostalProvisioning, SendGates, TLC

CONSTANTS q1, q2    \* the two requests, or workers, of each service

VARIABLE moving

servicesVars == <<moving, eventVars, callbackVars, commandVars, moneyVars, usageVars,
    mailVars, keysVars, resultsVars, signInVars, teamVars, webmailVars, workVars,
    provisionVars, gateVars, onboardingVars, credentialVars>>

MCCallbackKind == [c \in Callbacks |-> IF c = 1 THEN "bounced" ELSE "deferred"]
MCCommandKind ==
    [c \in Commands |-> CASE c = 1 -> "send" [] c = 2 -> "cancel" [] OTHER -> "other"]
MCCancelledBy == [c \in Commands |-> 1]
MCWalletAmount == [r \in References |-> IF r = 3 THEN -1 ELSE 1]
MCPaymentAmount == [p \in Payments |-> IF p = 11 THEN 2 ELSE 1]
MCHeldTask == "h1" :> 1
MCSize == [x \in Messages |-> IF x = 1 THEN 2 ELSE 1]
MCSurplus == [x \in Messages |-> IF x = 2 THEN 1 ELSE 0]
MCEmailOf == [s \in Subjects |-> s]
MCMessageId == [i \in Inbound |-> IF i = 3 THEN 2 ELSE i]

ServicesSymmetry == Permutations({q1, q2})

ServicesInit ==
    /\ moving \in {"events", "callbacks", "commands", "money", "usage", "mail", "keys",
                   "results", "signIn", "team", "webmail", "work", "provisioning", "gates",
                   "onboarding", "credentials"}
    /\ EventInit /\ CallbackInit /\ CommandInit /\ MoneyInit /\ UsageInit /\ MailInit
    /\ KeysInit /\ ResultsInit /\ SignInInit /\ TeamInit /\ WebmailInit /\ WorkInit
    /\ ProvisionInit /\ GateInit /\ OnboardingInit /\ CredentialsInit
    \* A service that rests needs one initial state only.
    /\ moving # "gates" => sent = 0
    /\ moving # "usage" => \A t \in UsageTenants : usage[t] = 0

OthersRest(name) ==
    /\ UNCHANGED moving
    /\ IF name = "events" THEN TRUE ELSE UNCHANGED eventVars
    /\ IF name = "callbacks" THEN TRUE ELSE UNCHANGED callbackVars
    /\ IF name = "commands" THEN TRUE ELSE UNCHANGED commandVars
    /\ IF name = "money" THEN TRUE ELSE UNCHANGED moneyVars
    /\ IF name = "usage" THEN TRUE ELSE UNCHANGED usageVars
    /\ IF name = "mail" THEN TRUE ELSE UNCHANGED mailVars
    /\ IF name = "keys" THEN TRUE ELSE UNCHANGED keysVars
    /\ IF name = "results" THEN TRUE ELSE UNCHANGED resultsVars
    /\ IF name = "signIn" THEN TRUE ELSE UNCHANGED signInVars
    /\ IF name = "team" THEN TRUE ELSE UNCHANGED teamVars
    /\ IF name = "webmail" THEN TRUE ELSE UNCHANGED webmailVars
    /\ IF name = "work" THEN TRUE ELSE UNCHANGED workVars
    /\ IF name = "provisioning" THEN TRUE ELSE UNCHANGED provisionVars
    /\ IF name = "gates" THEN TRUE ELSE UNCHANGED gateVars
    /\ IF name = "onboarding" THEN TRUE ELSE UNCHANGED onboardingVars
    /\ IF name = "credentials" THEN TRUE ELSE UNCHANGED credentialVars

EventsMove == moving = "events" /\ EventNext /\ OthersRest("events")
CallbacksMove == moving = "callbacks" /\ CallbackNext /\ OthersRest("callbacks")
CommandsMove == moving = "commands" /\ CommandNext /\ OthersRest("commands")
MoneyMoves == moving = "money" /\ MoneyNext /\ OthersRest("money")
UsageMoves == moving = "usage" /\ UsageNext /\ OthersRest("usage")
MailMoves == moving = "mail" /\ MailNext /\ OthersRest("mail")
KeysMove == moving = "keys" /\ KeysNext /\ OthersRest("keys")
ResultsMove == moving = "results" /\ ResultsNext /\ OthersRest("results")
SignInMoves == moving = "signIn" /\ SignInNext /\ OthersRest("signIn")
TeamMoves == moving = "team" /\ TeamNext /\ OthersRest("team")
WebmailMoves == moving = "webmail" /\ WebmailNext /\ OthersRest("webmail")
WorkMoves == moving = "work" /\ WorkNext /\ OthersRest("work")
ProvisioningMoves ==
    moving = "provisioning" /\ ProvisionNext /\ OthersRest("provisioning")
GatesMove == moving = "gates" /\ GateNext /\ OthersRest("gates")
OnboardingMoves == moving = "onboarding" /\ OnboardingNext /\ OthersRest("onboarding")
CredentialsMove == moving = "credentials" /\ CredentialsNext /\ OthersRest("credentials")

ServicesNext ==
    \/ EventsMove \/ CallbacksMove \/ CommandsMove \/ MoneyMoves \/ UsageMoves
    \/ MailMoves \/ KeysMove \/ ResultsMove \/ SignInMoves \/ TeamMoves
    \/ WebmailMoves \/ WorkMoves \/ ProvisioningMoves \/ GatesMove \/ OnboardingMoves
    \/ CredentialsMove

ServicesSpec == ServicesInit /\ [][ServicesNext]_servicesVars

\* Every service keeps its variables within their types: the one that moves,
\* the others being where they started.
ServicesTypeOK ==
    CASE moving = "events" -> EventTypeOK
      [] moving = "callbacks" -> CallbackTypeOK
      [] moving = "commands" -> CommandTypeOK
      [] moving = "money" -> MoneyTypeOK
      [] moving = "usage" -> UsageTypeOK
      [] moving = "mail" -> MailTypeOK
      [] moving = "keys" -> KeysTypeOK
      [] moving = "results" -> ResultsTypeOK
      [] moving = "signIn" -> SignInTypeOK
      [] moving = "team" -> TeamTypeOK
      [] moving = "webmail" -> WebmailTypeOK
      [] moving = "work" -> WorkTypeOK
      [] moving = "provisioning" -> ProvisionTypeOK
      [] moving = "gates" -> GateTypeOK
      [] moving = "onboarding" -> OnboardingTypeOK
      [] moving = "credentials" -> CredentialsTypeOK
===============================================================================
