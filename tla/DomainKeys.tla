------------------------------ MODULE DomainKeys ------------------------------
(***************************************************************************)
(* A sending domain and its DKIM keys (provider.py): rotation makes a key  *)
(* pair, its private half in a file and its public half in a row;          *)
(* verification looks the public half up in DNS, activates the key and     *)
(* retires the active ones; the domain's status follows DNS checks, the    *)
(* legacy registry and suspension.                                         *)
(*                                                                         *)
(* Nothing here locks a row. A request reads, resolves names or makes a    *)
(* file, and writes at its commit the columns it found different.          *)
(***************************************************************************)
EXTENDS Integers, FiniteSets, FiniteSetsExt

CONSTANTS
    DkimKeys,           \* key pairs that may be generated
    KeyRequests,        \* requests to rotate, verify or check at one time
    NoKey,              \* no key
    LastDay             \* bound: days that pass

ASSUME KeysAssumption ==
    /\ DkimKeys \subseteq Nat /\ IsFiniteSet(DkimKeys) /\ NoKey \notin DkimKeys
    /\ LastDay \in Nat

VARIABLES
    day,            \* the date in a new selector
    domain,         \* the domain's row
    dkim,           \* the rows of its keys
    keyFile,        \* which private key each selector's file holds
    dnsAnswers,      \* the public values that DNS answers with
    found,          \* the keys a verification has found in DNS
    keyReq          \* what each request has read and made

keysVars == <<day, domain, dkim, keyFile, dnsAnswers, found, keyReq>>

\* SENDING_ENABLED is left out: no code sets sending_enabled.
DomainStates == {"DNS_REQUIRED", "VERIFIED", "SUSPENDED"}
Domain == [status : DomainStates, selector : DkimKeys \union {NoKey}]

KeyStates == {"none", "PENDING_DNS", "ACTIVE", "RETIRED"}
Selectors == (0..LastDay) \X (1..(Cardinality(DkimKeys) + 1))
NoSelector == <<0, 0>>
KeyRow == [state : KeyStates, selector : Selectors \union {NoSelector}]

\* version, selector: of the key that is being made. status: of the domain, as it
\* was read. selected, active: the key was read as the domain's, and as active.
\* prior: the other keys that were read as active.
KeyReq == [step : {"idle", "generate", "insert", "resolve", "activate", "check"},
           key : DkimKeys \union {NoKey}, version : Nat, selector : Selectors \union {NoSelector},
           status : DomainStates, selected : BOOLEAN, active : BOOLEAN, prior : SUBSET DkimKeys]

NewDomain == [status |-> "DNS_REQUIRED", selector |-> NoKey]
IdleReq == [step |-> "idle", key |-> NoKey, version |-> 0, selector |-> NoSelector,
            status |-> "DNS_REQUIRED", selected |-> FALSE, active |-> FALSE, prior |-> {}]

KeysInit ==
    /\ day = 0
    /\ domain = NewDomain
    /\ dkim = [k \in DkimKeys |-> [state |-> "none", selector |-> NoSelector]]
    /\ keyFile = [s \in Selectors |-> NoKey]
    /\ dnsAnswers = {} /\ found = {}
    /\ keyReq = [r \in KeyRequests |-> IdleReq]

KeyRows == {k \in DkimKeys : dkim[k].state # "none"}
ActiveKeys == {k \in DkimKeys : dkim[k].state = "ACTIVE"}
Version(k) == dkim[k].selector[2]

-------------------------------------------------------------------------------
Midnight ==
    /\ day < LastDay
    /\ day' = day + 1
    /\ UNCHANGED <<domain, dkim, keyFile, dnsAnswers, found, keyReq>>

\* The tenant puts a public value into its DNS, or takes it out.
Publish(k) ==
    /\ k \in KeyRows
    /\ dnsAnswers' = IF k \in dnsAnswers THEN dnsAnswers \ {k} ELSE dnsAnswers \union {k}
    /\ UNCHANGED <<day, domain, dkim, keyFile, found, keyReq>>

\* The version is one more than the largest committed one.
RotateRead(r) ==
    /\ keyReq[r] = IdleReq /\ domain.status = "VERIFIED"
    /\ keyReq' = [keyReq EXCEPT ![r] = [IdleReq EXCEPT !.step = "generate",
                      !.version = 1 + Max({0} \union {Version(k) : k \in KeyRows})]]
    /\ UNCHANGED <<day, domain, dkim, keyFile, dnsAnswers, found>>

\* A faulty variant: the file is opened without O_EXCL.
NameAlwaysFree(selector) == TRUE

NameFree(selector) == keyFile[selector] = NoKey

\* A pair that was never generated; pairs are used in their order.
Fresh ==
    LET unused == {k \in DkimKeys : /\ k \notin KeyRows
                                    /\ \A s \in Selectors : keyFile[s] # k
                                    /\ \A r \in KeyRequests : keyReq[r].key # k}
    IN {k \in unused : \A u \in unused : k <= u}

\* A pair is generated and its private half stored in a new file of the
\* selector's name. When there is such a file, the request fails.
RotateGenerate(r) ==
    LET selector == <<day, keyReq[r].version>>
    IN /\ keyReq[r].step = "generate"
       /\ \/ /\ NameFree(selector)
             /\ \E k \in Fresh :
                   /\ keyFile' = [keyFile EXCEPT ![selector] = k]
                   /\ keyReq' = [keyReq EXCEPT ![r] = [@ EXCEPT !.step = "insert", !.key = k,
                                                                !.selector = selector]]
          \/ /\ ~NameFree(selector)
             /\ keyReq' = [keyReq EXCEPT ![r] = IdleReq]
             /\ UNCHANGED keyFile
       /\ UNCHANGED <<day, domain, dkim, dnsAnswers, found>>

\* The row is committed. Selectors are unique within the domain.
RotateInsert(r) ==
    /\ keyReq[r].step = "insert"
    /\ dkim' = IF \E k \in KeyRows : dkim[k].selector = keyReq[r].selector THEN dkim
               ELSE [dkim EXCEPT ![keyReq[r].key] = [state |-> "PENDING_DNS",
                                                     selector |-> keyReq[r].selector]]
    /\ keyReq' = [keyReq EXCEPT ![r] = IdleReq]
    /\ UNCHANGED <<day, domain, keyFile, dnsAnswers, found>>

-------------------------------------------------------------------------------
\* Any key of the domain may be verified, a retired one too.
VerifyRead(r, k) ==
    /\ keyReq[r] = IdleReq /\ k \in KeyRows
    /\ keyReq' = [keyReq EXCEPT ![r] = [IdleReq EXCEPT !.step = "resolve", !.key = k,
                      !.selected = (domain.selector = k), !.active = (dkim[k].state = "ACTIVE")]]
    /\ UNCHANGED <<day, domain, dkim, keyFile, dnsAnswers, found>>

DnsMatches(k) == k \in dnsAnswers

\* The names are resolved; then the active keys are read.
VerifyResolve(r) ==
    LET k == keyReq[r].key
    IN /\ keyReq[r].step = "resolve"
       /\ found' = found \union ({k} \intersect dnsAnswers)
       /\ keyReq' = IF DnsMatches(k)
                    THEN [keyReq EXCEPT ![r] = [@ EXCEPT !.step = "activate",
                                                         !.prior = ActiveKeys \ {k}]]
                    ELSE [keyReq EXCEPT ![r] = IdleReq]
       /\ UNCHANGED <<day, domain, dkim, keyFile, dnsAnswers>>

\* The commit writes the key's state and the domain's selector when they differ
\* from what was read.
VerifyActivate(r) ==
    LET req == keyReq[r]
    IN /\ req.step = "activate"
       /\ dkim' = [k \in DkimKeys |->
             IF k \in req.prior THEN [dkim[k] EXCEPT !.state = "RETIRED"]
             ELSE IF k = req.key /\ ~req.active THEN [dkim[k] EXCEPT !.state = "ACTIVE"]
             ELSE dkim[k]]
       /\ domain' = IF req.selected THEN domain ELSE [domain EXCEPT !.selector = req.key]
       /\ keyReq' = [keyReq EXCEPT ![r] = IdleReq]
       /\ UNCHANGED <<day, keyFile, dnsAnswers, found>>

-------------------------------------------------------------------------------
\* The DNS check reads the domain and its newest active key.
CheckRead(r) ==
    /\ keyReq[r] = IdleReq
    /\ \E k \in IF ActiveKeys = {} THEN {NoKey}
                ELSE {k \in ActiveKeys : \A a \in ActiveKeys : Version(a) <= Version(k)} :
          keyReq' = [keyReq EXCEPT ![r] = [IdleReq EXCEPT !.step = "check", !.key = k,
                                                          !.status = domain.status]]
    /\ UNCHANGED <<day, domain, dkim, keyFile, dnsAnswers, found>>

\* It resolves the names, the other records being good or not, and writes the
\* status when it differs from the one read. A suspended domain stays as it is.
CheckWrite(r) ==
    LET read == keyReq[r].status
    IN /\ keyReq[r].step = "check"
       /\ \E good \in {FALSE, keyReq[r].key \in dnsAnswers} :
             LET status == CASE read = "SUSPENDED" -> read
                             [] good -> "VERIFIED"
                             [] OTHER -> "DNS_REQUIRED"
             IN domain' = IF status = read THEN domain ELSE [domain EXCEPT !.status = status]
       /\ keyReq' = [keyReq EXCEPT ![r] = IdleReq]
       /\ UNCHANGED <<day, dkim, keyFile, dnsAnswers, found>>

\* The legacy registry has the domain as verified, or not. This verification
\* overwrites a suspension.
DomainVerify ==
    /\ \E status \in {"VERIFIED", "DNS_REQUIRED"} \ {domain.status} :
          domain' = [domain EXCEPT !.status = status]
    /\ UNCHANGED <<day, dkim, keyFile, dnsAnswers, found, keyReq>>

DomainSuspend ==
    /\ domain.status # "SUSPENDED"
    /\ domain' = [domain EXCEPT !.status = "SUSPENDED"]
    /\ UNCHANGED <<day, dkim, keyFile, dnsAnswers, found, keyReq>>

\* A request dies, or its commit fails; a file it has made stays.
KeyReqDies(r) ==
    /\ keyReq[r].step \in {"insert", "activate"}
    /\ keyReq' = [keyReq EXCEPT ![r] = IdleReq]
    /\ UNCHANGED <<day, domain, dkim, keyFile, dnsAnswers, found>>

KeysNext ==
    \/ Midnight \/ DomainVerify \/ DomainSuspend
    \/ \E k \in DkimKeys : Publish(k)
    \/ \E r \in KeyRequests :
          \/ RotateRead(r) \/ RotateGenerate(r) \/ RotateInsert(r)
          \/ VerifyResolve(r) \/ VerifyActivate(r) \/ CheckRead(r) \/ CheckWrite(r)
          \/ KeyReqDies(r)
          \/ \E k \in DkimKeys : VerifyRead(r, k)

KeysSpec == KeysInit /\ [][KeysNext]_keysVars

-------------------------------------------------------------------------------
KeysTypeOK ==
    /\ day \in 0..LastDay
    /\ domain \in Domain
    /\ dkim \in [DkimKeys -> KeyRow]
    /\ keyFile \in [Selectors -> DkimKeys \union {NoKey}]
    /\ dnsAnswers \in SUBSET DkimKeys /\ found \in SUBSET DkimKeys
    /\ keyReq \in [KeyRequests -> KeyReq]

\* The private key stored under the selector of a committed key is that key's,
\* although two rotations may compute the same version, a rotation may run over
\* midnight or die between its file and its row, and no row is locked; and the
\* selector the domain signs with is a key that was found in DNS
\* (generate_dkim_material, dkim_rotate, dkim_verify; KLYROW_DKIM_ROTATION.md).
DkimKeysAreTheirOwn ==
    /\ \A k \in KeyRows : keyFile[dkim[k].selector] = k
    /\ domain.selector # NoKey => domain.selector \in found
===============================================================================
