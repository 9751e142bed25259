------------------------------- MODULE Accounts -------------------------------
(***************************************************************************)
(* Accounts and the ways into them.  A handler is several statements on    *)
(* the shared tables with no transaction around them, so two browsers'     *)
(* requests interleave between a look-up and the write it decided: the     *)
(* steps of a request are actions, `req` holds what a request has read.    *)
(*                                                                         *)
(* Time is what it does: a session, invite or reset link may expire at any *)
(* moment, and `clock` is the current TOTP step.  Passwords, tokens and    *)
(* codes are not modelled; a request that presents a wrong one changes     *)
(* nothing here (LoginLimiter counts it).                                  *)
(***************************************************************************)
EXTENDS Naturals, FiniteSets

CONSTANTS
    Account,       \* the usernames; a removed account's row id never returns
    Browser, Invite, Reset,
    Provider, Sub, \* identity providers, and the subjects they vouch for
    MaxClock,      \* bound: TOTP steps
    MaxOps,        \* bound: requests of a behaviour
    RecoveryCodes, \* codes minted at enrolment
    TeamRaces      \* whether changes to the team may overlap

NoOne == "nobody"

ASSUME AccountsAssumption ==
    /\ {MaxClock, MaxOps, RecoveryCodes} \subseteq Nat \ {0}
    /\ TeamRaces \in BOOLEAN
    /\ IsFiniteSet(Account) /\ IsFiniteSet(Browser)
    /\ NoOne \notin Account /\ Invite \cap {"none", "setup", "admin"} = {}

VARIABLES
    role,       \* an account's role; "none" before it exists, "gone" after
    born,       \* the way an account came to be
    totp, step, \* enrolment, and totp_last_step (0 is NULL)
    codes,      \* unused recovery codes
    resets,     \* password resets applied to an account
    session,    \* live session rows
    nextId,
    cookie,     \* the session a browser presents; 0 for none
    pending,    \* the account a browser's pending cookie names
    invite, reset,
    providers,  \* enabled identity providers
    linked,     \* sso_identity: provider, subject, account
    ssoTx,      \* the sign-on a browser has under way: login, link or none
    req,        \* the request a browser has in flight
    taken,      \* how often a TOTP step opened a session for an account
    clock, ops

rowVars  == <<role, born, totp, step, codes, resets>>
sessVars == <<session, nextId, cookie, pending>>
linkVars == <<invite, reset>>
ssoVars  == <<providers, linked, ssoTx>>
vars == <<rowVars, sessVars, linkVars, ssoVars, req, taken, clock, ops>>

Roles == {"admin", "viewer"}
Idle == [op |-> "idle", acct |-> NoOne, ref |-> "none"]

Standing == {a \in Account : role[a] \in Roles}

\* A request between two of its statements: what it is doing, to which account,
\* and the role, invite, reset link or identity it does it with.
Request ==
    [op : {"idle", "setup"}, acct : {NoOne}, ref : {"none"}]
    \cup [op : {"signin", "remove", "revokeOthers", "enrol"}, acct : Account, ref : {"none"}]
    \cup [op : {"accept"}, acct : {NoOne}, ref : Invite]
    \cup [op : {"consume"}, acct : Account, ref : Invite]
    \cup [op : {"reset", "revokeAll"}, acct : Account, ref : Reset]
    \cup [op : {"role"}, acct : Account, ref : Roles]
    \cup [op : {"link"}, acct : Account, ref : Provider \X Sub]

RowType ==
    /\ role \in [Account -> Roles \cup {"none", "gone"}]
    /\ born \in [Account -> Invite \cup {"none", "setup", "admin"}]
    /\ totp \in [Account -> {"none", "pending", "on"}] /\ step \in [Account -> 0..(MaxClock + 1)]
    /\ codes \in [Account -> 0..RecoveryCodes] /\ resets \in [Account -> Nat]
SessionType ==
    /\ session \subseteq [id : Nat, acct : Account, since : Nat] /\ nextId \in Nat
    /\ cookie \in [Browser -> Nat] /\ pending \in [Browser -> Account \cup {NoOne}]
LinkType ==
    /\ invite \in [Invite -> {"none", "open", "expired", "spent"} \X Roles]
    /\ reset \in [Reset -> {<<"none", NoOne>>} \cup ({"open", "spent"} \X Account)]
SSOType ==
    /\ providers \subseteq Provider /\ linked \subseteq Provider \X Sub \X Account
    /\ ssoTx \in [Browser -> {"none", "login", "link"}]
CountType ==
    /\ taken \in [Account \X (1..(MaxClock + 1)) -> Nat]
    /\ clock \in 1..MaxClock /\ ops \in 0..MaxOps

TypeOK ==
    RowType /\ SessionType /\ LinkType /\ SSOType /\ CountType /\ req \in [Browser -> Request]

(* A fresh instance with its setup token, or one with one or two admins, A: *)
(* enrolled, with a code owed in every browser, or not; one of them linked *)
(* to a provider, or none.  Every browser holds a session.                 *)
StartsWith(A, on, L) ==
    /\ Cardinality(A) <= 2 /\ L \subseteq Provider \X Sub \X A
    /\ Cardinality(L) <= 1 /\ (on => A # {}) /\ (on /\ L # {} => Cardinality(A) = 1)
    /\ role = [a \in Account |-> IF a \in A THEN "admin" ELSE "none"]
    /\ born = [a \in Account |-> IF a \in A THEN "admin" ELSE "none"]
    /\ totp = [a \in Account |-> IF on /\ a \in A THEN "on" ELSE "none"]
    /\ codes = [a \in Account |-> IF on /\ a \in A THEN RecoveryCodes ELSE 0]
    /\ providers = {l[1] : l \in L} /\ linked = L
    /\ IF A = {} THEN session = {} /\ cookie = [b \in Browser |-> 0]
       ELSE \E own \in [Browser -> A], id \in [Browser -> 1..Cardinality(Browser)] :
               /\ \A b, c \in Browser : b # c => id[b] # id[c]
               /\ session = {[id |-> id[b], acct |-> own[b], since |-> 0] : b \in Browser}
               /\ cookie = id
    /\ \E a \in A \cup {NoOne} : (a = NoOne <=> ~on) /\ pending = [b \in Browser |-> a]

Init ==
    /\ \E A \in SUBSET Account, on \in BOOLEAN, L \in SUBSET (Provider \X Sub \X Account) :
          StartsWith(A, on, L)
    /\ nextId = Cardinality(Browser) + 1
    /\ step = [a \in Account |-> 0] /\ resets = [a \in Account |-> 0]
    /\ invite = [i \in Invite |-> <<"none", "viewer">>]
    /\ reset = [x \in Reset |-> <<"none", NoOne>>]
    /\ ssoTx = [b \in Browser |-> "none"]
    /\ req = [b \in Browser |-> Idle]
    /\ taken = [u \in Account \X (1..(MaxClock + 1)) |-> 0]
    /\ clock = 1 /\ ops = 0

-----------------------------------------------------------------------------
(* Who is asking.                                                          *)

(* A cookie counts while its row is neither revoked nor expired and its    *)
(* account stands.                                                         *)
GetSession(id) == {s \in session : s.id = id}
CurrentAccount(b) == {s.acct : s \in GetSession(cookie[b])}
RequireLogin(b, a) == a \in CurrentAccount(b)
RequireAdmin(b) == \E a \in CurrentAccount(b) : role[a] = "admin"

Arrives(b) == req[b] = Idle /\ ops < MaxOps /\ ops' = ops + 1
Goes(b, op, a, ref) == req' = [req EXCEPT ![b] = [op |-> op, acct |-> a, ref |-> ref]]
Done(b) == req' = [req EXCEPT ![b] = Idle]

Tick ==
    /\ clock < MaxClock
    /\ clock' = clock + 1
    /\ UNCHANGED <<rowVars, sessVars, linkVars, ssoVars, req, taken, ops>>

ExpireSession(s) ==
    /\ session' = session \ {s}
    /\ UNCHANGED <<rowVars, nextId, cookie, pending, linkVars, ssoVars, req, taken, clock, ops>>

ExpireLink ==
    /\ \/ \E i \in Invite : invite[i][1] = "open"
                /\ invite' = [invite EXCEPT ![i][1] = "expired"] /\ UNCHANGED reset
       \/ \E x \in Reset : reset[x][1] = "open"
                /\ reset' = [reset EXCEPT ![x][1] = "spent"] /\ UNCHANGED invite
    /\ UNCHANGED <<rowVars, sessVars, ssoVars, req, taken, clock, ops>>

-----------------------------------------------------------------------------
(* Creating and removing accounts.                                         *)

TeamFree == TeamRaces \/ \A b \in Browser : req[b].op \notin {"role", "remove", "accept", "consume"}
AdminsFree == TeamRaces \/ \A b \in Browser : req[b].op \notin {"role", "remove"}


SetupFree == \A b \in Browser : req[b].op # "setup"

(* setupMu is held from the count to the insert.                           *)
SetupSubmit(b) ==
    /\ Arrives(b)
    /\ SetupFree
    /\ Standing = {}
    /\ Goes(b, "setup", NoOne, "none")
    /\ UNCHANGED <<rowVars, sessVars, linkVars, ssoVars, taken, clock>>

CreateAccountRow(a, r, way) ==
    /\ role[a] = "none"
    /\ role' = [role EXCEPT ![a] = r]
    /\ born' = [born EXCEPT ![a] = way]
    /\ UNCHANGED <<totp, step, codes, resets>>

SetupCreate(b) ==
    /\ req[b].op = "setup"
    /\ \E a \in Account : CreateAccountRow(a, "admin", "setup")
    /\ Done(b)
    /\ UNCHANGED <<sessVars, linkVars, ssoVars, taken, clock, ops>>

CreateAccount(b) ==
    /\ Arrives(b) /\ RequireAdmin(b)
    /\ \E a \in Account, r \in Roles : CreateAccountRow(a, r, "admin")
    /\ UNCHANGED <<sessVars, linkVars, ssoVars, req, taken, clock>>

CreateInvite(i, r) == invite[i][1] = "none" /\ invite' = [invite EXCEPT ![i] = <<"open", r>>]

InviteAccount(b) ==
    /\ Arrives(b) /\ RequireAdmin(b)
    /\ \E i \in Invite, r \in Roles : CreateInvite(i, r)
    /\ UNCHANGED <<rowVars, sessVars, reset, ssoVars, req, taken, clock>>

LookupInvite(i) == invite[i][1] = "open"

(* The invite is looked up; the account is made; the invite is consumed,   *)
(* and the account unmade where another accept consumed it first.          *)
InviteAccept(b, i) ==
    /\ Arrives(b)
    /\ AdminsFree /\ LookupInvite(i)
    /\ Goes(b, "accept", NoOne, i)
    /\ UNCHANGED <<rowVars, sessVars, linkVars, ssoVars, taken, clock>>

AcceptCreate(b) ==
    /\ req[b].op = "accept"
    /\ \/ \E a \in Account :
             /\ CreateAccountRow(a, invite[req[b].ref][2], req[b].ref)
             /\ Goes(b, "consume", a, req[b].ref)
       \/ Done(b) /\ UNCHANGED rowVars      \* the username is taken
    /\ UNCHANGED <<sessVars, linkVars, ssoVars, taken, clock, ops>>

(* The row is consumed by whoever finds it unconsumed, also once expired.  *)
Consumes(i) == invite[i][1] # "spent"

Cascade(a) == {s \in session : s.acct # a}

(* Sessions, links, codes and resets go with the account.                  *)
DeleteAccount(a) ==
    /\ role' = [role EXCEPT ![a] = "gone"]
    /\ totp' = [totp EXCEPT ![a] = "none"] /\ codes' = [codes EXCEPT ![a] = 0]
    /\ session' = Cascade(a)
    /\ linked' = {l \in linked : l[3] # a}
    /\ reset' = [x \in Reset |-> IF reset[x][2] = a THEN <<"spent", a>> ELSE reset[x]]
    /\ UNCHANGED <<born, step, resets>>

ConsumeInvite(b) ==
    /\ req[b].op = "consume"
    /\ LET i == req[b].ref IN
       \/ /\ Consumes(i)
          /\ invite' = [invite EXCEPT ![i][1] = "spent"]
          /\ UNCHANGED <<rowVars, session, linked, reset>>
       \/ /\ ~Consumes(i)
          /\ DeleteAccount(req[b].acct)
          /\ UNCHANGED invite
    /\ Done(b)
    /\ UNCHANGED <<nextId, cookie, pending, providers, ssoTx, taken, clock, ops>>

(* A role change or a removal that takes an admin away first counts the    *)
(* admins, in a statement of its own.                                      *)
TakesAdmin(a, r) == role[a] = "admin" /\ r # "admin"
CountAdmins == Cardinality({x \in Account : role[x] = "admin"})
MayTake(a, r) == TakesAdmin(a, r) => CountAdmins > 1

SetAccountRole(b, a, r) ==
    /\ Arrives(b) /\ RequireAdmin(b) /\ TeamFree
    /\ a \in Standing /\ MayTake(a, r)
    /\ Goes(b, "role", a, r)
    /\ UNCHANGED <<rowVars, sessVars, linkVars, ssoVars, taken, clock>>

UpdateAccountRole(b) ==
    /\ req[b].op = "role"
    /\ role' = IF req[b].acct \in Standing THEN [role EXCEPT ![req[b].acct] = req[b].ref] ELSE role
    /\ Done(b)
    /\ UNCHANGED <<born, totp, step, codes, resets, sessVars, linkVars, ssoVars, taken, clock, ops>>

RemoveAccount(b, a) ==
    /\ Arrives(b) /\ RequireAdmin(b) /\ TeamFree
    /\ a \in Standing /\ a \notin CurrentAccount(b) /\ MayTake(a, "none")
    /\ Goes(b, "remove", a, "none")
    /\ UNCHANGED <<rowVars, sessVars, linkVars, ssoVars, taken, clock>>

RemoveDelete(b) ==
    /\ req[b].op = "remove"
    /\ DeleteAccount(req[b].acct)
    /\ Done(b)
    /\ UNCHANGED <<nextId, cookie, pending, invite, providers, ssoTx, taken, clock, ops>>

-----------------------------------------------------------------------------
(* Signing in.                                                             *)

(* An enrolled account owes its code; any other is signed in.              *)
OwesCode(b, a) ==
    IF totp[a] = "on"
    THEN /\ pending' = [pending EXCEPT ![b] = a]
         /\ UNCHANGED req
    ELSE /\ Goes(b, "signin", a, "none")
         /\ UNCHANGED pending

LoginSubmit(b, a) ==
    /\ Arrives(b)
    /\ a \in Standing
    /\ OwesCode(b, a)
    /\ UNCHANGED <<rowVars, session, nextId, cookie, linkVars, ssoVars, taken, clock>>

(* totp_last_step only ever climbs, and one request in two that carry the  *)
(* same code finds it low enough.                                          *)
FreshOrSameStep(a, s) == step[a] <= s
FreshStep(a, s) == step[a] < s

(* A code of the last, this or the next step; else a recovery code.        *)
VerifyTOTPStep == {clock - 1, clock, clock + 1} \ {0}

RedeemRecoveryCode(a) ==
    /\ codes[a] > 0
    /\ codes' = [codes EXCEPT ![a] = @ - 1]

LoginTOTP(b) ==
    /\ Arrives(b)
    /\ LET a == pending[b] IN
       /\ a \in Standing /\ totp[a] = "on"
       /\ \/ \E s \in VerifyTOTPStep :
                /\ FreshStep(a, s)
                /\ step' = [step EXCEPT ![a] = s]
                /\ taken' = [taken EXCEPT ![<<a, s>>] = @ + 1]
                /\ UNCHANGED codes
          \/ RedeemRecoveryCode(a) /\ UNCHANGED <<step, taken>>
       /\ pending' = [pending EXCEPT ![b] = NoOne]
       /\ Goes(b, "signin", a, "none")
    /\ UNCHANGED <<role, born, totp, resets, session, nextId, cookie, linkVars, ssoVars, clock>>

CreateSession(a) ==
    /\ session' = session \cup {[id |-> nextId, acct |-> a, since |-> resets[a]]}
    /\ nextId' = nextId + 1

(* The session's row is written first: a cookie without one is no session. *)
CompleteLogin(b) ==
    /\ req[b].op = "signin"
    /\ IF req[b].acct \in Standing
       THEN CreateSession(req[b].acct) /\ cookie' = [cookie EXCEPT ![b] = nextId]
       ELSE UNCHANGED <<session, cookie, nextId>>
    /\ Done(b)
    /\ UNCHANGED <<rowVars, pending, linkVars, ssoVars, taken, clock, ops>>

(* RevokeAllSessionsForAccount.                                            *)
RevokedButNewest(a) ==
    {s \in session : s.acct = a /\ \E t \in session : t.acct = a /\ t.id > s.id}
RevokedByReset(a) == {s \in session : s.acct = a}

(* Ending sessions: this one, one of the account's, all but this one, and  *)
(* the admin's two.                                                        *)
RevokeSession(gone) ==
    /\ session' = session \ gone
    /\ UNCHANGED <<rowVars, nextId, pending, linkVars, ssoVars, req, taken, clock>>

Logout(b) ==
    /\ Arrives(b)
    /\ RevokeSession({s \in session : s.id = cookie[b]})
    /\ cookie' = [cookie EXCEPT ![b] = 0]

RevokeOneSession(b) ==
    /\ Arrives(b)
    /\ \E s \in session : RequireLogin(b, s.acct) /\ RevokeSession({s})
    /\ UNCHANGED cookie

SignOutOtherSessions(b) ==
    /\ Arrives(b)
    /\ \E a \in CurrentAccount(b) : RevokeSession({s \in session : s.acct = a /\ s.id # cookie[b]})
    /\ UNCHANGED cookie

RevokeAsAdmin(b) ==
    /\ Arrives(b) /\ RequireAdmin(b)
    /\ \/ \E s \in session : RevokeSession({s})
       \/ \E a \in Standing : RevokeSession(RevokedByReset(a))
    /\ UNCHANGED cookie

-----------------------------------------------------------------------------
(* Passwords and the second factor.                                        *)

LookupReset(x) == reset[x][1] = "open"

(* A reset link: spent ones are swept, a new one is minted.                *)
CreatePasswordReset(x, a) == ~LookupReset(x) /\ reset' = [reset EXCEPT ![x] = <<"open", a>>]

ForgotSubmit(b, a) ==
    /\ Arrives(b)
    /\ a \in Standing
    /\ \E x \in Reset : CreatePasswordReset(x, a)
    /\ UNCHANGED <<rowVars, sessVars, invite, ssoVars, req, taken, clock>>

ResetSubmit(b, x) ==
    /\ Arrives(b)
    /\ LookupReset(x)
    /\ Goes(b, "reset", reset[x][2], x)
    /\ UNCHANGED <<rowVars, sessVars, linkVars, ssoVars, taken, clock>>

ResetUpdate(b) ==
    /\ req[b].op = "reset"
    /\ IF req[b].acct \in Standing
       THEN /\ resets' = [resets EXCEPT ![req[b].acct] = @ + 1]
            /\ Goes(b, "revokeAll", req[b].acct, req[b].ref)
       ELSE Done(b) /\ UNCHANGED resets
    /\ UNCHANGED <<role, born, totp, step, codes, sessVars, linkVars, ssoVars, taken, clock, ops>>

(* The link is consumed and every session of the account ends.             *)
ResetFinish(b) ==
    /\ req[b].op = "revokeAll"
    /\ reset' = [reset EXCEPT ![req[b].ref] = IF @[2] = req[b].acct THEN <<"spent", @[2]>> ELSE @]
    /\ session' = session \ RevokedByReset(req[b].acct)
    /\ Done(b)
    /\ UNCHANGED <<rowVars, nextId, cookie, pending, invite, ssoVars, taken, clock, ops>>

(* A changed password ends the account's other sessions, as long as the    *)
(* caller's own still resolves.                                            *)
ChangePassword(b) ==
    /\ Arrives(b)
    /\ \E a \in CurrentAccount(b) : Goes(b, "revokeOthers", a, "none")
    /\ UNCHANGED <<rowVars, sessVars, linkVars, ssoVars, taken, clock>>

RevokeOtherSessions(b) ==
    /\ req[b].op = "revokeOthers"
    /\ session' = IF CurrentAccount(b) = {} THEN session
                  ELSE {s \in session : s.acct = req[b].acct => s.id = cookie[b]}
    /\ Done(b)
    /\ UNCHANGED <<rowVars, nextId, cookie, pending, linkVars, ssoVars, taken, clock, ops>>

BeginTOTPEnroll(b) ==
    /\ Arrives(b)
    /\ \E a \in CurrentAccount(b) :
          totp[a] # "on" /\ totp' = [totp EXCEPT ![a] = "pending"]
    /\ UNCHANGED <<role, born, step, codes, resets, sessVars, linkVars, ssoVars, req, taken, clock>>

TotpConfirm(b) ==
    /\ Arrives(b)
    /\ \E a \in CurrentAccount(b) :
          /\ totp[a] # "none"
          /\ totp' = [totp EXCEPT ![a] = "on"]
          /\ Goes(b, "enrol", a, "none")
    /\ UNCHANGED <<role, born, step, codes, resets, sessVars, linkVars, ssoVars, taken, clock>>

StoreRecoveryCodes(b) ==
    /\ req[b].op = "enrol"
    /\ codes' = IF req[b].acct \in Standing THEN [codes EXCEPT ![req[b].acct] = RecoveryCodes] ELSE codes
    /\ Done(b)
    /\ UNCHANGED <<role, born, totp, step, resets, sessVars, linkVars, ssoVars, taken, clock, ops>>

ReenrollAccount(b) ==
    /\ Arrives(b) /\ RequireAdmin(b)
    /\ \E a \in Standing : totp' = [totp EXCEPT ![a] = "none"]
    /\ UNCHANGED <<role, born, step, codes, resets, sessVars, linkVars, ssoVars, req, taken, clock>>

-----------------------------------------------------------------------------
(* Single sign-on.                                                         *)

(* A provider is made, enabled again, disabled, or deleted with its links. *)
CreateSSOProvider(p) == p \notin providers /\ providers' = providers \cup {p} /\ UNCHANGED linked
UpdateSSOProvider(p) == p \in providers /\ providers' = providers \ {p} /\ UNCHANGED linked
DeleteSSOProvider(p) ==
    /\ p \in providers
    /\ providers' = providers \ {p}
    /\ linked' = {l \in linked : l[1] # p}

SSOProviderSet(b) ==
    /\ Arrives(b) /\ RequireAdmin(b)
    /\ \E p \in Provider : CreateSSOProvider(p) \/ UpdateSSOProvider(p) \/ DeleteSSOProvider(p)
    /\ UNCHANGED <<rowVars, sessVars, linkVars, ssoTx, req, taken, clock>>

SSOStart(b) ==
    /\ Arrives(b)
    /\ providers # {}
    /\ ssoTx' = [ssoTx EXCEPT ![b] = IF CurrentAccount(b) = {} THEN "login" ELSE "link"]
    /\ UNCHANGED <<rowVars, sessVars, linkVars, providers, linked, req, taken, clock>>

GetAccountBySSOIdentity(p, u) == {a \in Account : <<p, u, a>> \in linked}

(* A bound identity signs in, and still owes a code; no binding, nothing.  *)
SSOCallback(b) ==
    /\ Arrives(b)
    /\ ssoTx[b] = "login" /\ ssoTx' = [ssoTx EXCEPT ![b] = "none"]
    /\ \E p \in providers, u \in Sub :
          \/ \E a \in GetAccountBySSOIdentity(p, u) : OwesCode(b, a)
          \/ GetAccountBySSOIdentity(p, u) = {} /\ UNCHANGED <<pending, req>>
    /\ UNCHANGED <<rowVars, session, nextId, cookie, linkVars, providers, linked, taken, clock>>

SSOLinkCallback(b) ==
    /\ Arrives(b)
    /\ ssoTx[b] = "link" /\ ssoTx' = [ssoTx EXCEPT ![b] = "none"]
    /\ \E p \in providers, u \in Sub, a \in CurrentAccount(b) :
          IF GetAccountBySSOIdentity(p, u) # {} THEN UNCHANGED req
          ELSE Goes(b, "link", a, <<p, u>>)
    /\ UNCHANGED <<rowVars, sessVars, linkVars, providers, linked, taken, clock>>

(* One account per subject, one subject per provider and account: the      *)
(* table's unique constraints.                                             *)
InsertSSOIdentity(b) ==
    /\ req[b].op = "link"
    /\ LET p == req[b].ref[1]
           u == req[b].ref[2]
           a == req[b].acct
       IN linked' = IF a \in Standing /\ ~\E l \in linked : l[1] = p /\ (l[2] = u \/ l[3] = a)
                    THEN linked \cup {<<p, u, a>>} ELSE linked
    /\ Done(b)
    /\ UNCHANGED <<rowVars, sessVars, linkVars, providers, ssoTx, taken, clock, ops>>

SSOUnlink(b) ==
    /\ Arrives(b)
    /\ \E l \in linked : RequireLogin(b, l[3]) /\ linked' = linked \ {l}
    /\ UNCHANGED <<rowVars, sessVars, linkVars, providers, ssoTx, req, taken, clock>>

RemoveSSOBinding(b) ==
    /\ Arrives(b) /\ RequireAdmin(b)
    /\ \E l \in linked : linked' = linked \ {l}
    /\ UNCHANGED <<rowVars, sessVars, linkVars, providers, ssoTx, req, taken, clock>>

-----------------------------------------------------------------------------
Team(b) ==
    \/ SetupSubmit(b) \/ SetupCreate(b) \/ CreateAccount(b) \/ InviteAccount(b)
    \/ \E i \in Invite : InviteAccept(b, i)
    \/ AcceptCreate(b) \/ ConsumeInvite(b)
    \/ \E a \in Account, r \in Roles : SetAccountRole(b, a, r)
    \/ UpdateAccountRole(b)
    \/ \E a \in Account : RemoveAccount(b, a)
    \/ RemoveDelete(b)

SignIn(b) ==
    \/ \E a \in Account : LoginSubmit(b, a)
    \/ LoginTOTP(b) \/ CompleteLogin(b)
    \/ Logout(b) \/ RevokeOneSession(b) \/ SignOutOtherSessions(b) \/ RevokeAsAdmin(b)

Credentials(b) ==
    \/ \E a \in Account : ForgotSubmit(b, a)
    \/ \E x \in Reset : ResetSubmit(b, x)
    \/ ResetUpdate(b) \/ ResetFinish(b) \/ ChangePassword(b) \/ RevokeOtherSessions(b)
    \/ BeginTOTPEnroll(b) \/ TotpConfirm(b) \/ StoreRecoveryCodes(b) \/ ReenrollAccount(b)

SSO(b) ==
    \/ SSOProviderSet(b) \/ SSOStart(b) \/ SSOCallback(b) \/ SSOLinkCallback(b)
    \/ InsertSSOIdentity(b) \/ SSOUnlink(b) \/ RemoveSSOBinding(b)

Next ==
    \/ Tick \/ ExpireLink
    \/ \E s \in session : ExpireSession(s)
    \/ \E b \in Browser : Team(b) \/ SignIn(b) \/ Credentials(b) \/ SSO(b)

Spec == Init /\ [][Next]_vars

-----------------------------------------------------------------------------
(* The setup token makes one account and an invite makes one account,      *)
(* however many browsers submit at once; a second accept's account is      *)
(* taken back before its request ends.                                     *)
OneAccountPerGrant ==
    \A way \in Invite \cup {"setup"} :
        Cardinality({a \in Standing :
            born[a] = way /\ \A b \in Browser : ~(req[b].op = "consume" /\ req[b].acct = a)}) <= 1

(* A TOTP step opens one session of an account at most, also across two    *)
(* logins at once, an admin's strip and a re-enrolment.                    *)
StepOpensOnce == \A u \in DOMAIN taken : taken[u] <= 1

(* Once a password reset is over, no session older than it is left.        *)
ResetSignsOut ==
    \A s \in session :
        s.since < resets[s.acct] =>
            \E b \in Browser : req[b].op = "revokeAll" /\ req[b].acct = s.acct

(* A session or a binding to an identity goes with its account, also where  *)
(* the removal overlaps a sign-in or a link (ON DELETE CASCADE, and the      *)
(* foreign keys of the rows written after it).                               *)
NoRowOutlives ==
    /\ \A s \in session : s.acct \in Standing
    /\ \A l \in linked : l[3] \in Standing

(* What admits once admits once: the setup token, an invite, a TOTP step     *)
(* (createFirstAdmin, acceptInvite, the step's compare-and-set).             *)
GrantsSpentOnce == OneAccountPerGrant /\ StepOpensOnce
=============================================================================
