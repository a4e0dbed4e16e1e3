------------------------------ MODULE Sessions ------------------------------
(***************************************************************************)
(* How a reader stays signed in: refresh tokens that rotate, in the        *)
(* server's refresh_tokens table (service/identity, repository/identity/   *)
(* sessions.go), and the browser that holds the newest of them in local    *)
(* storage, which all its tabs share (shared/api/client.ts, features/      *)
(* identity/auth.tsx).                                                     *)
(*                                                                         *)
(* One reader, one browser.  A refresh locks the row of its token, then    *)
(* inserts the successor and revokes the row in one commit.  Revoking a    *)
(* family is one UPDATE under READ COMMITTED, and that is two steps: its   *)
(* snapshot fixes which rows it will look at, and it waits for a locked    *)
(* row and looks at it again before it writes.  An access token may expire *)
(* whenever it likes, so a tab may refresh at any time.                    *)
(***************************************************************************)
EXTENDS Integers, FiniteSets

CONSTANTS
    Token,          \* refresh tokens, in the order of issue
    None,           \* no token
    Caller,         \* requests in flight at the same time
    BrowserTab,
    TabOf,          \* [Caller -> BrowserTab]
    TTL,            \* how long a refresh token lives
    Retain,         \* how long the sweep keeps an expired row
    Faults,         \* what may go wrong in this instance
    MaxLogins, MaxErrors, MaxTicks                  \* bounds for TLC

ASSUME TokenAssumption  == Token \subseteq Nat /\ IsFiniteSet(Token) /\ None \notin Token
ASSUME TabAssumption    == TabOf \in [Caller -> BrowserTab]
ASSUME PolicyAssumption == TTL \in Nat \ {0} /\ Retain \in Nat
ASSUME FaultAssumption  == Faults \subseteq {"request", "reply", "server", "mount", "reload"}
ASSUME BoundAssumption  == MaxLogins \in Nat /\ MaxErrors \in Nat /\ MaxTicks \in Nat

VARIABLES
    now,
    tokens,     \* [Token -> row]: refresh_tokens
    storage,    \* the browser's refresh token, or None
    req,        \* [Caller -> a request in flight or Idle]
    leaving,    \* families that the reader has asked to end
    ended,      \* families for which a log-out has committed
    errors      \* how often something went wrong so far

sessionVars == <<now, tokens, storage, req, leaving, ended, errors>>

-----------------------------------------------------------------------------

NoRow == [state |-> "none", family |-> None, expires |-> 0, prev |-> None]
Row   == [state: {"live", "revoked", "deleted"}, family: Token, expires: Nat,
          prev: Token \cup {None}]

Idle    == [op |-> "none", step |-> "idle", token |-> None, at |-> 0,
            family |-> None, seen |-> {}]
Pending == [op: {"login", "refresh", "logout", "orphan"},
            step: {"sent", "locked", "revoke", "revoking", "answered", "refused"},
            token: Token \cup {None}, at: Nat, family: Token \cup {None},
            seen: SUBSET Token]

Issued        == {t \in Token : tokens[t].state # "none"}
LiveTokens(f) == {t \in Token : tokens[t].state = "live" /\ tokens[t].family = f}
Logins        == Cardinality({t \in Issued : tokens[t].prev = None})

(* The next token to be issued.                                            *)
IsNext(t) == t \notin Issued /\ \A u \in Token : u < t => u \in Issued

(* A rotation that is under way holds its token's row.                     *)
Locked(t) == \E c \in Caller : req[c].step = "locked" /\ req[c].token = t

(* Mutant: the row is read without a lock.                                 *)
MayReadUnlocked(t) == TRUE
MayRead(t) == ~Locked(t)

Fault(kind) ==
    /\ kind \in Faults
    /\ errors < MaxErrors
    /\ errors' = errors + 1

Put(c, r) == req' = [req EXCEPT ![c] = r]

-----------------------------------------------------------------------------
(* What the reader and the browser start.                                  *)

(* Logging in or registering opens a family of its own.                    *)
Login(c) ==
    /\ storage = None
    /\ Logins < MaxLogins
    /\ \A d \in Caller : TabOf[d] = TabOf[c] => req[d].op # "login"
    /\ req[c] = Idle
    /\ \E t \in Token :
          /\ IsNext(t)
          /\ tokens' = [tokens EXCEPT
                           ![t] = [state |-> "live", family |-> t,
                                   expires |-> now + TTL, prev |-> None]]
          /\ Put(c, [Idle EXCEPT !.op = "login", !.step = "answered", !.token = t])
    /\ UNCHANGED <<now, storage, leaving, ended, errors>>

(* Mutant: every 401 starts a refresh of its own.                          *)
NotCoalesced(c) == TRUE

(* Callers in one tab share the refresh that is in flight.                 *)
Coalesced(c) == \A d \in Caller : TabOf[d] = TabOf[c] => req[d].op # "refresh"

(* tryRefresh, on a 401.                                                   *)
StartRefresh(c) ==
    /\ req[c] = Idle
    /\ storage # None
    /\ Coalesced(c)
    /\ Put(c, [Idle EXCEPT !.op = "refresh", !.step = "sent", !.token = storage,
                           !.at = now])
    /\ UNCHANGED <<now, tokens, storage, leaving, ended, errors>>

(* The stored token's family is looked up; a family never changes, so the  *)
(* look-up is part of this step.                                           *)
StartLogout(c) ==
    /\ req[c] = Idle
    /\ storage # None
    /\ \A d \in Caller : TabOf[d] = TabOf[c] => req[d].op # "logout"
    /\ leaving' = leaving \cup {tokens[storage].family}
    /\ IF tokens[storage].state = "deleted"
       THEN Put(c, [Idle EXCEPT !.op = "logout", !.step = "refused"])
       ELSE Put(c, [Idle EXCEPT !.op = "logout", !.step = "revoke",
                                !.family = tokens[storage].family])
    /\ UNCHANGED <<now, tokens, storage, ended, errors>>

-----------------------------------------------------------------------------
(* The server.                                                             *)

Refuse(c) == Put(c, [Idle EXCEPT !.op = req[c].op, !.step = "refused"])

(* Rotate's SELECT ... FOR UPDATE and the checks on the row.               *)
RotateBegin(c) ==
    LET t == req[c].token
    IN  /\ req[c].step = "sent"
        /\ MayRead(t)
        /\ \/ /\ tokens[t].state = "deleted"
              /\ Refuse(c)
           \/ /\ tokens[t].state = "revoked"
              /\ Put(c, [req[c] EXCEPT !.step = "revoke", !.family = tokens[t].family])
           \/ /\ tokens[t].state = "live" /\ tokens[t].expires <= req[c].at
              /\ Refuse(c)
           \/ /\ tokens[t].state = "live" /\ tokens[t].expires > req[c].at
              /\ Put(c, [req[c] EXCEPT !.step = "locked"])
        /\ UNCHANGED <<now, tokens, storage, leaving, ended, errors>>

RotateCommit(c) ==
    LET t == req[c].token
    IN  /\ req[c].step = "locked"
        /\ \E s \in Token :
              /\ IsNext(s)
              /\ tokens' = [tokens EXCEPT
                            ![t].state = "revoked",
                            ![s] = [state |-> "live", family |-> tokens[t].family,
                                    expires |-> req[c].at + TTL, prev |-> t]]
              /\ Put(c, [Idle EXCEPT !.op = req[c].op, !.step = "answered",
                                     !.token = s])
        /\ UNCHANGED <<now, storage, leaving, ended, errors>>

(* revokeFamily: the UPDATE's snapshot, then its writes.                   *)
RevokeSnapshot(c) ==
    /\ req[c].step = "revoke"
    /\ Put(c, [req[c] EXCEPT !.step = "revoking", !.seen = LiveTokens(req[c].family)])
    /\ UNCHANGED <<now, tokens, storage, leaving, ended, errors>>

RevokeApply(c) ==
    /\ req[c].step = "revoking"
    /\ \A t \in req[c].seen : ~Locked(t)
    /\ tokens' = [t \in Token |->
                    IF t \in req[c].seen /\ tokens[t].state = "live"
                    THEN [tokens[t] EXCEPT !.state = "revoked"] ELSE tokens[t]]
    /\ ended' = IF req[c].op = "logout" THEN ended \cup {req[c].family} ELSE ended
    /\ Refuse(c)
    /\ UNCHANGED <<now, storage, leaving, errors>>

(* A transaction is rolled back, or the service fails after it committed   *)
(* (Refresh reads the user and signs a token after Rotate): a status 500.  *)
ServerFails(c) ==
    /\ req[c].step \in {"sent", "locked", "revoke", "revoking", "answered"}
    /\ req[c].op # "login"
    /\ Fault("server")
    /\ Refuse(c)
    /\ UNCHANGED <<now, tokens, storage, leaving, ended>>

-----------------------------------------------------------------------------
(* The browser hears of it.                                                *)

(* A refresh's answer overwrites what is stored, whatever has happened to  *)
(* it since; any other status clears it.  A log-out clears it always.      *)
(* Nobody hears the answer of an orphan.                                   *)
ReceiveReply(c) ==
    /\ req[c].step \in {"answered", "refused"}
    /\ storage' = IF req[c].op = "orphan"          THEN storage
                  ELSE IF req[c].step = "answered" THEN req[c].token
                  ELSE None
    /\ Put(c, Idle)
    /\ UNCHANGED <<now, tokens, leaving, ended, errors>>

(* fetch throws: only a log-out goes on.                                   *)
Disconnected(c) ==
    /\ storage' = IF req[c].op = "logout" THEN None ELSE storage
    /\ Put(c, Idle)
    /\ UNCHANGED <<now, tokens, leaving, ended>>

LoseRequest(c) == /\ \/ req[c].step = "sent"
                     \/ req[c].step = "revoke" /\ req[c].op = "logout"
                  /\ Fault("request")
                  /\ Disconnected(c)

LoseReply(c)   == /\ req[c].step \in {"answered", "refused"}
                  /\ Fault("reply")
                  /\ Disconnected(c)

(* The page is reloaded while its only request is a refresh: the server    *)
(* goes on with it, and the new page knows nothing of it.                  *)
Reload(c) ==
    /\ req[c].op = "refresh" /\ req[c].step \in {"sent", "locked", "revoke", "revoking"}
    /\ \A d \in Caller \ {c} : TabOf[d] = TabOf[c] => req[d] = Idle
    /\ Fault("reload")
    /\ Put(c, [req[c] EXCEPT !.op = "orphan"])
    /\ UNCHANGED <<now, tokens, storage, leaving, ended>>

(* A page that loads while /auth/me fails forgets both tokens.             *)
MountFails ==
    /\ storage # None
    /\ Fault("mount")
    /\ storage' = None
    /\ UNCHANGED <<now, tokens, req, leaving, ended>>

-----------------------------------------------------------------------------

Swept(t) == tokens[t].state \in {"live", "revoked"} /\ tokens[t].expires < now - Retain

(* SessionSweepJob.                                                        *)
Sweep ==
    /\ \E t \in Token : Swept(t)
    /\ \A t \in Token : Swept(t) => ~Locked(t)
    /\ tokens' = [t \in Token |->
                    IF Swept(t) THEN [tokens[t] EXCEPT !.state = "deleted"] ELSE tokens[t]]
    /\ UNCHANGED <<now, storage, req, leaving, ended, errors>>

TimePasses == /\ now < MaxTicks
              /\ now' = now + 1
              /\ UNCHANGED <<tokens, storage, req, leaving, ended, errors>>

SessionsInit ==
    /\ now = 0
    /\ tokens = [t \in Token |-> NoRow]
    /\ storage = None
    /\ req = [c \in Caller |-> Idle]
    /\ leaving = {}
    /\ ended = {}
    /\ errors = 0

SessionsNext ==
    \/ \E c \in Caller :
          \/ Login(c) \/ StartRefresh(c) \/ StartLogout(c)
          \/ RotateBegin(c) \/ RotateCommit(c)
          \/ RevokeSnapshot(c) \/ RevokeApply(c) \/ ServerFails(c)
          \/ ReceiveReply(c) \/ LoseRequest(c) \/ LoseReply(c) \/ Reload(c)
    \/ MountFails \/ Sweep \/ TimePasses

SessionsSpec == SessionsInit /\ [][SessionsNext]_sessionVars

-----------------------------------------------------------------------------
(* Rows and requests are well formed, and the browser never holds a token  *)
(* that the server did not commit (the answer follows the commit).         *)
SessionsTypeOK ==
    /\ now \in 0 .. MaxTicks
    /\ tokens \in [Token -> Row \cup {NoRow}]
    /\ storage \in Issued \cup {None}
    /\ req \in [Caller -> Pending \cup {Idle}]
    /\ leaving \subseteq Token
    /\ ended \subseteq leaving
    /\ errors \in 0 .. MaxErrors

(* A family is a chain, whatever tabs, retries and log-outs race: a token  *)
(* is exchanged for at most one successor, in its own family, and at most  *)
(* one token of a family is live, the newest one (Rotate's compare-and-    *)
(* swap on the locked row).                                                *)
FamilyIsChain ==
    /\ \A s, t \in Issued :
          tokens[s].prev = tokens[t].prev /\ tokens[s].prev # None => s = t
    /\ \A t \in Issued : tokens[t].prev # None =>
          /\ tokens[t].family = tokens[tokens[t].prev].family
          /\ tokens[tokens[t].prev].state # "live"
    /\ \A f \in Token : \A s, t \in LiveTokens(f) : s = t

(* As long as nothing goes wrong, a reader who has not logged out stays    *)
(* signed in until the token expires: the browser forgets its token only   *)
(* then.  This is what the silent refresh is for.  (After a log-out the    *)
(* late answer of a refresh can still sign the next log-in out.)           *)
StaysSignedIn ==
    [][storage # None /\ storage' = None /\ errors' = 0 =>
          leaving # {} \/ tokens[storage].expires <= now]_sessionVars

(* "Logout revokes the presented refresh token's whole family": once it    *)
(* has committed, no token of that family can be exchanged.                *)
LogoutEndsFamily == \A f \in ended : LiveTokens(f) = {}
=============================================================================
