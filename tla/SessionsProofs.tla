---------------------------- MODULE SessionsProofs ----------------------------
(***************************************************************************)
(* Families are chains, for every number of tabs, requests and tokens.     *)
(*                                                                         *)
(* The invariant Sound strengthens FamilyIsChain by what the requests in   *)
(* flight know: a rotation that holds its row finds it still live when it  *)
(* commits, because everything that would change the row waits for its     *)
(* lock, and no two rotations hold the same row.                           *)
(*                                                                         *)
(* In a single tab StaysSignedIn follows, for any number of requests that  *)
(* share it: as long as there was no trouble (Smooth), the stored token is *)
(* still exchangeable or the answer that replaces it is on its way.        *)
(***************************************************************************)
EXTENDS Sessions, TLAPS

RowsOK(rs) ==
    /\ rs \in [Token -> Row \cup {NoRow}]
    /\ \A t \in Token : rs[t].state # "none" =>
          /\ rs[rs[t].family].state # "none"
          /\ rs[t].prev # None => /\ rs[rs[t].prev].state \notin {"none", "live"}
                                  /\ rs[rs[t].prev].family = rs[t].family
    /\ \A s, t \in Token :
          rs[s].state # "none" /\ rs[t].state # "none" /\ rs[s].prev # None
          => (rs[s].prev = rs[t].prev => s = t)
    /\ \A s, t \in Token :
          rs[s].state = "live" /\ rs[t].state = "live"
          => (rs[s].family = rs[t].family => s = t)

RequestOK(x, rs, lv) ==
    /\ x \in Pending \cup {Idle}
    /\ x.step \in {"sent", "locked"} =>
          x.op \in {"refresh", "orphan"} /\ x.token \in Token /\ rs[x.token].state # "none"
    /\ x.step = "locked" => rs[x.token].state = "live"
    /\ x.step = "answered" => x.token \in Token /\ rs[x.token].state # "none"
    /\ x.step \in {"revoke", "revoking"} =>
          x.family \in Token /\ (x.op = "logout" => x.family \in lv)

Exclusive ==
    \A c, d \in Caller : req[c].step = "locked" /\ req[d].step = "locked"
                         => (req[c].token = req[d].token => c = d)

Sound ==
    /\ RowsOK(tokens)
    /\ req \in [Caller -> Pending \cup {Idle}]
    /\ \A c \in Caller : RequestOK(req[c], tokens, leaving)
    /\ Exclusive
    /\ storage \in Issued \cup {None}
    /\ leaving \subseteq Token /\ ended \subseteq leaving
    /\ now \in 0 .. MaxTicks /\ errors \in 0 .. MaxErrors

-----------------------------------------------------------------------------
(* Rows: a new family, a rotation, and rows that are revoked or deleted.   *)

LEMMA RowsAdd ==
    ASSUME NEW rs, RowsOK(rs), NEW t \in Token, rs[t].state = "none", NEW e \in Nat
    PROVE  RowsOK([rs EXCEPT ![t] = [state |-> "live", family |-> t,
                                     expires |-> e, prev |-> None]])
  BY TokenAssumption DEF RowsOK, Row, NoRow

LEMMA RowsRotate ==
    ASSUME NEW rs, RowsOK(rs), NEW t \in Token, rs[t].state = "live",
           NEW s \in Token, rs[s].state = "none", NEW e \in Nat
    PROVE  RowsOK([rs EXCEPT ![t].state = "revoked",
                             ![s] = [state |-> "live", family |-> rs[t].family,
                                     expires |-> e, prev |-> t]])
<1> DEFINE new == [rs EXCEPT ![t].state = "revoked",
                             ![s] = [state |-> "live", family |-> rs[t].family,
                                     expires |-> e, prev |-> t]]
<1>1. s # t /\ None \notin Token
  BY TokenAssumption
<1>2. rs[t] \in Row /\ rs[t].family \in Token
  BY DEF RowsOK, Row, NoRow
<1>3. /\ new[s] = [state |-> "live", family |-> rs[t].family, expires |-> e, prev |-> t]
      /\ new[t].state = "revoked" /\ new[t].family = rs[t].family
      /\ new[t].prev = rs[t].prev
      /\ \A u \in Token \ {s, t} : new[u] = rs[u]
  BY <1>1, <1>2 DEF RowsOK, Row
<1>4. new \in [Token -> Row \cup {NoRow}]
  BY <1>1, <1>2 DEF RowsOK, Row
<1> HIDE DEF new
<1>5. \A u \in Token : new[u].state # "none" =>
          /\ new[new[u].family].state # "none"
          /\ new[u].prev # None => /\ new[new[u].prev].state \notin {"none", "live"}
                                   /\ new[new[u].prev].family = new[u].family
  <2> SUFFICES ASSUME NEW u \in Token, new[u].state # "none"
               PROVE  /\ new[new[u].family].state # "none"
                      /\ new[u].prev # None =>
                            /\ new[new[u].prev].state \notin {"none", "live"}
                            /\ new[new[u].prev].family = new[u].family
    OBVIOUS
  <2>1. CASE u = s
    BY <2>1, <1>1, <1>2, <1>3 DEF RowsOK, Row, NoRow
  <2>2. CASE u # s
    <3>1. rs[u].state # "none" /\ new[u].family = rs[u].family /\ new[u].prev = rs[u].prev
      BY <2>2, <1>2, <1>3
    <3>2. rs[u].family \in Token /\ rs[u].prev \in Token \cup {None}
      BY <3>1 DEF RowsOK, Row, NoRow
    <3> QED BY <3>1, <3>2, <1>1, <1>2, <1>3 DEF RowsOK, Row, NoRow
  <2> QED BY <2>1, <2>2
<1>6. \A u \in Token : rs[u].state # "none" => rs[u].prev # t /\ rs[u].prev # s
  BY <1>1 DEF RowsOK
<1>7. \A u, v \in Token :
         new[u].state # "none" /\ new[v].state # "none" /\ new[u].prev # None
         => (new[u].prev = new[v].prev => u = v)
  BY <1>1, <1>2, <1>3, <1>6 DEF RowsOK
<1>8. \A u, v \in Token :
         new[u].state = "live" /\ new[v].state = "live"
         => (new[u].family = new[v].family => u = v)
  BY <1>1, <1>2, <1>3 DEF RowsOK
<1>9. RowsOK(new)
  BY <1>4, <1>5, <1>7, <1>8 DEF RowsOK
<1> QED BY <1>9 DEF new

LEMMA RowsRetire ==
    ASSUME NEW rs, RowsOK(rs), NEW new \in [Token -> Row \cup {NoRow}],
           \A t \in Token :
              \/ new[t] = rs[t]
              \/ /\ rs[t].state # "none" /\ new[t].state \in {"revoked", "deleted"}
                 /\ new[t].family = rs[t].family /\ new[t].prev = rs[t].prev
    PROVE  RowsOK(new)
<1>1. \A t \in Token : /\ new[t].family = rs[t].family /\ new[t].prev = rs[t].prev
                       /\ new[t].state = "none" <=> rs[t].state = "none"
                       /\ new[t].state = "live" => rs[t].state = "live"
  OBVIOUS
<1>2. \A t \in Token : rs[t].state # "none" =>
          rs[t].family \in Token /\ rs[t].prev \in Token \cup {None}
  BY DEF RowsOK, Row, NoRow
<1>3. \A t \in Token : new[t].state # "none" =>
          /\ new[new[t].family].state # "none"
          /\ new[t].prev # None => /\ new[new[t].prev].state \notin {"none", "live"}
                                   /\ new[new[t].prev].family = new[t].family
  <2> SUFFICES ASSUME NEW t \in Token, rs[t].state # "none"
               PROVE  /\ new[rs[t].family].state # "none"
                      /\ rs[t].prev # None =>
                            /\ new[rs[t].prev].state \notin {"none", "live"}
                            /\ new[rs[t].prev].family = rs[t].family
    BY <1>1
  <2>1. /\ rs[rs[t].family].state # "none"
        /\ rs[t].prev # None => /\ rs[rs[t].prev].state \notin {"none", "live"}
                                /\ rs[rs[t].prev].family = rs[t].family
    BY DEF RowsOK
  <2>2. rs[t].family \in Token /\ rs[t].prev \in Token \cup {None}
    BY <1>2
  <2> QED BY <1>1, <2>1, <2>2
<1>4. \A s, t \in Token :
         new[s].state # "none" /\ new[t].state # "none" /\ new[s].prev # None
         => (new[s].prev = new[t].prev => s = t)
  BY <1>1 DEF RowsOK
<1>5. \A s, t \in Token :
         new[s].state = "live" /\ new[t].state = "live"
         => (new[s].family = new[t].family => s = t)
  BY <1>1 DEF RowsOK
<1> QED BY <1>3, <1>4, <1>5 DEF RowsOK

(* A request stays in order while rows are added and others retire.        *)
LEMMA RequestStays ==
    ASSUME NEW x, NEW rs, NEW lv, RequestOK(x, rs, lv), NEW new, NEW lw,
           \A t \in Token : rs[t].state # "none" => new[t].state # "none",
           x.step = "locked" => new[x.token].state = "live",
           lv \subseteq lw
    PROVE  RequestOK(x, new, lw)
  BY DEF RequestOK

-----------------------------------------------------------------------------

LEMMA SoundInit == SessionsInit => Sound
<1> SUFFICES ASSUME SessionsInit PROVE Sound
  OBVIOUS
<1>1. \A t \in Token : tokens[t] = NoRow /\ tokens[t].state = "none"
  BY DEF SessionsInit, NoRow
<1>2. RowsOK(tokens)
  BY <1>1 DEF SessionsInit, RowsOK
<1>3. \A c \in Caller : req[c] = Idle /\ req[c].step = "idle"
  BY DEF SessionsInit, Idle
<1>4. \A c \in Caller : RequestOK(req[c], tokens, leaving)
  BY <1>3 DEF RequestOK
<1>5. /\ now \in 0 .. MaxTicks /\ errors \in 0 .. MaxErrors
      /\ req \in [Caller -> Pending \cup {Idle}]
  BY BoundAssumption DEF SessionsInit
<1>6. storage \in Issued \cup {None} /\ leaving \subseteq Token /\ ended \subseteq leaving
  BY DEF SessionsInit
<1> QED BY <1>2, <1>3, <1>4, <1>5, <1>6 DEF Sound, Exclusive

(* A step that replaces one request, which does not take a lock that is    *)
(* held, and only adds or retires rows that no rotation holds.             *)
LEMMA StepOfOne ==
    ASSUME Sound, NEW c \in Caller, NEW x,
           req' = [req EXCEPT ![c] = x], RequestOK(x, tokens', leaving'),
           RowsOK(tokens'),
           \A t \in Token : tokens[t].state # "none" => tokens'[t].state # "none",
           \A d \in Caller \ {c} :
              req[d].step = "locked" => /\ tokens'[req[d].token].state = "live"
                                        /\ x.step = "locked" => x.token # req[d].token,
           leaving \subseteq leaving', leaving' \subseteq Token, ended' \subseteq leaving',
           storage' \in Issued' \cup {None},
           now' \in 0 .. MaxTicks, errors' \in 0 .. MaxErrors
    PROVE  Sound'
<1>1. req' \in [Caller -> Pending \cup {Idle}] /\ req'[c] = x
      /\ \A d \in Caller \ {c} : req'[d] = req[d]
  BY DEF Sound, RequestOK
<1>2. \A d \in Caller : RequestOK(req'[d], tokens', leaving')
  <2> SUFFICES ASSUME NEW d \in Caller, d # c PROVE RequestOK(req[d], tokens', leaving')
    BY <1>1
  <2> QED BY RequestStays DEF Sound
<1>3. Exclusive'
  <2> SUFFICES ASSUME NEW d \in Caller, NEW e \in Caller,
                      req'[d].step = "locked", req'[e].step = "locked",
                      req'[d].token = req'[e].token
               PROVE  d = e
    BY DEF Exclusive
  <2> QED BY <1>1 DEF Sound, Exclusive
<1> QED BY <1>1, <1>2, <1>3 DEF Sound

(* The same for a step that leaves the rows alone.                         *)
LEMMA StepOfRequest ==
    ASSUME Sound, NEW c \in Caller, NEW x,
           req' = [req EXCEPT ![c] = x], RequestOK(x, tokens, leaving'),
           x.step = "locked" =>
              \A d \in Caller \ {c} : req[d].step = "locked" => x.token # req[d].token,
           leaving \subseteq leaving', leaving' \subseteq Token, UNCHANGED <<tokens, ended>>,
           storage' \in Issued \cup {None}, now' \in 0 .. MaxTicks, errors' \in 0 .. MaxErrors
    PROVE  Sound'
<1>1. Issued' = Issued
  BY DEF Issued
<1>2. \A d \in Caller : req[d].step = "locked" => tokens[req[d].token].state = "live"
  BY DEF Sound, RequestOK
<1> QED BY <1>1, <1>2, StepOfOne DEF Sound

-----------------------------------------------------------------------------

(* What every request and row is, from Sound.                              *)
LEMMA Facts ==
    ASSUME Sound, NEW c \in Caller
    PROVE  /\ req[c] \in Pending \cup {Idle} /\ RequestOK(req[c], tokens, leaving)
           /\ \A t \in Issued : /\ tokens[t] \in Row /\ tokens[t].family \in Token
                                /\ tokens[t].state # "none"
           /\ storage # None => storage \in Issued
           /\ Issued \subseteq Token
  BY DEF Sound, RequestOK, RowsOK, Issued, Row, NoRow

LEMMA IdleOK == \A rs, lv : RequestOK(Idle, rs, lv) /\ Idle.step = "idle"
  BY DEF RequestOK, Idle

(* The answer that clears the browser's token, or ends a log-out.          *)
Refusal(c) == [Idle EXCEPT !.op = req[c].op, !.step = "refused"]

LEMMA RefusalOK ==
    ASSUME NEW c, req[c].op \in {"login", "refresh", "logout", "orphan"}
    PROVE  \A rs, lv : RequestOK(Refusal(c), rs, lv) /\ Refusal(c).step = "refused"
  BY DEF RequestOK, Refusal, Idle, Pending

LEMMA BusyRequest ==
    ASSUME Sound, NEW c \in Caller, req[c].step # "idle"
    PROVE  req[c] \in Pending
  BY Facts DEF Idle

LEMMA LoginKeeps == ASSUME Sound, NEW c \in Caller, Login(c) PROVE Sound'
<1>1. PICK t \in Token :
         /\ IsNext(t)
         /\ tokens' = [tokens EXCEPT ![t] = [state |-> "live", family |-> t,
                                         expires |-> now + TTL, prev |-> None]]
         /\ req' = [req EXCEPT ![c] = [Idle EXCEPT !.op = "login", !.step = "answered",
                                                   !.token = t]]
  BY DEF Login, Put
<1> DEFINE x == [Idle EXCEPT !.op = "login", !.step = "answered", !.token = t]
<1>2. tokens[t].state = "none" /\ now + TTL \in Nat
  BY <1>1, PolicyAssumption, BoundAssumption DEF IsNext, Issued, Sound
<1>3. RowsOK(tokens')
  BY <1>1, <1>2, RowsAdd DEF Sound
<1>4. tokens'[t].state = "live" /\ \A u \in Token \ {t} : tokens'[u] = tokens[u]
  BY <1>1 DEF Sound, RowsOK
<1>5. RequestOK(x, tokens', leaving') /\ x.step = "answered"
  BY <1>4 DEF RequestOK, Pending, Idle
<1>6. \A d \in Caller : req[d].step = "locked" => tokens'[req[d].token].state = "live"
  BY <1>2, <1>4 DEF Sound, RequestOK
<1>7. storage' \in Issued' \cup {None}
  BY DEF Login
<1>8. UNCHANGED <<leaving, ended, now, errors>>
  BY DEF Login
<1> HIDE DEF x
<1>9. \A u \in Token : tokens[u].state # "none" => tokens'[u].state # "none"
  BY <1>2, <1>4
<1>10. req' = [req EXCEPT ![c] = x]
  BY <1>1 DEF x
<1>11. Issued \subseteq Issued'
  BY <1>9 DEF Issued
<1> QED BY <1>3, <1>5, <1>6, <1>8, <1>9, <1>10, <1>11, StepOfOne DEF Sound, Login

LEMMA RotateCommitKeeps == ASSUME Sound, NEW c \in Caller, RotateCommit(c) PROVE Sound'
<1> DEFINE t == req[c].token
<1>1. PICK s \in Token :
         /\ IsNext(s)
         /\ tokens' = [tokens EXCEPT
                       ![t].state = "revoked",
                       ![s] = [state |-> "live", family |-> tokens[t].family,
                               expires |-> req[c].at + TTL, prev |-> t]]
         /\ req' = [req EXCEPT ![c] = [Idle EXCEPT !.op = req[c].op, !.step = "answered",
                                                   !.token = s]]
  BY DEF RotateCommit, Put
<1> DEFINE x == [Idle EXCEPT !.op = req[c].op, !.step = "answered", !.token = s]
<1>2. req[c].step = "locked" /\ UNCHANGED <<now, storage, leaving, ended, errors>>
  BY DEF RotateCommit
<1>3. t \in Token /\ tokens[t].state = "live" /\ tokens[s].state = "none"
  BY <1>1, <1>2, Facts DEF RequestOK, IsNext, Issued
<1>4. req[c].at + TTL \in Nat
  BY <1>2, BusyRequest, PolicyAssumption DEF Pending
<1>5. RowsOK(tokens')
  BY <1>1, <1>3, <1>4, RowsRotate DEF Sound
<1>6. /\ tokens'[s].state = "live" /\ tokens'[t].state = "revoked"
      /\ \A u \in Token \ {s, t} : tokens'[u] = tokens[u]
  <2>1. s # t /\ tokens \in [Token -> Row \cup {NoRow}] /\ tokens[t] \in Row
    BY <1>3 DEF Sound, RowsOK, NoRow
  <2> HIDE DEF t
  <2> QED BY <2>1, <1>1, <1>3 DEF Row
<1>7. RequestOK(x, tokens', leaving') /\ x.step = "answered"
  BY <1>2, <1>6, BusyRequest DEF RequestOK, Pending, Idle
<1>8. \A u \in Token : tokens[u].state # "none" => tokens'[u].state # "none"
  BY <1>3, <1>6
<1>9. ASSUME NEW d \in Caller \ {c}, req[d].step = "locked"
      PROVE  tokens'[req[d].token].state = "live"
  <2>1. req[d].token \in Token /\ tokens[req[d].token].state = "live"
    BY <1>9, Facts DEF RequestOK
  <2>2. req[d].token # t
    BY <1>2, <1>9 DEF Sound, Exclusive
  <2> QED BY <2>1, <2>2, <1>3, <1>6
<1>10. req' = [req EXCEPT ![c] = x]
  BY <1>1
<1>11. storage' \in Issued' \cup {None}
  BY <1>2, <1>8 DEF Sound, Issued
<1> HIDE DEF x, t
<1> QED BY <1>2, <1>5, <1>7, <1>8, <1>9, <1>10, <1>11, StepOfOne DEF Sound

LEMMA RevokeApplyKeeps == ASSUME Sound, NEW c \in Caller, RevokeApply(c) PROVE Sound'
<1>1. /\ req[c].step = "revoking"
      /\ \A t \in req[c].seen : ~Locked(t)
      /\ tokens' = [t \in Token |->
                    IF t \in req[c].seen /\ tokens[t].state = "live"
                    THEN [tokens[t] EXCEPT !.state = "revoked"] ELSE tokens[t]]
      /\ req' = [req EXCEPT ![c] = Refusal(c)]
      /\ UNCHANGED <<now, storage, leaving, errors>>
  BY DEF RevokeApply, Refuse, Put, Refusal
<1>2. req[c] \in Pending /\ req[c].op \in {"login", "refresh", "logout", "orphan"}
  BY <1>1, BusyRequest DEF Pending
<1>3. \A t \in Token :
         \/ tokens'[t] = tokens[t]
         \/ /\ tokens[t].state # "none" /\ tokens'[t].state = "revoked" /\ tokens'[t] \in Row
            /\ tokens'[t].family = tokens[t].family /\ tokens'[t].prev = tokens[t].prev
            /\ t \in req[c].seen
  <2> SUFFICES ASSUME NEW t \in Token, t \in req[c].seen, tokens[t].state = "live"
               PROVE  /\ tokens[t].state # "none" /\ tokens'[t].state = "revoked"
                      /\ tokens'[t] \in Row
                      /\ tokens'[t].family = tokens[t].family /\ tokens'[t].prev = tokens[t].prev
    BY <1>1
  <2>1. tokens[t] \in Row
    BY DEF Sound, RowsOK, NoRow
  <2>2. tokens'[t] = [tokens[t] EXCEPT !.state = "revoked"]
    BY <1>1
  <2> QED BY <2>1, <2>2 DEF Row
<1>4. tokens' \in [Token -> Row \cup {NoRow}]
  <2>1. \A t \in Token : tokens'[t] \in Row \cup {NoRow}
    BY <1>3 DEF Sound, RowsOK
  <2> QED BY <1>1, <2>1
<1>5. RowsOK(tokens')
  BY <1>3, <1>4, RowsRetire DEF Sound
<1>6. \A t \in Token : tokens[t].state # "none" => tokens'[t].state # "none"
  BY <1>3
<1>7. ASSUME NEW d \in Caller, req[d].step = "locked"
      PROVE  tokens'[req[d].token].state = "live"
  <2>1. req[d].token \in Token /\ tokens[req[d].token].state = "live"
    BY <1>7, Facts DEF RequestOK
  <2>2. req[d].token \notin req[c].seen
    BY <1>1, <1>7 DEF Locked
  <2> QED BY <2>1, <2>2, <1>3
<1>8. ended' \subseteq leaving'
  BY <1>1, Facts DEF RevokeApply, RequestOK, Sound
<1>9. storage' \in Issued' \cup {None}
  BY <1>1, <1>6 DEF Sound, Issued
<1>10. RequestOK(Refusal(c), tokens', leaving') /\ Refusal(c).step = "refused"
  BY <1>2, RefusalOK
<1>11. leaving \subseteq leaving' /\ leaving' \subseteq Token
       /\ now' \in 0 .. MaxTicks /\ errors' \in 0 .. MaxErrors
  BY <1>1 DEF Sound
<1> QED BY <1>1, <1>5, <1>6, <1>7, <1>8, <1>9, <1>10, <1>11, StepOfOne

LEMMA SweepKeeps == ASSUME Sound, Sweep PROVE Sound'
<1>1. /\ \A t \in Token : Swept(t) => ~Locked(t)
      /\ tokens' = [t \in Token |-> IF Swept(t) THEN [tokens[t] EXCEPT !.state = "deleted"]
                                  ELSE tokens[t]]
      /\ UNCHANGED <<now, storage, req, leaving, ended, errors>>
  BY DEF Sweep
<1>2. \A t \in Token :
         \/ tokens'[t] = tokens[t]
         \/ /\ tokens[t].state # "none" /\ tokens'[t].state = "deleted" /\ tokens'[t] \in Row
            /\ tokens'[t].family = tokens[t].family /\ tokens'[t].prev = tokens[t].prev
            /\ Swept(t)
  <2> SUFFICES ASSUME NEW t \in Token, Swept(t)
               PROVE  /\ tokens[t].state # "none" /\ tokens'[t].state = "deleted"
                      /\ tokens'[t] \in Row
                      /\ tokens'[t].family = tokens[t].family /\ tokens'[t].prev = tokens[t].prev
    BY <1>1
  <2>1. tokens[t] \in Row /\ tokens[t].state # "none"
    BY DEF Sound, RowsOK, NoRow, Swept
  <2>2. tokens'[t] = [tokens[t] EXCEPT !.state = "deleted"]
    BY <1>1
  <2> QED BY <2>1, <2>2 DEF Row
<1>3. tokens' \in [Token -> Row \cup {NoRow}]
  <2>1. \A t \in Token : tokens'[t] \in Row \cup {NoRow}
    BY <1>2 DEF Sound, RowsOK
  <2> QED BY <1>1, <2>1
<1>4. RowsOK(tokens')
  BY <1>2, <1>3, RowsRetire DEF Sound
<1>5. \A t \in Token : tokens[t].state # "none" => tokens'[t].state # "none"
  BY <1>2
<1>6. ASSUME NEW d \in Caller PROVE RequestOK(req[d], tokens', leaving)
  <2>1. req[d].step = "locked" => tokens'[req[d].token].state = "live"
    BY <1>1, <1>2, Facts DEF RequestOK, Locked
  <2> QED BY <2>1, <1>5, RequestStays DEF Sound
<1>7. storage' \in Issued' \cup {None}
  BY <1>1, <1>5 DEF Sound, Issued
<1> QED BY <1>1, <1>4, <1>6, <1>7 DEF Sound, Exclusive

LEMMA RotateBeginKeeps == ASSUME Sound, NEW c \in Caller, RotateBegin(c) PROVE Sound'
<1> DEFINE t == req[c].token
<1>1. /\ req[c].step = "sent" /\ ~Locked(t)
      /\ UNCHANGED <<now, tokens, storage, leaving, ended, errors>>
  BY DEF RotateBegin, MayRead
<1>2. /\ req[c] \in Pending /\ req[c].op \in {"refresh", "orphan"} /\ t \in Token /\ t \in Issued
      /\ tokens[t].family \in Token
  BY <1>1, BusyRequest, Facts DEF RequestOK, Issued
<1>3. /\ leaving' = leaving /\ leaving \subseteq Token
      /\ storage' \in Issued \cup {None}
      /\ now' \in 0 .. MaxTicks /\ errors' \in 0 .. MaxErrors
  BY <1>1 DEF Sound
<1>4. CASE Refuse(c)
  <2>1. req' = [req EXCEPT ![c] = Refusal(c)]
    BY <1>4 DEF Refuse, Put, Refusal
  <2>2. RequestOK(Refusal(c), tokens, leaving') /\ Refusal(c).step = "refused"
    BY <1>2, RefusalOK
  <2> QED BY <2>1, <2>2, <1>1, <1>3, StepOfRequest
<1>5. CASE Put(c, [req[c] EXCEPT !.step = "revoke", !.family = tokens[t].family])
  <2> DEFINE x == [req[c] EXCEPT !.step = "revoke", !.family = tokens[t].family]
  <2>1. RequestOK(x, tokens, leaving') /\ x.step = "revoke"
    BY <1>2 DEF RequestOK, Pending
  <2>2. req' = [req EXCEPT ![c] = x]
    BY <1>5 DEF Put
  <2> HIDE DEF x
  <2> QED BY <2>1, <2>2, <1>1, <1>3, StepOfRequest
<1>6. CASE tokens[t].state = "live" /\ Put(c, [req[c] EXCEPT !.step = "locked"])
  <2> DEFINE x == [req[c] EXCEPT !.step = "locked"]
  <2>1. RequestOK(x, tokens, leaving') /\ x.token = t
    BY <1>2, <1>6 DEF RequestOK, Pending
  <2>2. req' = [req EXCEPT ![c] = x]
    BY <1>6 DEF Put
  <2>3. \A d \in Caller \ {c} : req[d].step = "locked" => x.token # req[d].token
    BY <1>1, <2>1 DEF Locked
  <2> HIDE DEF x
  <2> QED BY <2>1, <2>2, <2>3, <1>1, <1>3, StepOfRequest
<1> QED BY <1>4, <1>5, <1>6 DEF RotateBegin

LEMMA StartKeeps ==
    ASSUME Sound, NEW c \in Caller, StartRefresh(c) \/ StartLogout(c)
    PROVE  Sound'
<1>1. /\ storage \in Issued /\ tokens[storage].state # "none" /\ tokens[storage].family \in Token
      /\ storage \in Token
  BY Facts DEF StartRefresh, StartLogout
<1>2. now \in Nat /\ UNCHANGED <<now, tokens, storage, ended, errors>>
  BY BoundAssumption DEF Sound, StartRefresh, StartLogout
<1>3. /\ storage' \in Issued \cup {None}
      /\ now' \in 0 .. MaxTicks /\ errors' \in 0 .. MaxErrors
  BY <1>2 DEF Sound
<1>4. leaving \subseteq leaving' /\ leaving' \subseteq Token
  BY <1>1 DEF StartRefresh, StartLogout, Sound
<1>5. CASE StartRefresh(c)
  <2> DEFINE x == [Idle EXCEPT !.op = "refresh", !.step = "sent", !.token = storage,
                               !.at = now]
  <2>1. RequestOK(x, tokens, leaving') /\ x.step = "sent"
    BY <1>1, <1>2 DEF RequestOK, Pending, Idle
  <2>2. req' = [req EXCEPT ![c] = x]
    BY <1>5 DEF StartRefresh, Put
  <2> HIDE DEF x
  <2> QED BY <2>1, <2>2, <1>2, <1>3, <1>4, StepOfRequest
<1>6. CASE Put(c, [Idle EXCEPT !.op = "logout", !.step = "refused"])
  <2> DEFINE x == [Idle EXCEPT !.op = "logout", !.step = "refused"]
  <2>1. RequestOK(x, tokens, leaving') /\ x.step = "refused"
    BY DEF RequestOK, Pending, Idle
  <2>2. req' = [req EXCEPT ![c] = x]
    BY <1>6 DEF Put
  <2> HIDE DEF x
  <2> QED BY <2>1, <2>2, <1>2, <1>3, <1>4, StepOfRequest
<1>7. CASE /\ leaving' = leaving \cup {tokens[storage].family}
           /\ Put(c, [Idle EXCEPT !.op = "logout", !.step = "revoke",
                                  !.family = tokens[storage].family])
  <2> DEFINE x == [Idle EXCEPT !.op = "logout", !.step = "revoke",
                               !.family = tokens[storage].family]
  <2>1. RequestOK(x, tokens, leaving') /\ x.step = "revoke"
    BY <1>1, <1>7 DEF RequestOK, Pending, Idle
  <2>2. req' = [req EXCEPT ![c] = x]
    BY <1>7 DEF Put
  <2> HIDE DEF x
  <2> QED BY <2>1, <2>2, <1>2, <1>3, <1>4, StepOfRequest
<1> QED BY <1>5, <1>6, <1>7 DEF StartLogout

LEMMA RevokeSnapshotKeeps ==
    ASSUME Sound, NEW c \in Caller, RevokeSnapshot(c) PROVE Sound'
<1> DEFINE x == [req[c] EXCEPT !.step = "revoking", !.seen = LiveTokens(req[c].family)]
<1>1. /\ req[c].step = "revoke" /\ req' = [req EXCEPT ![c] = x]
      /\ UNCHANGED <<now, tokens, storage, leaving, ended, errors>>
  BY DEF RevokeSnapshot, Put
<1>2. req[c] \in Pending /\ RequestOK(req[c], tokens, leaving)
  BY <1>1, BusyRequest, Facts
<1>3. RequestOK(x, tokens, leaving') /\ x.step = "revoking"
  BY <1>1, <1>2 DEF RequestOK, Pending, LiveTokens
<1>4. /\ storage' \in Issued \cup {None} /\ leaving' \subseteq Token
      /\ now' \in 0 .. MaxTicks /\ errors' \in 0 .. MaxErrors
  BY <1>1 DEF Sound
<1> HIDE DEF x
<1> QED BY <1>1, <1>3, <1>4, StepOfRequest

(* A fault is counted.                                                     *)
LEMMA FaultCounted ==
    ASSUME Sound, NEW kind, Fault(kind) PROVE errors' \in 0 .. MaxErrors
  BY BoundAssumption DEF Sound, Fault

LEMMA ServerFailsKeeps == ASSUME Sound, NEW c \in Caller, ServerFails(c) PROVE Sound'
<1>1. /\ req[c].step # "idle" /\ req' = [req EXCEPT ![c] = Refusal(c)]
      /\ UNCHANGED <<now, tokens, storage, leaving, ended>> /\ errors' \in 0 .. MaxErrors
  BY FaultCounted DEF ServerFails, Refuse, Put, Refusal
<1>2. RequestOK(Refusal(c), tokens, leaving') /\ Refusal(c).step = "refused"
  BY <1>1, BusyRequest, RefusalOK DEF Pending
<1>3. /\ storage' \in Issued \cup {None} /\ leaving' \subseteq Token
      /\ now' \in 0 .. MaxTicks
  BY <1>1 DEF Sound
<1> QED BY <1>1, <1>2, <1>3, StepOfRequest

LEMMA ReplyKeeps ==
    ASSUME Sound, NEW c \in Caller,
           ReceiveReply(c) \/ LoseRequest(c) \/ LoseReply(c)
    PROVE  Sound'
<1>1. /\ req' = [req EXCEPT ![c] = Idle]
      /\ UNCHANGED <<now, tokens, leaving, ended>>
  BY DEF ReceiveReply, LoseRequest, LoseReply, Disconnected, Put
<1>2. errors' \in 0 .. MaxErrors
  BY FaultCounted DEF ReceiveReply, LoseRequest, LoseReply, Sound
<1>3. storage' \in Issued \cup {None}
  BY Facts DEF ReceiveReply, LoseRequest, LoseReply, Disconnected, Sound, RequestOK, Issued
<1>4. leaving' \subseteq Token /\ now' \in 0 .. MaxTicks
  BY <1>1 DEF Sound
<1>5. RequestOK(Idle, tokens, leaving') /\ Idle.step = "idle"
  BY IdleOK
<1> QED BY <1>1, <1>2, <1>3, <1>4, <1>5, StepOfRequest

LEMMA ReloadKeeps == ASSUME Sound, NEW c \in Caller, Reload(c) PROVE Sound'
<1> DEFINE x == [req[c] EXCEPT !.op = "orphan"]
<1>1. /\ req[c].step # "idle" /\ req[c].op = "refresh" /\ req' = [req EXCEPT ![c] = x]
      /\ UNCHANGED <<now, tokens, storage, leaving, ended>> /\ errors' \in 0 .. MaxErrors
  BY FaultCounted DEF Reload, Put
<1>2. req[c] \in Pending /\ RequestOK(req[c], tokens, leaving)
  BY <1>1, BusyRequest, Facts
<1>3. RequestOK(x, tokens, leaving') /\ x.step = req[c].step /\ x.token = req[c].token
  BY <1>1, <1>2 DEF RequestOK, Pending
<1>4. /\ storage' \in Issued \cup {None} /\ leaving' \subseteq Token
      /\ now' \in 0 .. MaxTicks
  BY <1>1 DEF Sound
<1>5. x.step = "locked" =>
         \A d \in Caller \ {c} : req[d].step = "locked" => x.token # req[d].token
  BY <1>3 DEF Sound, Exclusive
<1> HIDE DEF x
<1> QED BY <1>1, <1>3, <1>4, <1>5, StepOfRequest

LEMMA SoundNext == ASSUME Sound, [SessionsNext]_sessionVars PROVE Sound'
<1>1. CASE MountFails
  <2>1. UNCHANGED <<now, tokens, req, leaving, ended>> /\ storage' = None
    BY <1>1 DEF MountFails
  <2>2. errors' \in 0 .. MaxErrors
    BY <1>1, FaultCounted DEF MountFails
  <2> QED BY <2>1, <2>2 DEF Sound, Exclusive, Issued
<1>2. CASE TimePasses
  <2>1. UNCHANGED <<tokens, storage, req, leaving, ended, errors>> /\ now' \in 0 .. MaxTicks
    BY <1>2, BoundAssumption DEF TimePasses, Sound
  <2> QED BY <2>1 DEF Sound, Exclusive, Issued
<1>3. CASE UNCHANGED sessionVars
  BY <1>3 DEF sessionVars, Sound, Exclusive, Issued
<1>4. CASE Sweep
  BY <1>4, SweepKeeps
<1>5. ASSUME NEW c \in Caller,
             \/ Login(c) \/ StartRefresh(c) \/ StartLogout(c)
             \/ RotateBegin(c) \/ RotateCommit(c)
             \/ RevokeSnapshot(c) \/ RevokeApply(c) \/ ServerFails(c)
             \/ ReceiveReply(c) \/ LoseRequest(c) \/ LoseReply(c) \/ Reload(c)
      PROVE  Sound'
  BY <1>5, LoginKeeps, StartKeeps, RotateBeginKeeps, RotateCommitKeeps,
     RevokeSnapshotKeeps, RevokeApplyKeeps, ServerFailsKeeps, ReplyKeeps,
     ReloadKeeps
<1> QED BY <1>1, <1>2, <1>3, <1>4, <1>5 DEF SessionsNext

THEOREM SoundCorrect == SessionsSpec => []Sound
<1>1. SessionsInit => Sound
  BY SoundInit
<1>2. Sound /\ [SessionsNext]_sessionVars => Sound'
  BY SoundNext
<1> QED BY <1>1, <1>2, PTL DEF SessionsSpec

(* Every state is well typed, and the browser only ever holds a token that *)
(* the server committed, whatever faults occur and whenever they do.       *)
THEOREM SessionsTypeCorrect == SessionsSpec => []SessionsTypeOK
<1>1. Sound => SessionsTypeOK
  BY DEF Sound, SessionsTypeOK, RowsOK
<1> QED BY <1>1, SoundCorrect, PTL

(* A refresh token is exchanged for at most one successor and a family has *)
(* at most one live token, for every number of tabs and requests that      *)
(* refresh, log out, are retried, lost or cut off at the same time.        *)
THEOREM FamilyIsChainCorrect == SessionsSpec => []FamilyIsChain
<1>1. Sound => FamilyIsChain
  <2> SUFFICES ASSUME Sound PROVE FamilyIsChain
    OBVIOUS
  <2>1. \A s, t \in Issued : tokens[s].prev = tokens[t].prev /\ tokens[s].prev # None => s = t
    BY DEF Sound, RowsOK, Issued
  <2>2. \A t \in Issued : tokens[t].prev # None =>
           /\ tokens[t].family = tokens[tokens[t].prev].family
           /\ tokens[tokens[t].prev].state # "live"
    BY DEF Sound, RowsOK, Issued
  <2>3. \A f \in Token : \A s, t \in LiveTokens(f) : s = t
    BY DEF Sound, RowsOK, LiveTokens
  <2> QED BY <2>1, <2>2, <2>3 DEF FamilyIsChain
<1> QED BY <1>1, SoundCorrect, PTL

-----------------------------------------------------------------------------
(* Staying signed in, in a single tab.  While nothing goes wrong and       *)
(* nobody logs out, the stored token is never used up behind the browser's *)
(* back: only the one refresh in flight rotates it, and its answer is the  *)
(* successor.  Two tabs could sign each other out, because their refreshes *)
(* are not coalesced.                                                      *)
SingleTab == \A c, d \in Caller : TabOf[c] = TabOf[d]

TroubleFree == errors = 0 /\ leaving = {}

Usable(t) == tokens[t].state \in {"live", "deleted"}

Undisturbed(x) ==
    /\ x.op \in {"none", "login", "refresh"}
    /\ x.op = "login" => x.step = "answered" /\ storage = None
    /\ x.op = "refresh" =>
          /\ storage # None
          /\ \/ x.step \in {"sent", "locked"} /\ x.token = storage /\ x.at <= now
             \/ x.step = "answered"
             \/ x.step = "refused" /\ tokens[storage].expires <= now
    /\ x.step = "answered" => Usable(x.token)

Refreshed == \E c \in Caller : req[c].op = "refresh" /\ req[c].step = "answered"

Smooth ==
    /\ \A c \in Caller : Undisturbed(req[c])
    /\ \A c, d \in Caller : req[c].op # "none" /\ req[c].op = req[d].op => c = d
    /\ storage # None /\ ~Refreshed => Usable(storage)

SignedIn ==
    /\ \A t \in Token : tokens[t].state = "deleted" => tokens[t].expires <= now
    /\ TroubleFree => Smooth

LEMMA SignedInInit == SessionsInit => SignedIn
  BY DEF SessionsInit, SignedIn, Smooth, Undisturbed, Idle, NoRow

(* A swept row is past its expiry, and stays so.                           *)
LEMMA DeletedIsPast ==
    ASSUME Sound, SignedIn, [SessionsNext]_sessionVars
    PROVE  \A t \in Token : tokens'[t].state = "deleted" => tokens'[t].expires <= now'
<1> USE DEF Sound, RowsOK, Row, NoRow
<1>1. now \in Nat /\ now' \in Nat /\ now <= now'
  <2>1. now \in Nat
    <3>1. now \in 0 .. MaxTicks
      OBVIOUS
    <3> QED BY ONLY <3>1, BoundAssumption
  <2>2. now' = now \/ now' = now + 1
    BY DEF SessionsNext, TimePasses, Login, StartRefresh, StartLogout, RotateBegin, RotateCommit,
       RevokeSnapshot, RevokeApply, ServerFails, ReceiveReply, LoseRequest, LoseReply,
       Disconnected, Reload, MountFails, Sweep, sessionVars
  <2> QED BY ONLY <2>1, <2>2
<1>2. \A t \in Token : tokens[t].expires \in Nat
  OBVIOUS
<1>3. CASE UNCHANGED tokens
  BY <1>1, <1>2, <1>3 DEF SignedIn
<1>4. CASE Sweep
  BY <1>1, <1>2, <1>4, PolicyAssumption DEF Sweep, Swept, SignedIn
<1>5. ASSUME NEW c \in Caller, Login(c) \/ RotateCommit(c) \/ RevokeApply(c)
      PROVE  \A t \in Token : tokens'[t].state = "deleted" =>
                tokens[t].state = "deleted" /\ tokens'[t].expires = tokens[t].expires
  <2>1. CASE Login(c)
    BY <2>1 DEF Login
  <2>2. CASE RotateCommit(c)
    BY <2>2 DEF RotateCommit
  <2>3. CASE RevokeApply(c)
    BY <2>3 DEF RevokeApply
  <2> QED BY <1>5, <2>1, <2>2, <2>3
<1>6. \/ UNCHANGED tokens \/ Sweep
      \/ \E c \in Caller : Login(c) \/ RotateCommit(c) \/ RevokeApply(c)
  BY DEF SessionsNext, TimePasses, StartRefresh, StartLogout, RotateBegin, RevokeSnapshot,
     ServerFails, ReceiveReply, LoseRequest, LoseReply, Disconnected, Reload,
     MountFails, sessionVars
<1> QED BY <1>1, <1>2, <1>3, <1>4, <1>5, <1>6 DEF SignedIn

(* Trouble does not go away.                                               *)
LEMMA TroubleStays ==
    ASSUME Sound, [SessionsNext]_sessionVars, TroubleFree'
    PROVE  /\ TroubleFree
           /\ ~MountFails
           /\ \A c \in Caller : ~ServerFails(c) /\ ~LoseRequest(c) /\ ~LoseReply(c)
                                /\ ~Reload(c) /\ ~StartLogout(c)
<1>1. errors \in Nat /\ errors' = 0 /\ leaving' = {}
  BY BoundAssumption DEF Sound, TroubleFree
<1>2. \A kind : ~Fault(kind)
  BY <1>1 DEF Fault
<1>3. ~MountFails /\ \A c \in Caller : ~ServerFails(c) /\ ~LoseRequest(c)
                                       /\ ~LoseReply(c) /\ ~Reload(c)
  BY <1>2 DEF MountFails, ServerFails, LoseRequest, LoseReply, Reload
<1>4. \A c \in Caller : ~StartLogout(c)
  BY <1>1 DEF StartLogout
<1>5. UNCHANGED <<errors, leaving>>
  BY <1>3, <1>4 DEF SessionsNext, TimePasses, Login, StartRefresh, RotateBegin, RotateCommit,
     RevokeSnapshot, RevokeApply, ReceiveReply, Sweep, sessionVars
<1> QED BY <1>1, <1>3, <1>4, <1>5 DEF TroubleFree

(* Only c's request moves, and the browser's token stays.                  *)
OnlyMoves(c, x) == req' = [req EXCEPT ![c] = x] /\ UNCHANGED <<now, storage>>

LEMMA SmoothLogin ==
    ASSUME Sound, Smooth, SingleTab, NEW c \in Caller, Login(c)
    PROVE  Smooth'
<1>1. PICK t \in Token :
         /\ IsNext(t)
         /\ tokens' = [tokens EXCEPT ![t] = [state |-> "live", family |-> t,
                                         expires |-> now + TTL, prev |-> None]]
         /\ Put(c, [Idle EXCEPT !.op = "login", !.step = "answered", !.token = t])
  BY DEF Login
<1>2. /\ storage = None /\ UNCHANGED <<now, storage>>
      /\ \A d \in Caller : req[d].op # "login"
  BY DEF Login, SingleTab
<1>3. /\ \A d \in Caller \ {c} : req'[d] = req[d]
      /\ req'[c].op = "login" /\ req'[c].step = "answered" /\ req'[c].token = t
      /\ tokens'[t].state = "live"
  BY <1>1 DEF Put, Idle, Sound, RowsOK
<1>4. \A u \in Token : Usable(u) => Usable(u)'
  BY <1>1 DEF Usable, Sound, RowsOK
<1>5. ASSUME NEW d \in Caller \ {c} PROVE Undisturbed(req[d])'
  <2>1. Undisturbed(req[d]) /\ req[d].op # "refresh" /\ RequestOK(req[d], tokens, leaving)
    BY <1>2 DEF Smooth, Undisturbed, Sound
  <2> QED BY <1>2, <1>3, <1>4, <2>1 DEF Undisturbed, RequestOK
<1>6. Undisturbed(req[c])'
  BY <1>2, <1>3 DEF Undisturbed, Usable
<1>7. \A a, b \in Caller : req'[a].op # "none" /\ req'[a].op = req'[b].op => a = b
  BY <1>2, <1>3 DEF Smooth
<1> QED BY <1>2, <1>5, <1>6, <1>7 DEF Smooth

LEMMA SmoothStartRefresh ==
    ASSUME Sound, Smooth, SingleTab, NEW c \in Caller, StartRefresh(c)
    PROVE  Smooth'
<1>1. /\ storage # None /\ UNCHANGED <<now, tokens, storage>>
      /\ \A d \in Caller : req[d].op # "refresh"
      /\ Put(c, [Idle EXCEPT !.op = "refresh", !.step = "sent", !.token = storage,
                             !.at = now])
  BY DEF StartRefresh, SingleTab, Coalesced
<1>2. /\ \A d \in Caller \ {c} : req'[d] = req[d]
      /\ req'[c].op = "refresh" /\ req'[c].step = "sent" /\ req'[c].token = storage
      /\ req'[c].at = now
  BY <1>1 DEF Put, Idle, Sound
<1>3. Usable(storage) /\ now <= now
  BY <1>1 DEF Smooth, Refreshed, Sound
<1>4. \A d \in Caller : Undisturbed(req[d])'
  BY <1>1, <1>2, <1>3 DEF Smooth, Undisturbed, Usable
<1>5. \A a, b \in Caller : req'[a].op # "none" /\ req'[a].op = req'[b].op => a = b
  BY <1>1, <1>2 DEF Smooth
<1> QED BY <1>1, <1>3, <1>4, <1>5 DEF Smooth, Usable

LEMMA SmoothRotateBegin ==
    ASSUME Sound, SignedIn, Smooth, NEW c \in Caller, RotateBegin(c)
    PROVE  Smooth'
<1> DEFINE t == req[c].token
<1>1. /\ req[c].step = "sent" /\ UNCHANGED <<now, tokens, storage>>
      /\ \/ /\ tokens[t].state = "deleted" /\ Refuse(c)
         \/ /\ tokens[t].state = "revoked"
         \/ /\ tokens[t].state = "live" /\ tokens[t].expires <= req[c].at /\ Refuse(c)
         \/ /\ tokens[t].state = "live"
            /\ Put(c, [req[c] EXCEPT !.step = "locked"])
  BY DEF RotateBegin
<1>2. /\ req[c].op = "refresh" /\ t = storage /\ storage # None /\ req[c].at <= now
      /\ t \in Token /\ req[c] \in Pending
  BY <1>1 DEF Smooth, Undisturbed, Sound, RequestOK, Idle
<1>3. Usable(storage)
  BY <1>1, <1>2 DEF Smooth, Refreshed
<1>4. now \in Nat /\ req[c].at \in Nat /\ tokens[t].expires \in Nat
  BY <1>2, BoundAssumption DEF Sound, RowsOK, Row, NoRow, Pending
<1>5. \A d \in Caller \ {c} : req'[d] = req[d] /\ req[d].op # "refresh"
  <2>1. \A d \in Caller \ {c} : req'[d] = req[d]
    BY DEF RotateBegin, Refuse, Put, Sound
  <2> QED BY <1>2, <2>1 DEF Smooth
<1>6. /\ req'[c].op = "refresh"
      /\ \/ req'[c].step = "locked" /\ req'[c].token = storage /\ req'[c].at <= now
         \/ req'[c].step = "refused" /\ tokens[storage].expires <= now
  <2>1. CASE Refuse(c) /\ tokens[t].expires <= now
    BY <1>2, <2>1 DEF Refuse, Put, Idle, Sound
  <2>2. CASE Put(c, [req[c] EXCEPT !.step = "locked"])
    BY <1>2, <2>2 DEF Put, Sound, Pending
  <2>3. tokens[t].state = "deleted" => tokens[t].expires <= now
    BY <1>2 DEF SignedIn
  <2> QED BY <1>1, <1>2, <1>3, <1>4, <2>1, <2>2, <2>3 DEF Usable
<1>7. \A d \in Caller : Undisturbed(req[d])'
  BY <1>1, <1>2, <1>5, <1>6 DEF Smooth, Undisturbed, Usable
<1>8. \A a, b \in Caller : req'[a].op # "none" /\ req'[a].op = req'[b].op => a = b
  BY <1>2, <1>5, <1>6 DEF Smooth
<1> QED BY <1>1, <1>3, <1>7, <1>8 DEF Smooth, Usable

LEMMA SmoothRotateCommit ==
    ASSUME Sound, Smooth, NEW c \in Caller, RotateCommit(c)
    PROVE  Smooth'
<1> DEFINE t == req[c].token
<1>1. PICK s \in Token :
         /\ IsNext(s)
         /\ tokens' = [tokens EXCEPT ![t].state = "revoked",
                                 ![s] = [state |-> "live", family |-> tokens[t].family,
                                         expires |-> req[c].at + TTL, prev |-> t]]
         /\ Put(c, [Idle EXCEPT !.op = req[c].op, !.step = "answered", !.token = s])
  BY DEF RotateCommit
<1>2. req[c].step = "locked" /\ UNCHANGED <<now, storage>>
  BY DEF RotateCommit
<1>3. req[c].op = "refresh" /\ t = storage /\ storage # None /\ t \in Token
  BY <1>2 DEF Smooth, Undisturbed, Sound, RequestOK
<1>4. /\ \A d \in Caller \ {c} : req'[d] = req[d]
      /\ req'[c].op = "refresh" /\ req'[c].step = "answered" /\ req'[c].token = s
      /\ tokens'[s].state = "live"
  BY <1>1, <1>3 DEF Put, Idle, Sound, RowsOK
<1>5. \A d \in Caller \ {c} : req[d].op = "none" /\ req[d].step # "answered"
  <2> TAKE d \in Caller \ {c}
  <2>1. Undisturbed(req[d]) /\ req[d].op # "refresh"
    BY <1>3 DEF Smooth
  <2>2. req[d].op = "none"
    BY <1>3, <2>1 DEF Undisturbed
  <2> QED BY <2>2 DEF Sound, Pending, Idle
<1>6. \A d \in Caller : Undisturbed(req[d])'
  BY <1>2, <1>3, <1>4, <1>5 DEF Undisturbed, Usable
<1>7. \A a, b \in Caller : req'[a].op # "none" /\ req'[a].op = req'[b].op => a = b
  BY <1>4, <1>5
<1>8. Refreshed'
  BY <1>4 DEF Refreshed
<1> QED BY <1>6, <1>7, <1>8 DEF Smooth

(* The answer: the only step that can sign the reader out here.            *)
LEMMA SmoothReceive ==
    ASSUME Sound, Smooth, NEW c \in Caller, ReceiveReply(c)
    PROVE  /\ Smooth'
           /\ storage # None /\ storage' = None => tokens[storage].expires <= now
<1>1. /\ req[c].step \in {"answered", "refused"} /\ Put(c, Idle)
      /\ UNCHANGED <<now, tokens>>
      /\ storage' = IF req[c].op = "orphan"          THEN storage
                    ELSE IF req[c].step = "answered" THEN req[c].token
                    ELSE None
  BY DEF ReceiveReply
<1>2. Undisturbed(req[c]) /\ RequestOK(req[c], tokens, leaving)
  BY DEF Smooth, Sound
<1>3. req[c].op \in {"login", "refresh"} /\ req[c].op # "orphan"
  BY <1>1, <1>2 DEF Undisturbed, Sound, Pending, Idle
<1>4. \A d \in Caller \ {c} : req'[d] = req[d] /\ req[d].op = "none" /\ req[d].step = "idle"
  <2> TAKE d \in Caller \ {c}
  <2>1. Undisturbed(req[d]) /\ req[d].op # req[c].op
    BY <1>3 DEF Smooth
  <2>2. req[d].op = "none"
    BY <1>2, <1>3, <2>1 DEF Undisturbed
  <2> QED BY <1>1, <2>2 DEF Sound, Pending, Idle, Put
<1>5. req'[c] = Idle
  BY <1>1 DEF Put, Sound
<1>6. \A d \in Caller : Undisturbed(req[d])'
  BY <1>4, <1>5 DEF Undisturbed, Idle
<1>7. \A a, b \in Caller : req'[a].op # "none" /\ req'[a].op = req'[b].op => a = b
  BY <1>4, <1>5 DEF Idle
<1>8. storage' # None => Usable(storage')
  BY <1>1, <1>2, <1>3 DEF Undisturbed
<1>9. storage # None /\ storage' = None => tokens[storage].expires <= now
  <2> SUFFICES ASSUME storage # None, storage' = None PROVE tokens[storage].expires <= now
    OBVIOUS
  <2>1. req[c].step # "answered"
    BY <1>1, <1>2, <1>3, TokenAssumption DEF RequestOK
  <2> QED BY <1>1, <1>2, <1>3, <2>1 DEF Undisturbed
<1> QED BY <1>1, <1>6, <1>7, <1>8, <1>9 DEF Smooth, Usable

LEMMA SmoothRest ==
    ASSUME Sound, Smooth, Sweep \/ TimePasses \/ UNCHANGED sessionVars
    PROVE  Smooth' /\ storage' = storage
<1>1. UNCHANGED <<req, storage>> /\ now \in Nat /\ now' \in Nat /\ now <= now'
  BY BoundAssumption DEF Sweep, TimePasses, sessionVars, Sound
<1>2. \A t \in Token : /\ Usable(t) => Usable(t)'
                      /\ tokens'[t].expires = tokens[t].expires /\ tokens[t].expires \in Nat
  BY DEF Sweep, Swept, TimePasses, sessionVars, Usable, Sound, RowsOK, Row, NoRow
<1>3. storage \in Token \cup {None}
  BY DEF Sound, Issued
<1>4. ASSUME NEW d \in Caller PROVE Undisturbed(req[d])'
  <2>1. Undisturbed(req[d]) /\ RequestOK(req[d], tokens, leaving)
    BY DEF Smooth, Sound
  <2>2. req[d].at \in Nat
    BY DEF Sound, Pending, Idle
  <2>3. storage # None /\ tokens[storage].expires <= now => tokens'[storage].expires <= now'
    BY <1>1, <1>2, <1>3
  <2>4. req[d].step = "answered" => Usable(req[d].token)'
    <3>1. PICK t : t = req[d].token
      OBVIOUS
    <3>2. req'[d].token = t
      BY <1>1, <3>1
    <3>3. req[d].step = "answered" => t \in Token /\ Usable(t)
      BY <2>1, <3>1 DEF Undisturbed, RequestOK
    <3> QED BY <1>2, <3>2, <3>3 DEF Usable
  <2> QED BY <1>1, <2>1, <2>2, <2>3, <2>4 DEF Undisturbed
<1>5. Refreshed' = Refreshed
  BY <1>1 DEF Refreshed
<1>6. storage # None /\ ~Refreshed => Usable(storage)'
  <2>1. PICK t : t = storage
    OBVIOUS
  <2>2. storage' = t
    BY <1>1, <2>1
  <2>3. t # None /\ ~Refreshed => t \in Token /\ Usable(t)
    BY <1>3, <2>1 DEF Smooth
  <2> QED BY <1>2, <2>1, <2>2, <2>3 DEF Usable
<1> QED BY <1>1, <1>4, <1>5, <1>6 DEF Smooth, Usable

LEMMA SmoothNext ==
    ASSUME SingleTab, Sound, SignedIn, [SessionsNext]_sessionVars, TroubleFree'
    PROVE  /\ Smooth'
           /\ storage # None /\ storage' = None => tokens[storage].expires <= now
<1>1. TroubleFree /\ Smooth
  BY TroubleStays DEF SignedIn
<1>2. ~MountFails /\ \A c \in Caller : ~ServerFails(c) /\ ~LoseRequest(c) /\ ~LoseReply(c)
                                       /\ ~Reload(c) /\ ~StartLogout(c)
  BY TroubleStays
<1>3. \A c \in Caller : ~RevokeSnapshot(c) /\ ~RevokeApply(c)
  <2> TAKE c \in Caller
  <2>1. Undisturbed(req[c]) /\ RequestOK(req[c], tokens, leaving)
    BY <1>1 DEF Smooth, Sound
  <2>2. req[c].step \notin {"revoke", "revoking"}
    BY <2>1 DEF Undisturbed, RequestOK, Pending, Idle
  <2> QED BY <2>2 DEF RevokeSnapshot, RevokeApply
<1>4. ASSUME NEW c \in Caller,
             Login(c) \/ StartRefresh(c) \/ RotateBegin(c) \/ RotateCommit(c)
      PROVE  Smooth' /\ (storage # None => storage' = storage)
  <2>1. storage' = storage
    BY <1>4 DEF Login, StartRefresh, RotateBegin, RotateCommit
  <2> QED BY <1>1, <1>4, <2>1, SmoothLogin, SmoothStartRefresh, SmoothRotateBegin,
             SmoothRotateCommit
<1>5. \/ Sweep \/ TimePasses \/ UNCHANGED sessionVars
      \/ \E c \in Caller : Login(c) \/ StartRefresh(c) \/ RotateBegin(c)
                           \/ RotateCommit(c) \/ ReceiveReply(c)
  BY <1>2, <1>3 DEF SessionsNext
<1> QED BY <1>1, <1>4, <1>5, SmoothReceive, SmoothRest

(* A reader with one tab is signed out only when the token has expired,    *)
(* however many requests find their access token expired at once, as long  *)
(* as nothing fails and nobody logs out.                                   *)
THEOREM StaysSignedInCorrect == ASSUME SingleTab PROVE SessionsSpec => StaysSignedIn
<1>1. Sound /\ SignedIn /\ [SessionsNext]_sessionVars => SignedIn'
  BY DeletedIsPast, SmoothNext DEF SignedIn
<1>2. Sound /\ Sound' /\ SignedIn /\ [SessionsNext]_sessionVars =>
        [storage # None /\ storage' = None /\ errors' = 0 =>
           leaving # {} \/ tokens[storage].expires <= now]_sessionVars
  <2> SUFFICES ASSUME Sound, SignedIn, [SessionsNext]_sessionVars, storage # None, storage' = None,
                      errors' = 0, leaving = {}
               PROVE  tokens[storage].expires <= now
    OBVIOUS
  <2>1. CASE leaving' = {}
    BY <2>1, SmoothNext DEF TroubleFree
  <2>2. CASE leaving' # {}
    <3>1. PICK c \in Caller : StartLogout(c)
      BY <2>2 DEF SessionsNext, Login, StartRefresh, RotateBegin, RotateCommit, RevokeSnapshot,
         RevokeApply, ServerFails, ReceiveReply, LoseRequest, LoseReply, Disconnected,
         Reload, MountFails, Sweep, TimePasses, sessionVars
    <3> QED BY <3>1 DEF StartLogout
  <2> QED BY <2>1, <2>2
<1> QED BY <1>1, <1>2, SignedInInit, SoundCorrect, PTL DEF SessionsSpec, StaysSignedIn
=============================================================================
