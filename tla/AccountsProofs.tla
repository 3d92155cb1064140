---------------------------- MODULE AccountsProofs ----------------------------
(***************************************************************************)
(* Proofs about Accounts, for any users, addresses, passwords and requests.*)
(*                                                                         *)
(* The handlers interleave freely, so that AccountsInv says of each request*)
(* what it may rely on between two of its steps.  What keeps it true while *)
(* others work is that rows only move onward: an epoch never falls, a user *)
(* verified stays verified, a session ended stays ended, a code sent, and  *)
(* one spent, stay so.  Each handler is shown to move onward, and then has *)
(* only its own request and the rows it writes to answer for.              *)
(***************************************************************************)
EXTENDS Accounts, TLAPS

(* What no step undoes: the rows of users who exist, and how far they are. *)
UsersOnward == \A u \in Users :
    /\ users[u] # NoUser => users'[u] # NoUser /\ (users'[u] # Gone => users[u] # Gone)
    /\ Exists(u) /\ (users[u].verified \/ Locked(u)) => users'[u] # Gone
    /\ Exists(u) /\ users'[u] \notin {NoUser, Gone} =>
          /\ users[u].epoch <= users'[u].epoch
          /\ users[u].verified => users'[u].verified
          /\ users[u].deleted => users'[u].deleted
          /\ users'[u].verified \/ users'[u].email = users[u].email

(* Sessions end for good, and those that stay keep up with the epoch; one  *)
(* that is opened while an epoch is to be committed is loose.              *)
SessionsOnward ==
    /\ \A s \in DOMAIN sessions :
        /\ s \in DOMAIN sessions'
        /\ sessions'[s].user = sessions[s].user /\ sessions'[s].loose = sessions[s].loose
        /\ sessions'[s].live => sessions[s].live
        /\ sessions'[s].live /\ ~sessions[s].loose
              /\ Exists(sessions[s].user) /\ users'[sessions[s].user] \notin {NoUser, Gone}
              /\ sessions[s].basis = users[sessions[s].user].epoch
              => sessions'[s].basis = users'[sessions[s].user].epoch
    /\ \A s \in DOMAIN sessions' \ DOMAIN sessions : Locked(sessions'[s].user) => sessions'[s].loose

TokensOnward ==
    /\ \A t \in DOMAIN tokens : t \in DOMAIN tokens' /\ tokens'[t] = tokens[t]
    /\ denied \subseteq denied'

CodesOnward == \A u \in Users, p \in Purposes : \A i \in DOMAIN codes[u][p] :
    /\ i \in DOMAIN codes'[u][p]
    /\ codes'[u][p][i].to = codes[u][p][i].to
    /\ codes[u][p][i].tries <= codes'[u][p][i].tries
    /\ codes[u][p][i].uses <= codes'[u][p][i].uses

Onward == UsersOnward /\ SessionsOnward /\ TokensOnward /\ CodesOnward

(* A token that was issued stays what it is (is_session_valid).            *)
LEMMA TokenStays ==
    ASSUME AccountsInv, TypeOK', Onward, NEW t \in DOMAIN tokens
    PROVE  TokenOK(t)'
<1> DEFINE k == tokens[t]
<1>1. /\ k \in TokenRows /\ tokens'[t] = k /\ TokenOK(t) /\ t \in DOMAIN tokens'
  BY DEF AccountsInv, TypeOK, Onward, TokensOnward
<1>2. k.user \in Users /\ k.epoch \in Nat /\ k.sid \in Nat
  BY Zenon, <1>1 DEF TokenRows
<1>3. users[k.user] \in UserRows /\ users[k.user].verified /\ k.epoch <= users[k.user].epoch
  BY Zenon, <1>1, <1>2 DEF TokenOK, Exists, AccountsInv, TypeOK
<1>4. /\ Exists(k.user) /\ users'[k.user] \notin {NoUser, Gone} /\ users'[k.user] \in UserRows
      /\ users[k.user].epoch <= users'[k.user].epoch /\ users'[k.user].verified
      /\ users[k.user].deleted => users'[k.user].deleted
  BY Zenon, <1>1, <1>2, <1>3 DEF Onward, UsersOnward, TokenOK, Exists, TypeOK
<1>5. users[k.user].epoch \in Nat /\ users'[k.user].epoch \in Nat
  BY Zenon, <1>3, <1>4 DEF UserRows
<1>6. k.epoch <= users'[k.user].epoch
  BY <1>2, <1>3, <1>4, <1>5
<1>7. ASSUME k.sid # 0
      PROVE  /\ k.sid \in DOMAIN sessions' /\ sessions'[k.sid].user = k.user
             /\ k.sid \in DOMAIN sessions /\ sessions[k.sid].user = k.user
  BY Zenon, <1>1, <1>7 DEF TokenOK, Onward, SessionsOnward
<1>8. ASSUME is_session_valid(t)', k.sid # 0, sessions'[k.sid].live, ~sessions'[k.sid].loose
      PROVE  sessions'[k.sid].basis = users'[k.user].epoch
  <2>1. t \notin denied' /\ ~users'[k.user].deleted /\ users'[k.user].epoch = k.epoch
    BY Zenon, <1>8, <1>1 DEF is_session_valid
  <2>2. t \notin denied /\ ~users[k.user].deleted /\ users[k.user].epoch = k.epoch
    BY <2>1, <1>2, <1>3, <1>4, <1>5 DEF Onward, TokensOnward
  <2>3. sessions[k.sid].live /\ ~sessions[k.sid].loose
    BY Zenon, <1>7, <1>8 DEF Onward, SessionsOnward
  <2>4. is_session_valid(t)
    BY Zenon, <2>2, <2>3, <1>4, <1>7, <1>8 DEF is_session_valid
  <2>5. sessions[k.sid].basis = users[k.user].epoch
    BY Zenon, <2>4, <2>3, <1>1, <1>8 DEF TokenOK, Current
  <2> QED
    BY Zenon, <2>5, <1>4, <1>7, <1>8 DEF Onward, SessionsOnward
<1>9. is_session_valid(t)' => Current(tokens[t])'
  BY Zenon, <1>8, <1>1 DEF Current
<1> QED
  BY Zenon, <1>1, <1>4, <1>6, <1>7, <1>9 DEF TokenOK, Exists

(* The rows of a user and purpose (email_otps).                            *)
CodesTyped == \A u \in Users, p \in Purposes :
    /\ codes[u][p] \in Seq(CodeRows)
    /\ \A i \in DOMAIN codes[u][p] : codes[u][p][i] \in CodeRows

(* Codes are rows, whoever reads them.                                     *)
LEMMA CodeAt == TypeOK => CodesTyped
<1> SUFFICES ASSUME TypeOK, NEW u \in Users, NEW p \in Purposes
             PROVE  /\ codes[u][p] \in Seq(CodeRows)
                    /\ \A i \in DOMAIN codes[u][p] : codes[u][p][i] \in CodeRows
  BY Zenon DEF CodesTyped
<1>1. codes[u][p] \in Seq(CodeRows)
  BY Zenon DEF TypeOK
<1> QED
  BY <1>1

(* A code that was received stays received (verify_and_consume_otp).       *)
LEMMA StillReceived ==
    ASSUME TypeOK, TypeOK', CodesOnward, NEW u \in Users, NEW p \in Purposes, NEW e, Received(u, p, e)
    PROVE  Received(u, p, e)'
<1>0. CodesTyped /\ CodesTyped'
  BY CodeAt, PTL
<1>1. PICK i \in DOMAIN codes[u][p] : codes[u][p][i].uses > 0 /\ codes[u][p][i].to = e
  BY Zenon DEF Received
<1>2. codes[u][p][i].uses \in Nat
  BY Zenon, <1>0, <1>1 DEF CodesTyped, CodeRows
<1>3. /\ i \in DOMAIN codes'[u][p] /\ codes'[u][p][i].to = e
      /\ codes[u][p][i].uses <= codes'[u][p][i].uses
  BY Zenon, <1>1 DEF CodesOnward
<1>4. codes'[u][p][i].uses \in Nat
  BY Zenon, <1>0, <1>3 DEF CodesTyped, CodeRows
<1>5. codes'[u][p][i].uses > 0
  BY <1>1, <1>2, <1>3, <1>4
<1> QED
  BY Zenon, <1>3, <1>5 DEF Received

(* What a request relies on stays so while others take their steps.        *)
LEMMA ReqStays ==
    ASSUME AccountsInv, TypeOK', Onward, NEW r \in Requests, req'[r] = req[r]
    PROVE  ReqOK(req[r])'
<1> DEFINE q == req[r]
<1>1. q \in Held /\ ReqOK(q) /\ TypeOK
  BY Zenon DEF AccountsInv, TypeOK
<1>2. SUFFICES ASSUME q.pc \notin {"unstarted", "done"}
               PROVE  ReqOK(req[r])'
  BY Zenon DEF ReqOK
<1>3. q.u \in Users /\ q.kind \in KindsAt(q.pc) /\ q.t \in Nat /\ q.n \in Nat /\ q.epoch \in Nat
  BY Zenon, <1>1, <1>2 DEF ReqOK, Held
<1>4. q.kind \notin Tokenless => /\ q.t \in DOMAIN tokens /\ tokens[q.t].user = q.u
                                 /\ q.t \in DOMAIN tokens' /\ tokens'[q.t] = tokens[q.t]
  BY Zenon, <1>1, <1>2 DEF ReqOK, Onward, TokensOnward
<1>5. ASSUME q.kind \notin Tokenless \cup {"logout"}
      PROVE  Current(tokens[req[r].t])'
  <2> DEFINE k == tokens[q.t]
  <2>1. /\ k.user = q.u /\ Current(k) /\ k \in TokenRows /\ TokenOK(q.t) /\ tokens'[q.t] = k
    <3>1. q.t \in DOMAIN tokens /\ k.user = q.u /\ tokens'[q.t] = k
      BY Zenon, <1>4, <1>5
    <3>2. Current(k) /\ TokenOK(q.t)
      BY Zenon, <3>1, <1>1, <1>2, <1>5 DEF ReqOK, AccountsInv
    <3>3. tokens \in Seq(TokenRows)
      BY Zenon, <1>1 DEF TypeOK
    <3>4. k \in TokenRows
      BY <3>1, <3>3
    <3> QED
      BY Zenon, <3>1, <3>2, <3>4
  <2>2. SUFFICES ASSUME k.sid # 0, sessions'[k.sid].live, ~sessions'[k.sid].loose
                 PROVE  sessions'[k.sid].basis = users'[k.user].epoch
    BY Zenon, <2>1 DEF Current
  <2>3. k.sid \in DOMAIN sessions /\ sessions[k.sid].user = k.user
    BY Zenon, <2>1, <2>2 DEF TokenOK
  <2>4. sessions[k.sid].live /\ ~sessions[k.sid].loose
    BY Zenon, <2>2, <2>3 DEF Onward, SessionsOnward
  <2>5. sessions[k.sid].basis = users[k.user].epoch
    BY Zenon, <2>1, <2>2, <2>4 DEF Current
  <2>6. Exists(k.user) /\ users'[k.user] \notin {NoUser, Gone}
    BY Zenon, <2>1, <1>3 DEF TokenOK, Exists, Onward, UsersOnward
  <2> QED
    BY Zenon, <2>2, <2>3, <2>5, <2>6 DEF Onward, SessionsOnward
<1>6. users'[q.u] = NoUser => q.kind = "verify_email" /\ q.pc = "claim"
  BY Zenon, <1>1, <1>2, <1>3 DEF ReqOK, Onward, UsersOnward
<1>7. (q.pc = "claim" => q.kind # "verify_email" \/ q.epoch = 0) /\ (q.pc = "rehash" => q.p \in Passwords)
  BY Zenon, <1>1, <1>2 DEF ReqOK
<1>8. ASSUME users'[q.u] \notin {NoUser, Gone}, users[q.u] = NoUser
      PROVE  /\ q.epoch <= users'[q.u].epoch
             /\ q.pc = "claim"
  BY <1>1, <1>2, <1>3, <1>7, <1>8 DEF ReqOK, TypeOK, UserRows
<1>9. ASSUME users'[q.u] \notin {NoUser, Gone}, users[q.u] # NoUser
      PROVE  /\ q.epoch <= users'[q.u].epoch
             /\ q.pc = "open" \/ (q.pc = "rehash" /\ q.seen) => users'[q.u].verified
             /\ q.pc \in {"issue", "rehash"} /\ q.kind \in {"signup", "resend", "login"}
                   => users'[q.u].verified \/ q.e = users'[q.u].email
             /\ q.pc \in {"read", "mark"} /\ ~users'[q.u].verified
                   => Received(q.u, "signup", users[q.u].email) /\ users'[q.u].email = users[q.u].email
  <2>1. users[q.u] # Gone /\ Exists(q.u)
    BY Zenon, <1>3, <1>9 DEF Onward, UsersOnward, Exists
  <2>2. users[q.u] \in UserRows /\ users'[q.u] \in UserRows
    BY Zenon, <2>1, <1>1, <1>3, <1>9 DEF TypeOK
  <2>3. users[q.u].epoch \in Nat /\ users'[q.u].epoch \in Nat
    BY Zenon, <2>2 DEF UserRows
  <2>4. /\ users[q.u].epoch <= users'[q.u].epoch
        /\ users[q.u].verified => users'[q.u].verified
        /\ users'[q.u].verified \/ users'[q.u].email = users[q.u].email
    BY Zenon, <2>1, <1>3, <1>9 DEF Onward, UsersOnward
  <2>5. /\ q.epoch <= users[q.u].epoch
        /\ q.pc = "open" \/ (q.pc = "rehash" /\ q.seen) => users[q.u].verified
        /\ q.pc \in {"issue", "rehash"} /\ q.kind \in {"signup", "resend", "login"}
                => users[q.u].verified \/ q.e = users[q.u].email
        /\ q.pc \in {"read", "mark"}
                => users[q.u].verified \/ Received(q.u, "signup", users[q.u].email)
    BY Zenon, <2>1, <1>1, <1>2 DEF ReqOK
  <2>6. q.epoch <= users'[q.u].epoch
    BY <2>3, <2>4, <2>5, <1>3
  <2> QED
    BY Zenon, <2>4, <2>5, <2>6
<1>10. ASSUME users'[q.u] \notin {NoUser, Gone}
       PROVE  q.pc \in {"read", "mark"} => users'[q.u].verified \/ Received(q.u, "signup", users[q.u].email)'
  <2>1. SUFFICES ASSUME q.pc \in {"read", "mark"}, ~users'[q.u].verified
                 PROVE  Received(q.u, "signup", users[q.u].email)'
    BY Zenon
  <2>2. PICK e : e = users[q.u].email
    BY Zenon
  <2>3. PICK u \in Users : u = q.u
    BY Zenon, <1>3
  <2>4. PICK p \in Purposes : p = "signup"
    BY Zenon DEF Purposes
  <2>5. Received(u, p, e) /\ users'[u].email = e
    BY Zenon, <2>1, <2>2, <2>3, <2>4, <1>8, <1>9, <1>10
  <2>6. Received(u, p, e)'
    BY Zenon, <2>5, <1>1, StillReceived DEF Onward
  <2> QED
    BY Zenon, <2>3, <2>4, <2>5, <2>6 DEF Received
<1>11. ASSUME q.pc = "consume"
       PROVE  /\ q.n \in DOMAIN codes'[q.u][PurposeOf(q.kind)]
              /\ codes'[q.u][PurposeOf(q.kind)][q.n].tries > 0
              /\ q.kind = "confirm_email" =>
                   q.e \in Emails /\ codes'[q.u]["email_change"][q.n].to = q.e
  <2>1. PICK p \in Purposes : p = PurposeOf(q.kind)
    BY Zenon, <1>3, <1>11 DEF Purposes, PurposeOf, KindsAt, Redeeming
  <2>2. /\ q.n \in DOMAIN codes[q.u][p] /\ codes[q.u][p][q.n].tries > 0
        /\ q.kind = "confirm_email" => q.e \in Emails /\ codes[q.u]["email_change"][q.n].to = q.e
    BY Zenon, <2>1, <1>1, <1>2, <1>11 DEF ReqOK
  <2>3. /\ q.n \in DOMAIN codes'[q.u][p] /\ codes'[q.u][p][q.n].to = codes[q.u][p][q.n].to
        /\ codes[q.u][p][q.n].tries <= codes'[q.u][p][q.n].tries
    BY Zenon, <2>2, <1>3 DEF Onward, CodesOnward
  <2>4. CodesTyped /\ CodesTyped'
    BY <1>1, CodeAt, PTL
  <2>5. codes[q.u][p][q.n].tries \in Nat /\ codes'[q.u][p][q.n].tries \in Nat
    BY Zenon, <2>2, <2>3, <2>4, <1>3 DEF CodesTyped, CodeRows
  <2>6. codes'[q.u][p][q.n].tries > 0
    <3>1. \A a, b \in Nat : a > 0 /\ a <= b => b > 0
      OBVIOUS
    <3> QED
      BY Zenon, <2>2, <2>3, <2>5, <3>1
  <2>7. q.kind = "confirm_email" => p = "email_change"
    BY Zenon, <2>1 DEF PurposeOf
  <2> QED
    BY Zenon, <2>1, <2>2, <2>3, <2>6, <2>7
<1>12. ASSUME q.pc = "move"
       PROVE  q.e \in Emails /\ Received(req[r].u, "email_change", req[r].e)'
  <2>2. PICK e : e = q.e
    BY Zenon
  <2>3. PICK u \in Users : u = q.u
    BY Zenon, <1>3
  <2>4. PICK p \in Purposes : p = "email_change"
    BY Zenon DEF Purposes
  <2>5. Received(u, p, e) /\ e \in Emails
    BY Zenon, <2>2, <2>3, <2>4, <1>1, <1>2, <1>12 DEF ReqOK
  <2>6. Received(u, p, e)'
    BY Zenon, <2>5, <1>1, StillReceived DEF Onward
  <2> QED
    BY Zenon, <2>2, <2>3, <2>4, <2>5, <2>6 DEF Received
<1>13. ASSUME q.pc = "commit"
       PROVE  users'[q.u] \notin {NoUser, Gone} /\ Found(req[r])'
  <2>1. Exists(q.u) /\ Found(q)
    BY Zenon, <1>1, <1>2, <1>13 DEF ReqOK
  <2>2. Locked(q.u)
    BY Zenon, <1>13 DEF Locked, At
  <2>3. users'[q.u] \notin {NoUser, Gone}
    BY Zenon, <2>1, <2>2, <1>3 DEF Exists, Onward, UsersOnward
  <2>4. q.kind = "confirm_reset" \/ q.kind \notin Tokenless
    BY Zenon, <1>3, <1>13 DEF KindsAt, Tokenless
  <2>5. PICK keep : keep = Kept(q) /\ keep = Kept(req[r])'
    BY Zenon, <2>4, <1>4 DEF Kept
  <2>6. SUFFICES ASSUME NEW s \in DOMAIN sessions', sessions'[s].user = q.u, sessions'[s].live,
                        ~sessions'[s].loose
                 PROVE  s = keep \/ s \in q.checked
    BY Zenon, <2>3, <2>5 DEF Found
  <2>7. s \in DOMAIN sessions
    BY Zenon, <2>2, <2>6 DEF Onward, SessionsOnward
  <2>8. sessions[s].user = q.u /\ sessions[s].live /\ ~sessions[s].loose
    BY Zenon, <2>6, <2>7 DEF Onward, SessionsOnward
  <2> QED
    BY Zenon, <2>1, <2>5, <2>7, <2>8 DEF Found
<1> QED
  BY Zenon, <1>2, <1>3, <1>4, <1>5, <1>6, <1>7, <1>8, <1>9, <1>10, <1>11, <1>12, <1>13 DEF ReqOK, Exists

(* The codes a step leaves as they are, or only marks deleted.             *)
SameCode(u, p, i) ==
    /\ i \in DOMAIN codes[u][p]
    /\ codes'[u][p][i].to = codes[u][p][i].to /\ codes'[u][p][i].bound = codes[u][p][i].bound
    /\ codes'[u][p][i].tries = codes[u][p][i].tries /\ codes'[u][p][i].uses = codes[u][p][i].uses

(* A step that undoes nothing has the invariant to show only for what it   *)
(* writes: its request, new tokens, and the users and codes it changes.    *)
LEMMA OnwardKeeps ==
    ASSUME AccountsInv, TypeOK', Onward, NEW r \in Requests,
           \A s \in Requests \ {r} : req'[s] = req[s],
           ReqOK(req[r])',
           \A t \in DOMAIN tokens' : t \in DOMAIN tokens \/ TokenOK(t)',
           \A u \in Users : users'[u] = users[u] \/ UserOK(u)',
           \A u \in Users, p \in Purposes : \A i \in DOMAIN codes'[u][p] :
               SameCode(u, p, i) \/ CodeOK(u, p, codes[u][p][i])'
    PROVE  AccountsInv'
<1>1. TypeOK
  BY Zenon DEF AccountsInv
<1>2. \A t \in DOMAIN tokens' : TokenOK(t)'
  BY Zenon, TokenStays
<1>3. \A s \in Requests : ReqOK(req[s])'
  BY Zenon, ReqStays
<1>4. ASSUME NEW u \in Users, users'[u] = users[u]
      PROVE  UserOK(u)'
  <2>1. SUFFICES ASSUME Exists(u), users[u].verified, ~users[u].deleted
                 PROVE  \E p \in {"signup", "email_change"} : Received(u, p, users[u].email)'
    BY Zenon, <1>4 DEF AccountsInv, UserOK, Exists
  <2>2. PICK e : e = users[u].email
    BY Zenon
  <2>3. PICK p \in {"signup", "email_change"} : Received(u, p, e)
    BY Zenon, <2>1, <2>2 DEF AccountsInv, UserOK
  <2>4. p \in Purposes
    BY Zenon DEF Purposes
  <2>5. Received(u, p, e)'
    BY Zenon, <2>3, <2>4, <1>1, StillReceived DEF Onward
  <2> QED
    BY Zenon, <2>2, <2>5, <1>4 DEF Received
<1>5. ASSUME NEW u \in Users, NEW p \in Purposes, NEW i \in DOMAIN codes'[u][p], SameCode(u, p, i)
      PROVE  CodeOK(u, p, codes[u][p][i])'
  <2>1. /\ CodeOK(u, p, codes[u][p][i])
        /\ users[u] # NoUser /\ users'[u] # NoUser
    BY <1>5 DEF AccountsInv, SameCode, CodeOK, Onward, UsersOnward
  <2>2. ASSUME p = "signup", users'[u] \notin {NoUser, Gone}
        PROVE  users'[u].verified \/ codes'[u][p][i].to = users'[u].email
    <3>1. Exists(u)
      BY Zenon, <2>1, <2>2 DEF Exists, Onward, UsersOnward
    <3>2. users[u].verified \/ codes[u][p][i].to = users[u].email
      BY Zenon, <2>1, <2>2, <3>1 DEF CodeOK
    <3>3. /\ users[u].verified => users'[u].verified
          /\ users'[u].verified \/ users'[u].email = users[u].email
      BY Zenon, <3>1, <2>2 DEF Onward, UsersOnward
    <3> QED
      BY Zenon, <3>2, <3>3, <1>5 DEF SameCode
  <2> QED
    BY Zenon, <2>1, <2>2, <1>5 DEF CodeOK, SameCode, Exists
<1> QED
  BY Zenon, <1>2, <1>3, <1>4, <1>5 DEF AccountsInv

(* A request before its first step and after its last one.                 *)
LEMMA EndsOK ==
    /\ Unstarted \in Held /\ Done \in Held /\ Done.pc = "done"
    /\ Unstarted.pc = "unstarted" /\ Unstarted.epoch = 0
<1>1. PICK x \in Held : x = Unstarted
  BY Zenon DEF Held, Unstarted, Addresses, Places
<1>2. PICK y \in Held : y = [x EXCEPT !.pc = "done"]
  BY Zenon DEF Held, Places
<1> QED
  BY Zenon, <1>1, <1>2 DEF Done, Unstarted

(* What a step does not write goes onward.                                 *)
LEMMA Unmoved ==
    ASSUME TypeOK
    PROVE  /\ UNCHANGED users => UsersOnward
           /\ UNCHANGED <<users, sessions>> => SessionsOnward
           /\ UNCHANGED tokens /\ denied \subseteq denied' => TokensOnward
           /\ UNCHANGED codes => CodesOnward
<1>1. ASSUME UNCHANGED users PROVE UsersOnward
  <2>1. \A u \in Users : Exists(u) => users[u].epoch \in Nat
    BY Zenon DEF TypeOK, UserRows, Exists
  <2> QED
    BY <1>1, <2>1 DEF UsersOnward, Exists
<1>2. ASSUME UNCHANGED codes PROVE CodesOnward
  <2>1. CodesTyped
    BY Zenon, CodeAt
  <2>2. \A u \in Users, p \in Purposes : \A i \in DOMAIN codes[u][p] :
            codes[u][p][i].tries \in Nat /\ codes[u][p][i].uses \in Nat
    BY Zenon, <2>1 DEF CodesTyped, CodeRows
  <2> QED
    BY <1>2, <2>2 DEF CodesOnward
<1> QED
  BY Zenon, <1>1, <1>2 DEF SessionsOnward, TokensOnward

(* A step that writes no more than what its handler holds, the denylist,   *)
(* wallets and keys.                                                       *)
LEMMA QuietWrite ==
    ASSUME AccountsInv, UNCHANGED <<users, sessions, tokens, codes>>, denied \subseteq denied',
           wallets' \in Seq(WalletRows), NEW r \in Requests, NEW x \in Held,
           req' = [req EXCEPT ![r] = x], ReqOK(x)
    PROVE  AccountsInv'
<1>1. TypeOK /\ TypeOK'
  BY Zenon DEF AccountsInv, TypeOK
<1>2. req'[r] = x /\ \A s \in Requests \ {r} : req'[s] = req[s]
  BY Zenon, <1>1 DEF TypeOK
<1>3. Onward
  BY Zenon, <1>1, Unmoved DEF Onward
<1>4. ReqOK(req[r])'
  BY Zenon, <1>2 DEF ReqOK, Current, Received, Exists, Found, Kept
<1>5. \A u \in Users, p \in Purposes : \A i \in DOMAIN codes'[u][p] : SameCode(u, p, i)
  BY Zenon DEF SameCode
<1> QED
  BY Zenon, <1>1, <1>2, <1>3, <1>4, <1>5, OnwardKeeps

(* A step that writes only what its handler holds.                         *)
LEMMA QuietStep ==
    ASSUME AccountsInv, UNCHANGED rows, NEW r \in Requests, NEW x \in Held,
           req' = [req EXCEPT ![r] = x], ReqOK(x)
    PROVE  AccountsInv'
<1>1. /\ UNCHANGED <<users, sessions, tokens, codes>> /\ denied \subseteq denied'
      /\ wallets' \in Seq(WalletRows)
  BY Zenon DEF rows, AccountsInv, TypeOK
<1> QED
  BY Zenon, <1>1, QuietWrite

(* authenticate_session, at the start of every handler with a token.       *)
LEMMA AuthStep ==
    ASSUME AccountsInv, UNCHANGED rows, NEW r \in Requests, NEW k \in Kinds \ Tokenless, NEW pc \in Places,
           k \in KindsAt(pc), pc \notin {"consume", "move", "open", "rehash", "issue", "read", "mark", "commit"},
           authenticate(r, k, pc)
    PROVE  AccountsInv'
<1>1. PICK t \in DOMAIN tokens : is_session_valid(t) /\ Begin(r, k, pc, tokens[t].user, t, None)
  BY Zenon DEF authenticate
<1>2. tokens[t] \in TokenRows /\ t \in Nat /\ TokenOK(t)
  BY DEF AccountsInv, TypeOK
<1>3. PICK u \in Users : u = tokens[t].user
  BY Zenon, <1>2 DEF TokenRows
<1>4. PICK x \in Held : x = [Unstarted EXCEPT !.kind = k, !.pc = pc, !.u = u, !.t = t, !.e = None]
  BY Zenon, <1>2, EndsOK DEF Held, Addresses
<1>5. req' = [req EXCEPT ![r] = x]
  BY Zenon, <1>1, <1>3, <1>4 DEF Begin
<1>6. users[u] \in UserRows /\ users[u].epoch \in Nat
  BY Zenon, <1>2, <1>3 DEF AccountsInv, TypeOK, TokenOK, Exists, UserRows
<1>7. x.kind = k /\ x.pc = pc /\ x.u = u /\ x.t = t /\ x.epoch = 0
  BY Zenon, <1>4, EndsOK DEF Held
<1>8. users[u] # NoUser /\ Current(tokens[t])
  BY Zenon, <1>1, <1>2, <1>3 DEF TokenOK, Exists
<1>9. ReqOK(x)
  BY <1>3, <1>6, <1>7, <1>8 DEF ReqOK, Tokenless
<1> QED
  BY Zenon, <1>5, <1>9, QuietStep

(* The requests that name an address or a user, and come without a token:  *)
(* login, resend_otp, request_password_reset, confirm_password_reset and   *)
(* verify_email; and logout, which looks at no row.                        *)
LEMMA OpenStarts ==
    ASSUME AccountsInv, NEW r \in Requests,
           \/ login(r) \/ logout(r) \/ resend_otp(r) \/ request_password_reset(r)
           \/ confirm_password_reset(r) \/ verify_email(r)
    PROVE  AccountsInv'
<1>0. \A u \in Users : Exists(u) => users[u] \in UserRows /\ users[u] # NoUser
  BY Zenon DEF AccountsInv, TypeOK, Exists
<1>1. CASE login(r)
  <2>1. PICK e \in Emails, p \in Passwords : \E u \in UserAt(e) :
            LET row == users[u] IN
            /\ row.pw = p
            /\ Starts(r) /\ "login" \in Offered[r]
            /\ req' = [req EXCEPT ![r] = [Unstarted EXCEPT !.kind = "login", !.u = u, !.p = p, !.e = e,
                  !.epoch = row.epoch, !.seen = row.verified,
                  !.pc = IF row.old THEN "rehash" ELSE IF row.verified THEN "open" ELSE "issue"]]
            /\ UNCHANGED rows
    BY Zenon, <1>1 DEF login
  <2>2. PICK u \in UserAt(e) :
            /\ req' = [req EXCEPT ![r] = [Unstarted EXCEPT !.kind = "login", !.u = u, !.p = p, !.e = e,
                  !.epoch = users[u].epoch, !.seen = users[u].verified,
                  !.pc = IF users[u].old THEN "rehash" ELSE IF users[u].verified THEN "open" ELSE "issue"]]
            /\ UNCHANGED rows
    BY Zenon, <2>1
  <2>3. u \in Users /\ users[u] \in UserRows /\ users[u].email = e /\ users[u] # NoUser
    BY Zenon, <1>0 DEF UserAt
  <2>4. PICK n \in Nat : n = users[u].epoch
    BY Zenon, <2>3 DEF UserRows
  <2>5. PICK seen \in BOOLEAN : seen = users[u].verified
    BY Zenon, <2>3 DEF UserRows
  <2>6. PICK pc \in {"rehash", "open", "issue"} :
            pc = IF users[u].old THEN "rehash" ELSE IF seen THEN "open" ELSE "issue"
    BY Zenon
  <2>a. "login" \in Kinds /\ pc \in Places /\ e \in Addresses
    BY Zenon DEF Addresses, Places, Kinds, Tokenless
  <2>7. PICK x \in Held : x = [Unstarted EXCEPT !.kind = "login", !.u = u, !.p = p, !.e = e,
                                  !.epoch = n, !.seen = seen, !.pc = pc]
    BY Zenon, <2>3, <2>a, EndsOK DEF Held
  <2>8. req' = [req EXCEPT ![r] = x] /\ UNCHANGED rows
    BY Zenon, <2>2, <2>4, <2>5, <2>6, <2>7
  <2>9. x.kind = "login" /\ x.pc = pc /\ x.u = u /\ x.e = e /\ x.epoch = n /\ x.seen = seen /\ x.p = p
    BY Zenon, <2>7, EndsOK DEF Held
  <2>10. (pc = "open" => users[u].verified) /\ (pc = "rehash" /\ seen => users[u].verified)
    BY Zenon, <2>5, <2>6
  <2>11. ReqOK(x)
    BY <2>3, <2>4, <2>9, <2>10 DEF ReqOK, KindsAt, Tokenless, Issuing
  <2> QED
    BY Zenon, <2>8, <2>11, QuietStep
<1>2. CASE logout(r)
  <2>1. PICK t \in DOMAIN tokens : Begin(r, "logout", "deny", tokens[t].user, t, None) /\ UNCHANGED rows
    BY Zenon, <1>2 DEF logout
  <2>2. tokens[t] \in TokenRows /\ t \in Nat /\ TokenOK(t)
    BY DEF AccountsInv, TypeOK
  <2>3. PICK u \in Users : u = tokens[t].user
    BY Zenon, <2>2 DEF TokenRows
  <2>a. "logout" \in Kinds /\ "deny" \in Places /\ None \in Addresses
    BY Zenon DEF Addresses, Places, Kinds
  <2>4. PICK x \in Held : x = [Unstarted EXCEPT !.kind = "logout", !.pc = "deny", !.u = u, !.t = t, !.e = None]
    BY Zenon, <2>2, <2>a, EndsOK DEF Held
  <2>5. req' = [req EXCEPT ![r] = x]
    BY Zenon, <2>1, <2>3, <2>4 DEF Begin
  <2>6. users[u] \in UserRows /\ users[u].epoch \in Nat /\ users[u] # NoUser
    BY Zenon, <2>2, <2>3 DEF AccountsInv, TypeOK, TokenOK, Exists, UserRows
  <2>7. x.kind = "logout" /\ x.pc = "deny" /\ x.u = u /\ x.t = t /\ x.epoch = 0
    BY Zenon, <2>4, EndsOK DEF Held
  <2>8. ReqOK(x)
    BY <2>3, <2>6, <2>7 DEF ReqOK, KindsAt
  <2> QED
    BY Zenon, <2>1, <2>5, <2>8, QuietStep
<1>3. CASE resend_otp(r) \/ request_password_reset(r)
  <2>1. PICK k \in {"resend", "request_reset"}, u \in Users :
            /\ Exists(u) /\ (k = "request_reset" => users[u].verified) /\ UNCHANGED rows
            /\ Begin(r, k, "issue", u, 0, users[u].email)
    BY Zenon, <1>3 DEF resend_otp, request_password_reset, UserAt
  <2>2. users[u] \in UserRows /\ users[u] # NoUser /\ users[u].epoch \in Nat
    BY Zenon, <2>1, <1>0 DEF UserRows
  <2>3. PICK e \in Addresses : e = users[u].email
    BY Zenon, <2>2 DEF UserRows, Addresses
  <2>a. k \in Kinds /\ "issue" \in Places
    BY Zenon DEF Places, Kinds, Tokenless
  <2>4. PICK x \in Held : x = [Unstarted EXCEPT !.kind = k, !.pc = "issue", !.u = u, !.t = 0, !.e = e]
    BY Zenon, <2>a, EndsOK DEF Held
  <2>5. req' = [req EXCEPT ![r] = x]
    BY Zenon, <2>1, <2>3, <2>4 DEF Begin
  <2>6. x.kind = k /\ x.pc = "issue" /\ x.u = u /\ x.e = e /\ x.epoch = 0
    BY Zenon, <2>4, EndsOK DEF Held
  <2>7. ReqOK(x)
    BY <2>1, <2>2, <2>3, <2>6 DEF ReqOK, KindsAt, Issuing, Tokenless
  <2> QED
    BY Zenon, <2>1, <2>5, <2>7, QuietStep
<1>4. CASE confirm_password_reset(r) \/ verify_email(r)
  <2>1. PICK k \in {"confirm_reset", "verify_email"}, u \in Users :
            /\ k = "confirm_reset" => Exists(u)
            /\ UNCHANGED rows /\ Begin(r, k, "claim", u, 0, None)
    BY Zenon, <1>4 DEF confirm_password_reset, verify_email, UserAt
  <2>2. Exists(u) => users[u].epoch \in Nat
    BY Zenon, <1>0 DEF UserRows
  <2>a. k \in Kinds /\ "claim" \in Places /\ None \in Addresses
    BY Zenon DEF Places, Kinds, Tokenless, Addresses
  <2>4. PICK x \in Held : x = [Unstarted EXCEPT !.kind = k, !.pc = "claim", !.u = u, !.t = 0, !.e = None]
    BY Zenon, <2>a, EndsOK DEF Held
  <2>5. req' = [req EXCEPT ![r] = x]
    BY Zenon, <2>1, <2>4 DEF Begin
  <2>6. x.kind = k /\ x.pc = "claim" /\ x.u = u /\ x.epoch = 0
    BY Zenon, <2>4, EndsOK DEF Held
  <2>7. k = "confirm_reset" => users[u] # NoUser
    BY Zenon, <2>1 DEF Exists
  <2>8. ReqOK(x)
    BY <2>2, <2>6, <2>7 DEF ReqOK, KindsAt, Redeeming, Tokenless
  <2> QED
    BY Zenon, <2>1, <2>5, <2>8, QuietStep
<1> QED
  BY Zenon, <1>1, <1>2, <1>3, <1>4

(* The steps of a handler that only read: get_user_epoch, verify_password, *)
(* get_user, find_user_by_email, ensure_no_funds, and a step that fails.   *)
LEMMA Reads ==
    ASSUME AccountsInv, NEW r \in Requests,
           \/ get_user_epoch(r) \/ verify_password(r) \/ get_user(r) \/ find_user_by_email(r)
           \/ ensure_no_funds(r) \/ fail(r)
    PROVE  AccountsInv'
<1>0. TypeOK /\ UNCHANGED rows
  BY Zenon DEF AccountsInv, get_user_epoch, verify_password, get_user, find_user_by_email, ensure_no_funds, fail
<1>1. PICK q \in Held : q = req[r]
  BY Zenon, <1>0 DEF TypeOK
<1>2. ReqOK(q) /\ q.pc \in Places
  BY Zenon, <1>1 DEF AccountsInv, Held
<1>3. ASSUME q.pc \notin {"unstarted", "done"}, q.kind \notin Tokenless
      PROVE  /\ q.u \in Users /\ q.t \in DOMAIN tokens /\ tokens[q.t].user = q.u
             /\ Exists(q.u) /\ users[q.u] \in UserRows /\ users[q.u].verified
  <2>1. q.u \in Users /\ q.t \in DOMAIN tokens /\ tokens[q.t].user = q.u
    BY Zenon, <1>2, <1>3 DEF ReqOK
  <2>2. Exists(q.u) /\ users[q.u].verified
    BY Zenon, <2>1 DEF AccountsInv, TokenOK
  <2> QED
    BY Zenon, <2>1, <2>2, <1>0 DEF TypeOK, Exists
<1>4. CASE get_user_epoch(r)
  <2>1. q.pc = "epoch" /\ q.kind = "refresh" /\ q.kind \notin Tokenless
    BY Zenon, <1>1, <1>2, <1>4 DEF get_user_epoch, At, ReqOK, KindsAt, Tokenless
  <2>2. PICK n \in Nat : n = users[q.u].epoch
    BY Zenon, <2>1, <1>3 DEF UserRows
  <2>3. PICK x \in Held : x = [q EXCEPT !.pc = "deny", !.epoch = n]
    BY Zenon DEF Held, Places
  <2>4. req' = [req EXCEPT ![r] = x]
    BY Zenon, <2>2, <2>3, <1>0, <1>1, <1>4 DEF get_user_epoch, TypeOK
  <2>5. x.pc = "deny" /\ x.kind = q.kind /\ x.u = q.u /\ x.t = q.t /\ x.epoch = n
    BY Zenon, <2>3 DEF Held
  <2>6. ReqOK(x)
    BY <2>1, <2>2, <2>5, <1>2, <1>3 DEF ReqOK, KindsAt, Exists
  <2> QED
    BY Zenon, <2>4, <2>6, <1>0, QuietStep
<1>5. CASE verify_password(r)
  <2>1. q.pc = "password" /\ q.kind \in {"change_password", "email_change"} \cup AccountKinds
    BY Zenon, <1>1, <1>2, <1>5 DEF verify_password, At, ReqOK, KindsAt
  <2>2. q.kind \notin Tokenless \cup {"logout"}
    BY Zenon, <2>1 DEF Tokenless, AccountKinds
  <2>3. users[q.u].pw \in Passwords /\ users[q.u].email \in Addresses
    BY Zenon, <2>1, <2>2, <1>1, <1>3, <1>5 DEF verify_password, UserRows, Addresses
  <2>4. PICK p \in Passwords \cup {None} : p = IF q.kind = "change_password" THEN users[q.u].pw ELSE None
    BY Zenon, <2>3
  <2>5. PICK e \in Addresses : e = IF q.kind \in {"export_otp", "delete_otp"} THEN users[q.u].email ELSE None
    BY Zenon, <2>3 DEF Addresses
  <2>6. PICK pc \in {"apply", "vacant", "issue", "claim", "funds"} :
            pc = CASE q.kind = "change_password" -> "apply"
                      [] q.kind = "email_change" -> "vacant"
                      [] q.kind = "export_otp" -> "issue"
                      [] q.kind = "export" -> "claim"
                      [] OTHER -> "funds"
    BY Zenon
  <2>a. pc \in Places
    BY Zenon DEF Places
  <2>7. PICK x \in Held : x = [q EXCEPT !.p = p, !.e = e, !.pc = pc]
    BY Zenon, <2>a DEF Held
  <2>8. req' = [req EXCEPT ![r] = x]
    BY Zenon, <2>4, <2>5, <2>6, <2>7, <1>0, <1>1, <1>5 DEF verify_password, TypeOK
  <2>9. x.pc = pc /\ x.kind = q.kind /\ x.u = q.u /\ x.t = q.t /\ x.epoch = q.epoch
    BY Zenon, <2>7 DEF Held
  <2>10. x.kind \in KindsAt(x.pc)
    BY Zenon, <2>1, <2>6, <2>9 DEF KindsAt, AccountKinds, Issuing, Redeeming
  <2>11. ReqOK(x)
    BY Zenon, <2>1, <2>2, <2>6, <2>9, <2>10, <1>2, <1>3 DEF ReqOK, Exists, AccountKinds, Tokenless
  <2> QED
    BY Zenon, <2>8, <2>11, <1>0, QuietStep
<1>6. CASE get_user(r)
  <2>1. q.pc = "read" /\ q.kind = "verify_email" /\ Exists(q.u) /\ q.u \in Users
    BY Zenon, <1>1, <1>2, <1>6 DEF get_user, At, ReqOK, KindsAt
  <2>2. PICK n \in Nat : n = users[q.u].epoch
    BY Zenon, <2>1, <1>0 DEF TypeOK, Exists, UserRows
  <2>3. PICK x \in Held : x = [q EXCEPT !.pc = "mark", !.epoch = n]
    BY Zenon DEF Held, Places
  <2>4. req' = [req EXCEPT ![r] = x]
    BY Zenon, <2>2, <2>3, <1>0, <1>1, <1>6 DEF get_user, TypeOK
  <2>5. x.pc = "mark" /\ x.kind = q.kind /\ x.u = q.u /\ x.epoch = n
    BY Zenon, <2>3 DEF Held
  <2>6. ReqOK(x)
    BY <2>1, <2>2, <2>5, <1>2 DEF ReqOK, KindsAt, Tokenless
  <2> QED
    BY Zenon, <2>4, <2>6, <1>0, QuietStep
<1>7. CASE find_user_by_email(r)
  <2>1. q.pc = "vacant" /\ q.kind = "email_change" /\ q.kind \notin Tokenless \cup {"logout"}
    BY Zenon, <1>1, <1>2, <1>7 DEF find_user_by_email, At, ReqOK, KindsAt, Tokenless
  <2>2. PICK e \in Emails : req' = [req EXCEPT ![r].pc = "issue", ![r].e = e]
    BY Zenon, <1>7 DEF find_user_by_email
  <2>3. PICK x \in Held : x = [q EXCEPT !.pc = "issue", !.e = e]
    BY Zenon DEF Held, Places, Addresses
  <2>4. req' = [req EXCEPT ![r] = x]
    BY Zenon, <2>2, <2>3, <1>0, <1>1 DEF TypeOK
  <2>5. x.pc = "issue" /\ x.kind = q.kind /\ x.u = q.u /\ x.t = q.t /\ x.epoch = q.epoch
    BY Zenon, <2>3 DEF Held
  <2>6. ReqOK(x)
    BY Zenon, <2>1, <2>5, <1>2, <1>3 DEF ReqOK, KindsAt, Issuing
  <2> QED
    BY Zenon, <2>4, <2>6, <1>0, QuietStep
<1>8. CASE ensure_no_funds(r)
  <2>1. q.pc = "funds" /\ q.kind \in {"delete_otp", "delete"} /\ q.kind \notin Tokenless \cup {"logout"}
    BY Zenon, <1>1, <1>2, <1>8 DEF ensure_no_funds, At, ReqOK, KindsAt, Tokenless
  <2>a. DOMAIN wallets \subseteq Nat
    BY <1>0 DEF TypeOK
  <2>2. PICK S \in SUBSET Nat : S = IF q.kind = "delete" THEN Owned(q.u) ELSE {}
    BY <2>a, Zenon DEF Owned
  <2>3. PICK pc \in {"claim", "issue"} : pc = IF q.kind = "delete" THEN "claim" ELSE "issue"
    BY Zenon
  <2>4. PICK x \in Held : x = [q EXCEPT !.pc = pc, !.checked = S]
    BY Zenon DEF Held, Places
  <2>5. req' = [req EXCEPT ![r] = x]
    BY Zenon, <2>2, <2>3, <2>4, <1>0, <1>1, <1>8 DEF ensure_no_funds, TypeOK
  <2>6. x.pc = pc /\ x.kind = q.kind /\ x.u = q.u /\ x.t = q.t /\ x.epoch = q.epoch
    BY Zenon, <2>4 DEF Held
  <2>7. ReqOK(x)
    BY Zenon, <2>1, <2>3, <2>6, <1>2, <1>3 DEF ReqOK, KindsAt, Issuing, Redeeming
  <2> QED
    BY Zenon, <2>5, <2>7, <1>0, QuietStep
<1>9. CASE fail(r)
  <2>1. q.pc \notin {"unstarted", "done"}
    BY Zenon, <1>1, <1>9 DEF fail, Open
  <2>2. CASE Finish(r)
    <3>1. PICK x \in Held : x = Done
      BY Zenon, EndsOK
    <3>2. ReqOK(x) /\ req' = [req EXCEPT ![r] = x]
      BY Zenon, <2>2, <3>1, EndsOK DEF ReqOK, Finish
    <3> QED
      BY Zenon, <3>2, <1>0, QuietStep
  <2>3. CASE q.pc = "issue" /\ q.kind = "signup" /\ Goto(r, "rollback")
    <3>1. PICK x \in Held : x = [q EXCEPT !.pc = "rollback"]
      BY Zenon DEF Held, Places
    <3>2. req' = [req EXCEPT ![r] = x]
      BY Zenon, <2>3, <3>1, <1>0, <1>1 DEF Goto, TypeOK
    <3>3. x.pc = "rollback" /\ x.kind = q.kind /\ x.u = q.u /\ x.epoch = q.epoch
      BY Zenon, <3>1 DEF Held
    <3>4. ReqOK(x)
      BY Zenon, <2>1, <2>3, <3>3, <1>2 DEF ReqOK, KindsAt, Tokenless
    <3> QED
      BY Zenon, <3>2, <3>4, <1>0, QuietStep
  <2> QED
    BY Zenon, <2>2, <2>3, <1>1, <1>9 DEF fail, At
<1> QED
  BY Zenon, <1>4, <1>5, <1>6, <1>7, <1>8, <1>9

(* A row of users is written and nothing it had is undone.                 *)
LEMMA RowMoves ==
    ASSUME TypeOK, NEW u \in Users, NEW y \in UserRows, Exists(u), users' = [users EXCEPT ![u] = y],
           users[u].epoch <= y.epoch, users[u].verified => y.verified, users[u].deleted => y.deleted,
           y.verified \/ y.email = users[u].email
    PROVE  /\ users' \in [Users -> UserRows \cup {NoUser, Gone}]
           /\ users'[u] = y /\ y \notin {NoUser, Gone} /\ UsersOnward
           /\ \A v \in Users \ {u} : users'[v] = users[v]
<1>1. /\ users' \in [Users -> UserRows \cup {NoUser, Gone}] /\ users'[u] = y
      /\ \A v \in Users \ {u} : users'[v] = users[v]
  BY Zenon DEF TypeOK
<1>2. y \notin {NoUser, Gone}
  BY Zenon, RowsAssumption
<1>3. \A v \in Users : Exists(v) => users[v].epoch \in Nat
  BY Zenon DEF TypeOK, Exists, UserRows
<1>4. UsersOnward
  <2>1. SUFFICES ASSUME NEW v \in Users
                 PROVE  /\ users[v] # NoUser => users'[v] # NoUser /\ (users'[v] # Gone => users[v] # Gone)
                        /\ Exists(v) /\ (users[v].verified \/ Locked(v)) => users'[v] # Gone
                        /\ Exists(v) /\ users'[v] \notin {NoUser, Gone} =>
                              /\ users[v].epoch <= users'[v].epoch
                              /\ users[v].verified => users'[v].verified
                              /\ users[v].deleted => users'[v].deleted
                              /\ users'[v].verified \/ users'[v].email = users[v].email
    BY Zenon DEF UsersOnward
  <2>2. CASE v = u
    BY Zenon, <2>2, <1>1, <1>2 DEF Exists
  <2>3. CASE v # u
    BY <2>3, <1>1, <1>3 DEF Exists
  <2> QED
    BY Zenon, <2>2, <2>3
<1> QED
  BY Zenon, <1>1, <1>2, <1>4

(* The epoch of a user stands, and with it the basis of the sessions.      *)
LEMMA EpochStands ==
    ASSUME TypeOK, UNCHANGED sessions,
           \A u \in Users : Exists(u) /\ users'[u] \notin {NoUser, Gone} => users'[u].epoch = users[u].epoch
    PROVE  SessionsOnward
<1>1. \A s \in DOMAIN sessions : sessions[s] \in SessionRows
  BY DEF TypeOK
<1>2. \A s \in DOMAIN sessions : sessions[s].user \in Users
  BY Zenon, <1>1 DEF SessionRows
<1> QED
  BY Zenon, <1>2 DEF SessionsOnward

(* The steps that write one row of users and keep its epoch:               *)
(* rehash_password, mark_email_verified, update_email and signup.          *)
LEMMA UserWrites ==
    ASSUME AccountsInv, NEW r \in Requests,
           rehash_password(r) \/ mark_email_verified(r) \/ update_email(r) \/ signup(r)
    PROVE  AccountsInv'
<1>0. TypeOK /\ UNCHANGED <<sessions, tokens, denied, codes, wallets, keys>>
  BY Zenon DEF AccountsInv, rehash_password, mark_email_verified, update_email, signup
<1>1. PICK q \in Held : q = req[r]
  BY Zenon, <1>0 DEF TypeOK
<1>2. ReqOK(q)
  BY Zenon, <1>1 DEF AccountsInv
<1>3. TokensOnward /\ CodesOnward /\ \A u \in Users, p \in Purposes : \A i \in DOMAIN codes'[u][p] : SameCode(u, p, i)
  BY Zenon, <1>0, Unmoved DEF SameCode
<1>a. \A u \in Users, p \in Purposes, e \in Addresses : Received(u, p, e) => Received(u, p, e)'
  BY Zenon, <1>0 DEF Received
<1>b. ASSUME NEW u \in Users, NEW y \in UserRows, users'[u] = y, y.email = Tombstone => y.deleted,
             y.verified /\ ~y.deleted => \E p \in {"signup", "email_change"} : Received(u, p, y.email)
      PROVE  UserOK(u)'
  <2>1. PICK e \in Addresses : e = y.email
    BY Zenon DEF UserRows, Addresses
  <2>2. \A p \in {"signup", "email_change"} : Received(u, p, e) => Received(u, p, e)'
    BY Zenon, <1>a DEF Purposes
  <2>3. y.verified /\ ~y.deleted => \E p \in {"signup", "email_change"} : Received(u, p, users[u].email)'
    BY Zenon, <2>1, <2>2, <1>b DEF Received
  <2> QED
    BY Zenon, <2>3, <1>b DEF UserOK
<1>w. ASSUME NEW u \in Users, NEW y \in UserRows, NEW x \in Held, users' = [users EXCEPT ![u] = y],
             req' = [req EXCEPT ![r] = x], ReqOK(req[r])', UserOK(u)', UsersOnward,
             Exists(u) => y.epoch = users[u].epoch
      PROVE  AccountsInv'
  <2>1. TypeOK' /\ users'[u] = y /\ (\A v \in Users \ {u} : users'[v] = users[v])
                /\ \A s \in Requests \ {r} : req'[s] = req[s]
    BY Zenon, <1>w, <1>0 DEF TypeOK
  <2>2. SessionsOnward
    BY Zenon, <2>1, <1>0, <1>w, EpochStands
  <2>3. Onward
    BY Zenon, <2>2, <1>3, <1>w DEF Onward
  <2>4. \A v \in Users : users'[v] = users[v] \/ UserOK(v)'
    BY Zenon, <2>1, <1>w
  <2> QED
    BY Zenon, <2>1, <2>3, <2>4, <1>0, <1>3, <1>w, OnwardKeeps
<1>g. ASSUME NEW pc \in Places, Goto(r, pc)
      PROVE  \E x \in Held : /\ x = [q EXCEPT !.pc = pc] /\ req' = [req EXCEPT ![r] = x] /\ req'[r] = x
                             /\ x.pc = pc /\ x.kind = q.kind /\ x.u = q.u /\ x.t = q.t
                             /\ x.epoch = q.epoch /\ x.e = q.e /\ x.seen = q.seen
  <2>1. PICK x \in Held : x = [q EXCEPT !.pc = pc]
    BY Zenon DEF Held
  <2>2. req' = [req EXCEPT ![r] = x] /\ req'[r] = x
    BY Zenon, <2>1, <1>0, <1>1, <1>g DEF Goto, TypeOK
  <2> QED
    BY Zenon, <2>1, <2>2 DEF Held
<1>4. CASE rehash_password(r)
  <2>1. q.pc = "rehash" /\ q.kind = "login" /\ q.u \in Users /\ q.p \in Passwords \cup {None}
    BY Zenon, <1>1, <1>2, <1>4 DEF rehash_password, At, ReqOK, KindsAt, Held
  <2>2. PICK pc \in {"open", "issue"} : pc = IF q.seen THEN "open" ELSE "issue"
    BY Zenon
  <2>3. Goto(r, pc) /\ pc \in Places
    BY Zenon, <2>2, <1>1, <1>4 DEF rehash_password, Places
  <2>4. PICK x \in Held : /\ req' = [req EXCEPT ![r] = x] /\ req'[r] = x
                          /\ x.pc = pc /\ x.kind = q.kind /\ x.u = q.u /\ x.epoch = q.epoch
                          /\ x.e = q.e /\ x.seen = q.seen
    BY Zenon, <2>3, <1>g
  <2>5. users[q.u] # NoUser
    BY Zenon, <2>1, <1>2 DEF ReqOK
  <2>6. CASE ~Exists(q.u)
    <3>1. UNCHANGED rows
      BY Zenon, <2>6, <1>0, <1>1, <1>4 DEF rehash_password, rows
    <3>2. ReqOK(x)
      BY Zenon, <2>1, <2>4, <2>5, <2>6 DEF ReqOK, KindsAt, Issuing, Tokenless
    <3> QED
      BY Zenon, <3>1, <3>2, <2>4, QuietStep
  <2>7. CASE Exists(q.u)
    <3>1. PICK u \in Users : u = q.u
      BY Zenon, <2>1
    <3>2. users[u] \in UserRows
      BY Zenon, <2>7, <3>1, <1>0 DEF TypeOK, Exists
    <3>3. q.p \in Passwords
      BY Zenon, <2>1, <1>2 DEF ReqOK
    <3>4. PICK y \in UserRows : y = [users[u] EXCEPT !.pw = q.p, !.old = FALSE]
      BY Zenon, <3>2, <3>3 DEF UserRows
    <3>5. users' = [users EXCEPT ![u] = y]
      BY Zenon, <2>7, <3>1, <3>4, <1>0, <1>1, <1>4 DEF rehash_password, TypeOK
    <3>6. /\ y.epoch = users[u].epoch /\ y.verified = users[u].verified /\ y.deleted = users[u].deleted
          /\ y.email = users[u].email /\ y.epoch \in Nat
      BY Zenon, <3>2, <3>4 DEF UserRows
    <3>c. /\ Exists(u) /\ users[u].epoch <= y.epoch /\ (users[u].verified => y.verified)
          /\ (users[u].deleted => y.deleted) /\ (y.verified \/ y.email = users[u].email)
      BY <2>7, <3>1, <3>6
    <3>7. users'[u] = y /\ y \notin {NoUser, Gone} /\ UsersOnward
      BY Zenon, <3>c, <3>5, <1>0, RowMoves
    <3>a. UserOK(u)
      BY Zenon DEF AccountsInv
    <3>b. /\ y.email = Tombstone => y.deleted
          /\ y.verified /\ ~y.deleted => \E p \in {"signup", "email_change"} : Received(u, p, y.email)
      BY Zenon, <2>7, <3>1, <3>6, <3>a DEF UserOK
    <3>8. UserOK(u)'
      BY Zenon, <3>b, <3>7, <1>b
    <3>9. ReqOK(q) => /\ q.epoch <= y.epoch /\ (q.seen => y.verified) /\ (y.verified \/ q.e = y.email)
      BY Zenon, <2>1, <2>7, <3>1, <3>6 DEF ReqOK
    <3>10. ReqOK(req[r])'
      <4>1. x.kind \in KindsAt(x.pc) /\ x.kind \in Tokenless
        BY Zenon, <2>1, <2>2, <2>4 DEF KindsAt, Issuing, Tokenless
      <4>2. x.pc \in {"open", "issue"} /\ (x.pc = "open" => x.seen)
        BY Zenon, <2>2, <2>4
      <4> QED
        BY Zenon, <2>1, <2>4, <3>1, <3>7, <3>9, <4>1, <4>2, <1>2 DEF ReqOK, Exists
    <3> QED
      BY Zenon, <2>4, <3>5, <3>6, <3>7, <3>8, <3>10, <1>w
  <2> QED
    BY Zenon, <2>6, <2>7
<1>5. CASE mark_email_verified(r)
  <2>1. q.pc = "mark" /\ q.kind = "verify_email" /\ q.u \in Users /\ users[q.u] # NoUser
    BY Zenon, <1>1, <1>2, <1>5 DEF mark_email_verified, At, ReqOK, KindsAt
  <2>2. PICK pc \in Places : pc = "open"
    BY Zenon DEF Places
  <2>3. Goto(r, pc)
    BY Zenon, <2>2, <1>5 DEF mark_email_verified
  <2>4. PICK x \in Held : /\ req' = [req EXCEPT ![r] = x] /\ req'[r] = x
                          /\ x.pc = "open" /\ x.kind = q.kind /\ x.u = q.u /\ x.epoch = q.epoch
    BY Zenon, <2>2, <2>3, <1>g
  <2>5. CASE ~Exists(q.u)
    <3>1. UNCHANGED rows
      BY Zenon, <2>5, <1>0, <1>1, <1>5 DEF mark_email_verified, rows
    <3>2. ReqOK(x)
      BY Zenon, <2>1, <2>4, <2>5 DEF ReqOK, KindsAt, Tokenless
    <3> QED
      BY Zenon, <3>1, <3>2, <2>4, QuietStep
  <2>6. CASE Exists(q.u)
    <3>1. PICK u \in Users : u = q.u
      BY Zenon, <2>1
    <3>2. users[u] \in UserRows
      BY Zenon, <2>6, <3>1, <1>0 DEF TypeOK, Exists
    <3>3. PICK y \in UserRows : y = [users[u] EXCEPT !.verified = TRUE]
      BY Zenon, <3>2 DEF UserRows
    <3>4. users' = [users EXCEPT ![u] = y]
      BY Zenon, <2>6, <3>1, <3>3, <1>0, <1>1, <1>5 DEF mark_email_verified, TypeOK
    <3>5. /\ y.epoch = users[u].epoch /\ y.verified /\ y.deleted = users[u].deleted
          /\ y.email = users[u].email /\ y.epoch \in Nat
      BY Zenon, <3>2, <3>3 DEF UserRows
    <3>c. /\ Exists(u) /\ users[u].epoch <= y.epoch /\ (users[u].verified => y.verified)
          /\ (users[u].deleted => y.deleted) /\ (y.verified \/ y.email = users[u].email)
      BY <2>6, <3>1, <3>5
    <3>6. users'[u] = y /\ y \notin {NoUser, Gone} /\ UsersOnward
      BY Zenon, <3>c, <3>4, <1>0, RowMoves
    <3>7. users[u].verified \/ Received(u, "signup", y.email)
      BY Zenon, <2>1, <2>6, <3>1, <3>5, <1>2 DEF ReqOK
    <3>a. UserOK(u)
      BY Zenon DEF AccountsInv
    <3>8. /\ y.email = Tombstone => y.deleted
          /\ y.verified /\ ~y.deleted => \E p \in {"signup", "email_change"} : Received(u, p, y.email)
      BY Zenon, <2>6, <3>1, <3>5, <3>7, <3>a DEF UserOK
    <3>9. UserOK(u)'
      BY Zenon, <3>6, <3>8, <1>b
    <3>10. q.epoch <= y.epoch
      BY Zenon, <2>1, <2>6, <3>1, <3>5, <1>2 DEF ReqOK
    <3>11. ReqOK(req[r])'
      <4>1. x.kind \in KindsAt("open") /\ x.kind \in Tokenless
        BY Zenon, <2>1, <2>4 DEF KindsAt, Tokenless
      <4>2. x.epoch <= users'[x.u].epoch /\ users'[x.u].verified /\ users'[x.u] # NoUser /\ x.u \in Users
        BY Zenon, <2>4, <3>1, <3>5, <3>6, <3>10
      <4> QED
        BY Zenon, <2>4, <4>1, <4>2 DEF ReqOK
    <3> QED
      BY Zenon, <2>4, <3>4, <3>5, <3>6, <3>9, <3>11, <1>w
  <2> QED
    BY Zenon, <2>5, <2>6
<1>6. CASE update_email(r)
  <2>1. q.pc = "move" /\ q.kind = "confirm_email" /\ q.kind \notin Tokenless /\ q.u \in Users
    BY Zenon, <1>1, <1>2, <1>6 DEF update_email, At, ReqOK, KindsAt, Tokenless
  <2>2. q.e \in Emails /\ Received(q.u, "email_change", q.e) /\ tokens[q.t].user = q.u /\ q.t \in DOMAIN tokens
    BY Zenon, <2>1, <1>2 DEF ReqOK
  <2>3. PICK u \in Users : u = q.u
    BY Zenon, <2>1
  <2>4. Exists(u) /\ users[u].verified /\ users[u] \in UserRows
    BY Zenon, <2>2, <2>3 DEF AccountsInv, TokenOK, TypeOK, Exists
  <2>5. PICK y \in UserRows : y = [users[u] EXCEPT !.email = q.e]
    BY Zenon, <2>2, <2>4 DEF UserRows
  <2>6. users' = [users EXCEPT ![u] = y]
    BY Zenon, <2>3, <2>5, <1>0, <1>1, <1>6 DEF update_email, TypeOK
  <2>7. y.epoch = users[u].epoch /\ y.verified /\ y.deleted = users[u].deleted /\ y.email = q.e /\ y.epoch \in Nat
    BY Zenon, <2>4, <2>5 DEF UserRows
  <2>c. /\ Exists(u) /\ users[u].epoch <= y.epoch /\ (users[u].verified => y.verified)
        /\ (users[u].deleted => y.deleted) /\ (y.verified \/ y.email = users[u].email)
    BY <2>4, <2>7
  <2>8. users'[u] = y /\ y \notin {NoUser, Gone} /\ UsersOnward
    BY Zenon, <2>c, <2>6, <1>0, RowMoves
  <2>a. /\ y.email = Tombstone => y.deleted
        /\ \E p \in {"signup", "email_change"} : Received(u, p, y.email)
    BY Zenon, <2>2, <2>3, <2>7, RowsAssumption
  <2>9. UserOK(u)'
    BY Zenon, <2>a, <2>8, <1>b
  <2>10. PICK x \in Held : x = Done
    BY Zenon, EndsOK
  <2>11. req' = [req EXCEPT ![r] = x] /\ req'[r].pc = "done"
    BY Zenon, <2>10, <1>0, <1>6, EndsOK DEF update_email, Finish, TypeOK
  <2>12. ReqOK(req[r])'
    BY Zenon, <2>11 DEF ReqOK
  <2> QED
    BY Zenon, <2>6, <2>7, <2>8, <2>9, <2>11, <2>12, <1>w
<1>7. CASE signup(r)
  <2>1. PICK e \in Emails, p \in Passwords, u \in Users :
            /\ IF UserAt(e) = {} THEN users[u] = NoUser ELSE u \in UserAt(e)
            /\ users' = IF UserAt(e) = {} THEN [users EXCEPT ![u] = User(e, p, FALSE)] ELSE users
            /\ req' = [req EXCEPT ![r] = [Unstarted EXCEPT !.kind = "signup", !.pc = "issue", !.u = u,
                                             !.e = e, !.seen = (UserAt(e) = {})]]
    BY Zenon, <1>7 DEF signup
  <2>2. PICK seen \in BOOLEAN : seen = (UserAt(e) = {})
    BY Zenon
  <2>3. "signup" \in Kinds /\ "issue" \in Places /\ e \in Addresses
    BY Zenon DEF Kinds, Tokenless, Places, Addresses
  <2>4. PICK x \in Held : x = [Unstarted EXCEPT !.kind = "signup", !.pc = "issue", !.u = u, !.e = e, !.seen = seen]
    BY Zenon, <2>3, EndsOK DEF Held
  <2>5. req' = [req EXCEPT ![r] = x] /\ req'[r] = x
    BY Zenon, <2>1, <2>2, <2>4, <1>0 DEF TypeOK
  <2>6. x.kind = "signup" /\ x.pc = "issue" /\ x.u = u /\ x.e = e /\ x.epoch = 0
    BY Zenon, <2>4, EndsOK DEF Held
  <2>7. CASE UserAt(e) # {}
    <3>1. UNCHANGED rows /\ Exists(u) /\ users[u].email = e
      BY Zenon, <2>1, <2>7, <1>0 DEF rows, UserAt
    <3>2. users[u].epoch \in Nat /\ users[u] # NoUser
      BY Zenon, <3>1, <1>0 DEF TypeOK, UserRows, Exists
    <3>3. ReqOK(x)
      BY <2>6, <3>1, <3>2 DEF ReqOK, KindsAt, Issuing, Tokenless
    <3> QED
      BY Zenon, <3>1, <3>3, <2>5, QuietStep
  <2>8. CASE UserAt(e) = {}
    <3>1. PICK y \in UserRows : y = User(e, p, FALSE)
      BY Zenon DEF UserRows, User
    <3>2. users' = [users EXCEPT ![u] = y] /\ users'[u] = y /\ users[u] = NoUser
      BY Zenon, <2>1, <2>8, <3>1, <1>0 DEF TypeOK
    <3>3. y.email = e /\ ~y.verified /\ ~y.deleted /\ y.epoch = 0 /\ y \notin {NoUser, Gone}
      BY Zenon, <3>1, RowsAssumption DEF User
    <3>4. \A v \in Users : Exists(v) => v # u /\ users'[v] = users[v] /\ users[v].epoch \in Nat
      BY Zenon, <3>2, <1>0 DEF TypeOK, UserRows, Exists
    <3>5. \A v \in Users \ {u} : users'[v] = users[v]
      BY Zenon, <3>2, <1>0 DEF TypeOK
    <3>6. UsersOnward
      BY <3>2, <3>3, <3>4, <3>5 DEF UsersOnward, Exists
    <3>7. UserOK(u)'
      BY Zenon, <3>2, <3>3, RowsAssumption DEF UserOK
    <3>8. ReqOK(req[r])'
      <4>1. x.kind \in KindsAt(x.pc) /\ x.kind \in Tokenless
        BY Zenon, <2>6 DEF KindsAt, Issuing, Tokenless
      <4>2. x.epoch <= y.epoch
        BY <2>6, <3>3
      <4> QED
        BY Zenon, <2>5, <2>6, <3>2, <3>3, <4>1, <4>2 DEF ReqOK, Exists
    <3> QED
      BY Zenon, <2>5, <3>2, <3>4, <3>6, <3>7, <3>8, <1>w
  <2> QED
    BY Zenon, <2>7, <2>8
<1> QED
  BY Zenon, <1>4, <1>5, <1>6, <1>7

(* A row more at the end of a table.                                       *)
LEMMA Grown ==
    ASSUME NEW S, NEW s \in Seq(S), NEW y \in S
    PROVE  /\ Append(s, y) \in Seq(S)
           /\ \A i \in DOMAIN s : i \in DOMAIN Append(s, y) /\ Append(s, y)[i] = s[i]
           /\ Len(s) + 1 \in Nat \ {0} /\ Len(s) + 1 \in DOMAIN Append(s, y) /\ Append(s, y)[Len(s) + 1] = y
           /\ \A i \in DOMAIN Append(s, y) : i \in DOMAIN s \/ i = Len(s) + 1
OBVIOUS

(* A row of a table replaced by another.                                   *)
LEMMA Replaced ==
    ASSUME NEW S, NEW s \in Seq(S), NEW y \in S, NEW n \in DOMAIN s
    PROVE  [s EXCEPT ![n] = y] \in Seq(S)
<1>1. s \in [1 .. Len(s) -> S] /\ Len(s) \in Nat
  OBVIOUS
<1>2. [s EXCEPT ![n] = y] \in [1 .. Len(s) -> S]
  BY Zenon, <1>1
<1> QED
  BY <1>1, <1>2

(* The rows of sessions that are marked revoked.                           *)
LEMMA Marked ==
    ASSUME TypeOK, NEW ids
    PROVE  /\ Revoked(ids) \in Seq(SessionRows) /\ DOMAIN Revoked(ids) = DOMAIN sessions
           /\ \A s \in DOMAIN sessions :
                /\ Revoked(ids)[s].user = sessions[s].user /\ Revoked(ids)[s].loose = sessions[s].loose
                /\ Revoked(ids)[s].basis = sessions[s].basis
                /\ Revoked(ids)[s].live => sessions[s].live /\ s \notin ids
<1>1. /\ sessions \in [1 .. Len(sessions) -> SessionRows] /\ Len(sessions) \in Nat
      /\ DOMAIN sessions = 1 .. Len(sessions)
  BY DEF TypeOK
<1>2. ASSUME NEW s \in DOMAIN sessions
      PROVE  /\ Revoked(ids)[s] \in SessionRows
             /\ Revoked(ids)[s].user = sessions[s].user /\ Revoked(ids)[s].loose = sessions[s].loose
             /\ Revoked(ids)[s].basis = sessions[s].basis
             /\ Revoked(ids)[s].live => sessions[s].live /\ s \notin ids
  <2>1. sessions[s] \in SessionRows
    BY Zenon, <1>1
  <2>2. CASE s \in ids
    <3>1. PICK y \in SessionRows : y = [sessions[s] EXCEPT !.live = FALSE]
      BY Zenon, <2>1 DEF SessionRows
    <3>2. /\ y.user = sessions[s].user /\ y.loose = sessions[s].loose /\ y.basis = sessions[s].basis
          /\ ~y.live
      BY Zenon, <2>1, <3>1 DEF SessionRows
    <3>3. Revoked(ids)[s] = y
      BY Zenon, <2>2, <3>1 DEF Revoked
    <3> QED
      BY Zenon, <3>2, <3>3
  <2>3. CASE s \notin ids
    <3>1. Revoked(ids)[s] = sessions[s]
      BY Zenon, <2>3 DEF Revoked
    <3> QED
      BY Zenon, <2>1, <2>3, <3>1
  <2> QED
    BY Zenon, <2>2, <2>3
<1>3. DOMAIN Revoked(ids) = DOMAIN sessions
  BY Zenon DEF Revoked
<1>4. Revoked(ids) \in [1 .. Len(sessions) -> SessionRows]
  BY Zenon, <1>1, <1>2 DEF Revoked
<1>5. Revoked(ids) \in Seq(SessionRows)
  BY <1>1, <1>4
<1> QED
  BY Zenon, <1>2, <1>3, <1>5

(* The steps that open, extend or end a session: open_session,             *)
(* continue_session and mark_revoked.                                      *)
LEMMA SessionWrites ==
    ASSUME AccountsInv, NEW r \in Requests, open_session(r) \/ continue_session(r) \/ mark_revoked(r)
    PROVE  AccountsInv'
<1>0. TypeOK /\ UNCHANGED <<users, denied, codes, wallets, keys>> /\ Finish(r)
  BY Zenon DEF AccountsInv, open_session, continue_session, mark_revoked
<1>1. PICK q \in Held : q = req[r]
  BY Zenon, <1>0 DEF TypeOK
<1>2. ReqOK(q) /\ q.epoch \in Nat
  BY Zenon, <1>1 DEF AccountsInv, Held
<1>3. /\ req' \in [Requests -> Held] /\ req'[r].pc = "done"
      /\ \A s \in Requests \ {r} : req'[s] = req[s]
  BY Zenon, <1>0, EndsOK DEF Finish, TypeOK
<1>4. UsersOnward /\ CodesOnward /\ \A u \in Users, p \in Purposes : \A i \in DOMAIN codes'[u][p] : SameCode(u, p, i)
  BY Zenon, <1>0, Unmoved DEF SameCode
<1>w. ASSUME sessions' \in Seq(SessionRows), tokens' \in Seq(TokenRows), SessionsOnward,
             \A t \in DOMAIN tokens : t \in DOMAIN tokens' /\ tokens'[t] = tokens[t],
             \A t \in DOMAIN tokens' : t \in DOMAIN tokens \/ TokenOK(t)'
      PROVE  AccountsInv'
  <2>1. TypeOK'
    BY Zenon, <1>0, <1>3, <1>w DEF TypeOK
  <2>2. Onward
    BY Zenon, <1>0, <1>4, <1>w DEF Onward, TokensOnward
  <2>3. ReqOK(req[r])'
    BY Zenon, <1>3 DEF ReqOK
  <2>4. \A u \in Users : users'[u] = users[u]
    BY Zenon, <1>0
  <2> QED
    BY Zenon, <2>1, <2>2, <2>3, <2>4, <1>3, <1>4, <1>w, OnwardKeeps
(* A session is opened together with its first token.                      *)
<1>s. ASSUME NEW basis \in Nat, NEW adopted \in BOOLEAN, q.u \in Users, start_session(r, basis, adopted),
             Exists(q.u) => users[q.u].verified /\ q.epoch <= users[q.u].epoch,
             adopted \/ basis = q.epoch
      PROVE  AccountsInv'
  <2>1. CASE ~Exists(q.u)
    <3>1. UNCHANGED <<sessions, tokens>>
      BY Zenon, <2>1, <1>1, <1>s DEF start_session
    <3>2. SessionsOnward
      BY Zenon, <3>1, <1>0, Unmoved
    <3> QED
      BY Zenon, <3>1, <3>2, <1>0, <1>w DEF TypeOK
  <2>2. CASE Exists(q.u)
    <3>1. PICK n \in Nat \ {0} : n = Len(sessions) + 1
      BY <1>0 DEF TypeOK
    <3>a. PICK loose \in BOOLEAN : loose = (adopted \/ Locked(q.u))
      BY Zenon
    <3>2. PICK y \in SessionRows : y = Session(q.u, basis, loose)
      BY Zenon, <1>s DEF SessionRows, Session
    <3>3. PICK k \in TokenRows : k = Token(q.u, q.epoch, n)
      BY Zenon, <1>2, <1>s DEF TokenRows, Token
    <3>4. y.user = q.u /\ y.live /\ y.basis = basis /\ y.loose = loose
      BY Zenon, <3>2 DEF Session
    <3>5. k.user = q.u /\ k.epoch = q.epoch /\ k.sid = n
      BY Zenon, <3>3 DEF Token
    <3>6. sessions' = Append(sessions, y) /\ tokens' = Append(tokens, k)
      BY Zenon, <2>2, <3>1, <3>a, <3>2, <3>3, <1>1, <1>s DEF start_session
    <3>7. /\ sessions' \in Seq(SessionRows) /\ n \in DOMAIN sessions' /\ sessions'[n] = y
          /\ \A s \in DOMAIN sessions : s \in DOMAIN sessions' /\ sessions'[s] = sessions[s]
          /\ \A s \in DOMAIN sessions' : s \in DOMAIN sessions \/ sessions'[s] = y
      BY <3>1, <3>6, <1>0, Grown DEF TypeOK
    <3>8. /\ tokens' \in Seq(TokenRows)
          /\ \A t \in DOMAIN tokens : t \in DOMAIN tokens' /\ tokens'[t] = tokens[t]
          /\ \A t \in DOMAIN tokens' : t \in DOMAIN tokens \/ tokens'[t] = k
      BY <3>6, <1>0, Grown DEF TypeOK
    <3>9. SessionsOnward
      BY Zenon, <3>a, <3>4, <3>7, <1>0 DEF SessionsOnward
    <3>10. ASSUME NEW t \in DOMAIN tokens', tokens'[t] = k PROVE TokenOK(t)'
      <4>1. Exists(q.u)' /\ users'[q.u].verified /\ q.epoch <= users'[q.u].epoch
        BY Zenon, <2>2, <1>0, <1>s DEF Exists
      <4>2. is_session_valid(t)' => Current(tokens[t])'
        BY Zenon, <3>a, <3>4, <3>5, <3>7, <3>10, <1>s DEF is_session_valid, Current
      <4> QED
        BY Zenon, <4>1, <4>2, <3>4, <3>5, <3>7, <3>10 DEF TokenOK, Exists
    <3> QED
      BY Zenon, <3>7, <3>8, <3>9, <3>10, <1>w
  <2> QED
    BY Zenon, <2>1, <2>2
<1>5. CASE open_session(r)
  <2>1. q.pc = "open" /\ q.u \in Users
    BY Zenon, <1>1, <1>2, <1>5 DEF open_session, At, ReqOK
  <2>2. Exists(q.u) => users[q.u].verified /\ q.epoch <= users[q.u].epoch
    BY Zenon, <2>1, <1>2 DEF ReqOK
  <2>3. PICK adopted \in BOOLEAN : adopted = FALSE
    BY Zenon
  <2>4. start_session(r, q.epoch, adopted)
    BY Zenon, <2>3, <1>1, <1>5 DEF open_session
  <2> QED
    BY Zenon, <2>1, <2>2, <2>4, <1>2, <1>s
<1>6. CASE continue_session(r)
  <2>1. q.pc = "continue" /\ q.kind \notin Tokenless \cup {"logout"}
    BY Zenon, <1>1, <1>2, <1>6 DEF continue_session, At, ReqOK, KindsAt, Tokenless
  <2>2. q.u \in Users /\ q.t \in DOMAIN tokens /\ tokens[q.t].user = q.u /\ Current(tokens[q.t])
    BY Zenon, <2>1, <1>2 DEF ReqOK
  <2>3. TokenOK(q.t) /\ tokens[q.t] \in TokenRows
    BY <2>2 DEF AccountsInv, TypeOK
  <2>4. Exists(q.u) /\ users[q.u].verified
    BY Zenon, <2>2, <2>3 DEF TokenOK
  <2>5. q.epoch <= users[q.u].epoch
    BY Zenon, <2>1, <2>4, <1>2 DEF ReqOK
  <2>6. PICK n \in Nat : n = tokens[q.t].sid
    BY Zenon, <2>3 DEF TokenRows
  <2>7. CASE n = 0
    <3>1. PICK basis \in Nat : basis = tokens[q.t].epoch
      BY Zenon, <2>3 DEF TokenRows
    <3>2. PICK adopted \in BOOLEAN : adopted = TRUE
      BY Zenon
    <3>3. start_session(r, basis, adopted)
      BY Zenon, <2>6, <2>7, <3>1, <3>2, <1>1, <1>6 DEF continue_session
    <3> QED
      BY Zenon, <2>2, <2>4, <2>5, <3>2, <3>3, <1>s
  <2>8. CASE n # 0
    <3>1. UNCHANGED sessions /\ sessions' \in Seq(SessionRows)
      BY Zenon, <2>6, <2>8, <1>0, <1>1, <1>6 DEF continue_session, TypeOK
    <3>2. SessionsOnward
      BY Zenon, <3>1, <1>0, Unmoved
    <3>3. CASE ~extend_session(q.u, n)
      <4>1. UNCHANGED tokens
        BY Zenon, <2>6, <2>8, <3>3, <1>1, <1>6 DEF continue_session
      <4> QED
        BY Zenon, <4>1, <3>1, <3>2, <1>0, <1>w DEF TypeOK
    <3>4. CASE extend_session(q.u, n)
      <4>1. PICK k \in TokenRows : k = Token(q.u, q.epoch, n)
        BY Zenon, <2>2, <1>2 DEF TokenRows, Token
      <4>2. k.user = q.u /\ k.epoch = q.epoch /\ k.sid = n
        BY Zenon, <4>1 DEF Token
      <4>3. tokens' = Append(tokens, k)
        BY Zenon, <2>6, <2>8, <3>4, <4>1, <1>1, <1>6 DEF continue_session
      <4>4. /\ tokens' \in Seq(TokenRows)
            /\ \A t \in DOMAIN tokens : t \in DOMAIN tokens' /\ tokens'[t] = tokens[t]
            /\ \A t \in DOMAIN tokens' : t \in DOMAIN tokens \/ tokens'[t] = k
        BY <4>3, <1>0, Grown DEF TypeOK
      <4>5. /\ n \in DOMAIN sessions /\ sessions[n].user = q.u
            /\ sessions[n].live /\ ~sessions[n].loose => sessions[n].basis = users[q.u].epoch
        BY Zenon, <2>2, <2>3, <2>6, <2>8 DEF TokenOK, Current
      <4>6. ASSUME NEW t \in DOMAIN tokens', tokens'[t] = k PROVE TokenOK(t)'
        <5>1. Exists(q.u)' /\ users'[q.u].verified /\ q.epoch <= users'[q.u].epoch
          BY Zenon, <2>4, <2>5, <1>0 DEF Exists
        <5>2. Current(tokens[t])'
          BY Zenon, <4>2, <4>5, <4>6, <3>1, <1>0 DEF Current
        <5> QED
          BY Zenon, <5>1, <5>2, <4>2, <4>5, <4>6, <3>1 DEF TokenOK, Exists
      <4> QED
        BY Zenon, <4>4, <4>6, <3>1, <3>2, <1>w
    <3> QED
      BY Zenon, <3>3, <3>4
  <2> QED
    BY Zenon, <2>7, <2>8
<1>7. CASE mark_revoked(r)
  <2>1. PICK s : sessions' = Revoked({s})
    BY Zenon, <1>7 DEF mark_revoked
  <2>2. UNCHANGED tokens /\ tokens' \in Seq(TokenRows)
    BY Zenon, <1>0, <1>7 DEF mark_revoked, TypeOK
  <2>3. /\ sessions' \in Seq(SessionRows) /\ DOMAIN sessions' = DOMAIN sessions
        /\ \A v \in DOMAIN sessions :
             /\ sessions'[v].user = sessions[v].user /\ sessions'[v].loose = sessions[v].loose
             /\ sessions'[v].basis = sessions[v].basis /\ (sessions'[v].live => sessions[v].live)
    BY <2>1, <1>0, Marked
  <2>4. SessionsOnward
    BY Zenon, <2>3, <1>0 DEF SessionsOnward
  <2> QED
    BY Zenon, <2>2, <2>3, <2>4, <1>w
<1> QED
  BY Zenon, <1>5, <1>6, <1>7

(* The steps that write the denylist, a wallet or a key.                   *)
LEMMA OtherWrites ==
    ASSUME AccountsInv, NEW r \in Requests, denylist(r) \/ insert_wallet(r) \/ store_key(r)
    PROVE  AccountsInv'
<1>0. TypeOK /\ UNCHANGED <<users, sessions, tokens, codes>>
  BY Zenon DEF AccountsInv, denylist, insert_wallet, store_key
<1>1. PICK q \in Held : q = req[r]
  BY Zenon, <1>0 DEF TypeOK
<1>2. ReqOK(q)
  BY Zenon, <1>1 DEF AccountsInv
<1>3. CASE denylist(r)
  <2>1. q.pc = "deny" /\ q.kind \in {"refresh", "logout"}
    BY Zenon, <1>1, <1>2, <1>3 DEF denylist, At, ReqOK, KindsAt
  <2>2. PICK pc \in {"continue", "revoke"} : pc = IF q.kind = "refresh" THEN "continue" ELSE "revoke"
    BY Zenon
  <2>3. PICK x \in Held : x = [q EXCEPT !.pc = pc]
    BY Zenon DEF Held, Places
  <2>4. req' = [req EXCEPT ![r] = x]
    BY Zenon, <2>2, <2>3, <1>0, <1>1, <1>3 DEF denylist, Goto, TypeOK
  <2>5. x.pc = pc /\ x.kind = q.kind /\ x.u = q.u /\ x.t = q.t /\ x.epoch = q.epoch
    BY Zenon, <2>3 DEF Held
  <2>6. ReqOK(x)
    BY <2>1, <2>2, <2>5, <1>2 DEF ReqOK, KindsAt, Tokenless
  <2>7. denied \subseteq denied' /\ wallets' \in Seq(WalletRows)
    BY Zenon, <1>0, <1>3 DEF denylist, TypeOK
  <2> QED
    BY Zenon, <2>4, <2>6, <2>7, <1>0, QuietWrite
<1>4. CASE insert_wallet(r) \/ store_key(r)
  <2>1. PICK x \in Held : x = Done
    BY Zenon, EndsOK
  <2>2. req' = [req EXCEPT ![r] = x] /\ ReqOK(x)
    BY Zenon, <2>1, <1>4, EndsOK DEF insert_wallet, store_key, Finish, ReqOK
  <2>3. CASE insert_wallet(r)
    <3>1. q.u \in Users /\ UNCHANGED denied
      BY Zenon, <2>3, <1>1, <1>2 DEF insert_wallet, At, ReqOK
    <3>2. PICK y \in WalletRows : y = [owner |-> q.u, archived |-> FALSE]
      BY Zenon, <3>1 DEF WalletRows
    <3>3. wallets' \in Seq(WalletRows)
      BY <2>3, <3>2, <1>0, <1>1, Grown DEF insert_wallet, TypeOK
    <3> QED
      BY Zenon, <2>2, <3>1, <3>3, <1>0, QuietWrite
  <2>4. CASE store_key(r)
    <3>1. UNCHANGED denied /\ wallets' \in Seq(WalletRows)
      BY Zenon, <2>4, <1>0 DEF store_key, TypeOK
    <3> QED
      BY Zenon, <2>2, <3>1, <1>0, QuietWrite
  <2> QED
    BY Zenon, <1>4, <2>3, <2>4
<1> QED
  BY Zenon, <1>3, <1>4

(* The epoch of a user moves on, and with it the basis of the sessions     *)
(* that stay alive, other than loose ones.                                 *)
LEMMA EpochMovesOn ==
    ASSUME TypeOK, NEW u \in Users, \A v \in Users \ {u} : users'[v] = users[v],
           DOMAIN sessions' = DOMAIN sessions,
           \A s \in DOMAIN sessions :
               /\ sessions'[s].user = sessions[s].user /\ sessions'[s].loose = sessions[s].loose
               /\ sessions'[s].live => sessions[s].live
               /\ sessions[s].user # u => sessions'[s].basis = sessions[s].basis
               /\ sessions[s].user = u /\ sessions'[s].live /\ ~sessions[s].loose
                     => sessions'[s].basis = users'[u].epoch
    PROVE  SessionsOnward
<1>1. \A s \in DOMAIN sessions : sessions[s] \in SessionRows
  BY DEF TypeOK
<1>2. \A s \in DOMAIN sessions : sessions[s].user \in Users
  BY Zenon, <1>1 DEF SessionRows
<1> QED
  BY <1>2 DEF SessionsOnward

(* The codes of a user are deleted (delete_account, a signup rolled back). *)
LEMMA CodesGone ==
    ASSUME TypeOK, NEW u \in Users, delete_codes(u)
    PROVE  /\ codes' \in [Users -> [Purposes -> Seq(CodeRows)]] /\ CodesOnward
           /\ \A v \in Users, p \in Purposes : \A i \in DOMAIN codes'[v][p] : SameCode(v, p, i)
<1>0. CodesTyped
  BY Zenon, CodeAt
<1>1. ASSUME NEW v \in Users \ {u} PROVE codes'[v] = codes[v]
  BY Zenon DEF delete_codes, TypeOK
<1>2. codes'[u] = [p \in Purposes |-> [i \in DOMAIN codes[u][p] |-> [codes[u][p][i] EXCEPT !.gone = TRUE]]]
  BY Zenon DEF delete_codes, TypeOK
<1>3. ASSUME NEW p \in Purposes
      PROVE  /\ codes'[u][p] \in Seq(CodeRows) /\ DOMAIN codes'[u][p] = DOMAIN codes[u][p]
             /\ \A i \in DOMAIN codes[u][p] : SameCode(u, p, i)
  <2>1. PICK c \in Seq(CodeRows) : c = codes[u][p]
    BY Zenon, <1>0 DEF CodesTyped
  <2>2. codes'[u][p] = [i \in DOMAIN c |-> [c[i] EXCEPT !.gone = TRUE]]
    BY <2>1, <1>2
  <2>3. ASSUME NEW i \in DOMAIN c
        PROVE  /\ codes'[u][p][i] \in CodeRows
               /\ codes'[u][p][i].to = c[i].to /\ codes'[u][p][i].bound = c[i].bound
               /\ codes'[u][p][i].tries = c[i].tries /\ codes'[u][p][i].uses = c[i].uses
    <3>1. c[i] \in CodeRows /\ codes'[u][p][i] = [c[i] EXCEPT !.gone = TRUE]
      BY <2>2
    <3> QED
      BY Zenon, <3>1 DEF CodeRows
  <2>4. DOMAIN c = 1 .. Len(c) /\ Len(c) \in Nat
    OBVIOUS
  <2>5. codes'[u][p] \in [1 .. Len(c) -> CodeRows]
    BY Zenon, <2>2, <2>3, <2>4
  <2>6. codes'[u][p] \in Seq(CodeRows)
    BY <2>4, <2>5
  <2> QED
    BY Zenon, <2>1, <2>2, <2>3, <2>6 DEF SameCode
<1>4. codes'[u] \in [Purposes -> Seq(CodeRows)]
  BY Zenon, <1>2, <1>3
<1>5. codes' \in [Users -> [Purposes -> Seq(CodeRows)]]
  BY Zenon, <1>1, <1>4 DEF delete_codes, TypeOK
<1>6. ASSUME NEW v \in Users, NEW p \in Purposes
      PROVE  DOMAIN codes'[v][p] = DOMAIN codes[v][p] /\ \A i \in DOMAIN codes[v][p] : SameCode(v, p, i)
  <2>1. CASE v = u
    BY Zenon, <2>1, <1>3
  <2>2. CASE v # u
    BY Zenon, <2>2, <1>1 DEF SameCode
  <2> QED
    BY Zenon, <2>1, <2>2
<1>7. \A v \in Users, p \in Purposes : \A i \in DOMAIN codes[v][p] :
          codes[v][p][i].tries \in Nat /\ codes[v][p][i].uses \in Nat
  BY Zenon, <1>0 DEF CodesTyped, CodeRows
<1>8. CodesOnward
  BY <1>6, <1>7 DEF CodesOnward, SameCode
<1> QED
  BY Zenon, <1>5, <1>6, <1>8

(* The statements of a new epoch: the sessions that are to end are found.  *)
LEMMA EpochApplied ==
    ASSUME AccountsInv, NEW r \in Requests, apply_epoch(r)
    PROVE  AccountsInv'
<1>0. TypeOK /\ UNCHANGED rows
  BY Zenon DEF AccountsInv, apply_epoch
<1>1. PICK q \in Held : q = req[r]
  BY Zenon, <1>0 DEF TypeOK
<1>2. /\ q.pc = "apply" /\ q.kind \in {"change_password", "revoke_others", "confirm_reset"}
      /\ ReqOK(q) /\ q.u \in Users /\ Exists(q.u)
  BY Zenon, <1>1 DEF AccountsInv, apply_epoch, At, ReqOK, KindsAt
<1>3. PICK ids \in SUBSET Nat : ids = revoke_sessions_except(q.u, Kept(q))
  <2>1. DOMAIN sessions \subseteq Nat
    BY <1>0 DEF TypeOK
  <2> QED
    BY Zenon, <2>1 DEF revoke_sessions_except
<1>4. PICK x \in Held : x = [q EXCEPT !.pc = "commit", !.checked = ids]
  BY Zenon DEF Held, Places
<1>5. req' = [req EXCEPT ![r] = x]
  BY Zenon, <1>0, <1>1, <1>3, <1>4 DEF apply_epoch, TypeOK
<1>6. x.pc = "commit" /\ x.kind = q.kind /\ x.u = q.u /\ x.t = q.t /\ x.epoch = q.epoch /\ x.checked = ids
  BY Zenon, <1>4 DEF Held
<1>7. Found(x)
  BY <1>3, <1>6 DEF Found, Kept, revoke_sessions_except
<1>8. x.kind \in KindsAt(x.pc)
  BY Zenon, <1>2, <1>6 DEF KindsAt
<1>9. users[x.u] # NoUser /\ x.epoch <= users[x.u].epoch
  BY Zenon, <1>2, <1>6 DEF ReqOK, Exists
<1>10. /\ x.kind \notin Tokenless => x.t \in DOMAIN tokens /\ tokens[x.t].user = x.u
       /\ x.kind \notin Tokenless \cup {"logout"} => Current(tokens[x.t])
  BY Zenon, <1>2, <1>6 DEF ReqOK
<1>11. ReqOK(x)
  BY Zenon, <1>2, <1>6, <1>7, <1>8, <1>9, <1>10 DEF ReqOK
<1> QED
  BY Zenon, <1>0, <1>5, <1>11, QuietStep

(* The commit of change_password, reset_password and revoke_other_sessions:*)
(* the epoch moves, and the sessions that were found end.                  *)
LEMMA EpochMoves ==
    ASSUME AccountsInv, NEW r \in Requests, commit_epoch(r)
    PROVE  AccountsInv'
<1>0. TypeOK /\ UNCHANGED <<tokens, denied, codes, wallets, keys>>
  BY Zenon DEF AccountsInv, commit_epoch
<1>1. PICK q \in Held : q = req[r]
  BY Zenon, <1>0 DEF TypeOK
<1>2. PICK p \in Passwords \cup {None} :
          /\ users' = [users EXCEPT ![q.u].epoch = users[q.u].epoch + 1,
                                    ![q.u].pw = IF p = None THEN @ ELSE p,
                                    ![q.u].old = IF p = None THEN @ ELSE FALSE]
          /\ sessions' = [s \in DOMAIN sessions |-> IF s = Kept(q)
                            THEN [sessions[s] EXCEPT !.basis = users[q.u].epoch + 1]
                            ELSE Revoked(q.checked)[s]]
          /\ req' = [req EXCEPT ![r] = IF q.kind = "confirm_reset" THEN Done
                 ELSE [q EXCEPT !.pc = "continue", !.p = None, !.epoch = users[q.u].epoch + 1, !.checked = {}]]
  BY Zenon, <1>1 DEF commit_epoch
<1>3. /\ q.pc = "commit" /\ q.kind \in {"change_password", "revoke_others", "confirm_reset"}
      /\ ReqOK(q) /\ q.u \in Users /\ Exists(q.u) /\ Found(q)
  BY Zenon, <1>1 DEF AccountsInv, commit_epoch, At, ReqOK, KindsAt
<1>4. PICK u \in Users : u = q.u
  BY Zenon, <1>3
<1>5. users[u] \in UserRows /\ UserOK(u)
  BY Zenon, <1>0, <1>3, <1>4 DEF TypeOK, Exists, AccountsInv
<1>6. PICK n \in Nat : n = users[u].epoch + 1
  BY <1>5 DEF UserRows
<1>7. PICK pw \in Passwords \cup {Scrubbed} : pw = IF p = None THEN users[u].pw ELSE p
  BY Zenon, <1>5 DEF UserRows
<1>8. PICK old \in BOOLEAN : old = IF p = None THEN users[u].old ELSE FALSE
  BY Zenon, <1>5 DEF UserRows
<1>9. PICK y \in UserRows : y = [users[u] EXCEPT !.epoch = n, !.pw = pw, !.old = old]
  BY Zenon, <1>5 DEF UserRows
<1>10. users' = [users EXCEPT ![u] = y]
  BY Zenon, <1>0, <1>2, <1>4, <1>5, <1>6, <1>7, <1>8, <1>9 DEF TypeOK
<1>11. /\ y.epoch = n /\ y.verified = users[u].verified /\ y.deleted = users[u].deleted
       /\ y.email = users[u].email
  BY Zenon, <1>5, <1>9 DEF UserRows
<1>12. /\ Exists(u) /\ users[u].epoch <= y.epoch /\ (users[u].verified => y.verified)
       /\ (users[u].deleted => y.deleted) /\ (y.verified \/ y.email = users[u].email)
  <2>1. users[u].epoch \in Nat
    BY Zenon, <1>5 DEF UserRows
  <2> QED
    BY <2>1, <1>3, <1>4, <1>6, <1>11
<1>13. /\ users' \in [Users -> UserRows \cup {NoUser, Gone}]
       /\ users'[u] = y /\ y \notin {NoUser, Gone} /\ UsersOnward
       /\ \A v \in Users \ {u} : users'[v] = users[v]
  BY Zenon, <1>0, <1>10, <1>12, RowMoves
<1>14. UserOK(u)'
  <2>1. PICK e : e = users[u].email
    BY Zenon
  <2>2. \A k \in {"signup", "email_change"} : Received(u, k, e) => Received(u, k, e)'
    BY Zenon, <1>0 DEF Received
  <2>3. y.email = Tombstone => y.deleted
    BY Zenon, <1>3, <1>4, <1>5, <1>11 DEF UserOK
  <2>4. y.verified /\ ~y.deleted => \E k \in {"signup", "email_change"} : Received(u, k, e)
    BY Zenon, <2>1, <1>3, <1>4, <1>5, <1>11 DEF UserOK
  <2>5. y.verified /\ ~y.deleted => \E k \in {"signup", "email_change"} : Received(u, k, users[u].email)'
    BY <2>1, <2>2, <2>4, <1>11, <1>13 DEF Received
  <2> QED
    BY Zenon, <2>3, <2>5, <1>13 DEF UserOK
<1>15. ASSUME q.kind # "confirm_reset"
       PROVE  /\ q.kind \notin Tokenless /\ q.t \in DOMAIN tokens /\ tokens[q.t].user = u
              /\ tokens[q.t] \in TokenRows /\ TokenOK(q.t) /\ Current(tokens[q.t])
  <2>1. q.kind \notin Tokenless \cup {"logout"}
    BY Zenon, <1>3, <1>15 DEF Tokenless
  <2>2. q.t \in DOMAIN tokens /\ tokens[q.t].user = u /\ Current(tokens[q.t])
    BY Zenon, <2>1, <1>3, <1>4 DEF ReqOK
  <2> QED
    BY <2>1, <2>2 DEF AccountsInv, TypeOK
<1>16. PICK keep \in Nat : keep = Kept(q)
  BY Zenon, <1>15 DEF TokenRows, Kept
<1>k. ASSUME keep \in DOMAIN sessions PROVE sessions[keep].user = u
  <2>1. 0 \notin DOMAIN sessions
    BY <1>0 DEF TypeOK
  <2>2. q.kind # "confirm_reset" /\ keep = tokens[q.t].sid /\ keep # 0
    BY Zenon, <2>1, <1>16, <1>k DEF Kept
  <2> QED
    BY Zenon, <2>2, <1>15 DEF TokenOK
<1>17. ASSUME NEW s \in DOMAIN sessions
       PROVE  /\ sessions'[s] \in SessionRows
              /\ sessions'[s].user = sessions[s].user /\ sessions'[s].loose = sessions[s].loose
              /\ sessions'[s].live => sessions[s].live
              /\ s = keep => sessions'[s].basis = n
              /\ sessions[s].user # u => sessions'[s].basis = sessions[s].basis
              /\ sessions[s].user = u /\ sessions'[s].live /\ ~sessions[s].loose
                     => sessions'[s].basis = users'[u].epoch
  <2>1. sessions[s] \in SessionRows
    BY <1>0 DEF TypeOK
  <2>2. CASE s = keep
    <3>1. PICK z \in SessionRows : z = [sessions[s] EXCEPT !.basis = n]
      BY Zenon, <2>1 DEF SessionRows
    <3>2. sessions'[s] = z
      BY Zenon, <2>2, <3>1, <1>2, <1>4, <1>6, <1>16
    <3>3. z.user = sessions[s].user /\ z.loose = sessions[s].loose /\ z.live = sessions[s].live /\ z.basis = n
      BY Zenon, <2>1, <3>1 DEF SessionRows
    <3> QED
      BY Zenon, <2>2, <3>2, <3>3, <1>k, <1>11, <1>13
  <2>3. CASE s # keep
    <3>1. PICK ids : ids = q.checked
      BY Zenon
    <3>2. sessions'[s] = Revoked(ids)[s]
      BY Zenon, <2>3, <3>1, <1>2, <1>16
    <3>3. /\ Revoked(ids) \in Seq(SessionRows) /\ s \in DOMAIN Revoked(ids)
          /\ Revoked(ids)[s].user = sessions[s].user /\ Revoked(ids)[s].loose = sessions[s].loose
          /\ Revoked(ids)[s].basis = sessions[s].basis
          /\ Revoked(ids)[s].live => sessions[s].live /\ s \notin ids
      BY <1>0, Marked
    <3>4. Revoked(ids)[s] \in SessionRows
      BY <3>3
    <3>5. sessions[s].user = u /\ sessions[s].live /\ ~sessions[s].loose => s \in ids
      BY Zenon, <2>3, <3>1, <1>3, <1>4, <1>16 DEF Found
    <3> QED
      BY Zenon, <2>3, <3>2, <3>3, <3>4, <3>5
  <2> QED
    BY Zenon, <2>2, <2>3
<1>18. sessions' \in Seq(SessionRows) /\ SessionsOnward
  <2>1. /\ sessions \in [1 .. Len(sessions) -> SessionRows] /\ Len(sessions) \in Nat
        /\ DOMAIN sessions = 1 .. Len(sessions)
    BY <1>0 DEF TypeOK
  <2>2. DOMAIN sessions' = DOMAIN sessions
    BY Zenon, <1>2
  <2>3. sessions' \in [1 .. Len(sessions) -> SessionRows]
    BY Zenon, <2>1, <1>2, <1>17
  <2>4. sessions' \in Seq(SessionRows)
    BY <2>1, <2>3
  <2> QED
    BY <2>2, <2>4, <1>0, <1>13, <1>17, EpochMovesOn
<1>19. Onward /\ \A v \in Users, k \in Purposes : \A i \in DOMAIN codes'[v][k] : SameCode(v, k, i)
  BY <1>0, <1>13, <1>18, Unmoved DEF Onward, SameCode
<1>w. ASSUME NEW x \in Held, req' = [req EXCEPT ![r] = x], ReqOK(req[r])'
      PROVE  AccountsInv'
  <2>1. TypeOK' /\ \A s \in Requests \ {r} : req'[s] = req[s]
    BY Zenon, <1>0, <1>13, <1>18, <1>w DEF TypeOK
  <2>2. \A v \in Users : users'[v] = users[v] \/ UserOK(v)'
    BY Zenon, <1>13, <1>14
  <2> QED
    BY Zenon, <2>1, <2>2, <1>0, <1>19, <1>w, OnwardKeeps
<1>20. CASE q.kind = "confirm_reset"
  <2>1. PICK x \in Held : x = Done
    BY Zenon, EndsOK
  <2>2. req' = [req EXCEPT ![r] = x] /\ req'[r].pc = "done"
    BY Zenon, <2>1, <1>0, <1>2, <1>20, EndsOK DEF TypeOK
  <2>3. ReqOK(req[r])'
    BY Zenon, <2>2 DEF ReqOK
  <2> QED
    BY Zenon, <2>2, <2>3, <1>w
<1>21. CASE q.kind # "confirm_reset"
  <2>1. PICK x \in Held : x = [q EXCEPT !.pc = "continue", !.p = None, !.epoch = n, !.checked = {}]
    BY Zenon DEF Held, Places
  <2>2. req' = [req EXCEPT ![r] = x] /\ req'[r] = x
    BY Zenon, <2>1, <1>0, <1>2, <1>4, <1>6, <1>21 DEF TypeOK
  <2>3. x.pc = "continue" /\ x.kind = q.kind /\ x.u = u /\ x.t = q.t /\ x.epoch = n
    BY Zenon, <2>1, <1>4 DEF Held
  <2>4. Current(tokens[req[r].t])'
    <3>1. PICK k \in TokenRows : k = tokens[q.t] /\ k = tokens'[q.t]
      BY Zenon, <1>0, <1>15, <1>21
    <3>2. SUFFICES ASSUME k.sid # 0 PROVE sessions'[k.sid].basis = n
      BY <2>2, <2>3, <3>1, <1>11, <1>13, <1>15, <1>21 DEF Current
    <3>3. k.sid \in DOMAIN sessions /\ sessions[k.sid].user = u /\ k.sid = keep
      BY Zenon, <3>1, <3>2, <1>15, <1>16, <1>21 DEF TokenOK, Kept
    <3> QED
      BY Zenon, <3>3, <1>17
  <2>5. x.kind \in KindsAt("continue") /\ x.kind \notin Tokenless
    BY Zenon, <2>3, <1>3, <1>15, <1>21 DEF KindsAt
  <2>6. /\ x.epoch <= users'[x.u].epoch /\ users'[x.u] # NoUser
        /\ x.t \in DOMAIN tokens' /\ tokens'[x.t].user = x.u /\ x.u \in Users
    BY <2>3, <1>0, <1>11, <1>13, <1>15, <1>21
  <2>7. ReqOK(req[r])'
    BY Zenon, <2>2, <2>3, <2>4, <2>5, <2>6 DEF ReqOK
  <2> QED
    BY Zenon, <2>2, <2>7, <1>w
<1> QED
  BY Zenon, <1>20, <1>21

(* What takes a user away: a signup rolled back, and delete_account.       *)
LEMMA Removals ==
    ASSUME AccountsInv, NEW r \in Requests, delete_unverified_user(r) \/ delete_account(r)
    PROVE  AccountsInv'
<1>0. TypeOK /\ Finish(r) /\ UNCHANGED <<tokens, denied>>
  BY Zenon DEF AccountsInv, delete_unverified_user, delete_account
<1>1. PICK q \in Held : q = req[r]
  BY Zenon, <1>0 DEF TypeOK
<1>2. ReqOK(q) /\ q.pc \in {"rollback", "erase"}
  BY Zenon, <1>1 DEF AccountsInv, delete_unverified_user, delete_account, At
<1>3. PICK u \in Users : u = q.u
  BY Zenon, <1>2 DEF ReqOK
<1>4. /\ req' \in [Requests -> Held] /\ req'[r].pc = "done" /\ req' = [req EXCEPT ![r] = Done]
      /\ \A s \in Requests \ {r} : req'[s] = req[s]
  BY Zenon, <1>0, EndsOK DEF Finish, TypeOK
<1>w. ASSUME users' \in [Users -> UserRows \cup {NoUser, Gone}], sessions' \in Seq(SessionRows),
             wallets' \in Seq(WalletRows), UsersOnward, SessionsOnward, delete_codes(u), UserOK(u)',
             \A v \in Users \ {u} : users'[v] = users[v]
      PROVE  AccountsInv'
  <2>1. /\ codes' \in [Users -> [Purposes -> Seq(CodeRows)]] /\ CodesOnward
        /\ \A v \in Users, p \in Purposes : \A i \in DOMAIN codes'[v][p] : SameCode(v, p, i)
    BY Zenon, <1>0, <1>w, CodesGone
  <2>2. TypeOK'
    BY Zenon, <2>1, <1>0, <1>4, <1>w DEF TypeOK
  <2>3. Onward
    BY Zenon, <2>1, <1>0, <1>w, Unmoved DEF Onward
  <2>4. ReqOK(req[r])'
    BY Zenon, <1>4 DEF ReqOK
  <2>5. \A v \in Users : users'[v] = users[v] \/ UserOK(v)'
    BY Zenon, <1>w
  <2> QED
    BY Zenon, <2>1, <2>2, <2>3, <2>4, <2>5, <1>0, <1>4, OnwardKeeps
<1>5. CASE delete_unverified_user(r)
  <2>1. CASE ~RollsBack(u)
    <3>1. UNCHANGED rows
      BY Zenon, <2>1, <1>1, <1>3, <1>5 DEF delete_unverified_user, rows
    <3>2. PICK x \in Held : x = Done
      BY Zenon, EndsOK
    <3>3. ReqOK(x)
      BY Zenon, <3>2, EndsOK DEF ReqOK
    <3> QED
      BY Zenon, <3>1, <3>2, <3>3, <1>4, QuietStep
  <2>2. CASE RollsBack(u)
    <3>1. /\ users' = [users EXCEPT ![u] = Gone] /\ delete_codes(u)
          /\ UNCHANGED <<sessions, wallets>>
      BY Zenon, <2>2, <1>1, <1>3, <1>5 DEF delete_unverified_user
    <3>2. /\ users' \in [Users -> UserRows \cup {NoUser, Gone}] /\ users'[u] = Gone
          /\ \A v \in Users \ {u} : users'[v] = users[v]
      BY Zenon, <3>1, <1>0 DEF TypeOK
    <3>3. Exists(u) /\ ~users[u].verified /\ Gone # NoUser
      BY Zenon, <2>2, RowsAssumption DEF RollsBack
    <3>4. \A v \in Users : Exists(v) => users[v].epoch \in Nat
      BY Zenon, <1>0 DEF TypeOK, Exists, UserRows
    <3>a. ~Locked(u)
      BY Zenon, <1>1, <1>3, <1>5 DEF delete_unverified_user
    <3>5. UsersOnward
      BY <3>2, <3>3, <3>4, <3>a DEF UsersOnward, Exists
    <3>6. SessionsOnward
      BY Zenon, <3>1, <3>2, <1>0, EpochStands
    <3>7. UserOK(u)'
      BY Zenon, <3>2 DEF UserOK, Exists
    <3> QED
      BY Zenon, <3>1, <3>2, <3>5, <3>6, <3>7, <1>0, <1>w DEF TypeOK
  <2> QED
    BY Zenon, <2>1, <2>2
<1>6. CASE delete_account(r)
  <2>1. q.pc = "erase" /\ q.kind = "delete" /\ q.kind \notin Tokenless
    BY Zenon, <1>1, <1>2, <1>6 DEF delete_account, At, ReqOK, KindsAt, Tokenless
  <2>2. q.t \in DOMAIN tokens /\ tokens[q.t].user = u
    BY Zenon, <2>1, <1>2, <1>3 DEF ReqOK
  <2>3. Exists(u) /\ users[u].verified /\ users[u] \in UserRows
    BY Zenon, <2>2 DEF AccountsInv, TokenOK, TypeOK, Exists
  <2>4. PICK n \in Nat : n = users[u].epoch + 1
    BY <2>3 DEF UserRows
  <2>5. PICK y \in UserRows : y = [users[u] EXCEPT !.email = Tombstone, !.pw = Scrubbed, !.old = FALSE,
                                                   !.deleted = TRUE, !.epoch = n]
    BY Zenon, <2>3 DEF UserRows
  <2>6. users' = [users EXCEPT ![u] = y]
    BY Zenon, <2>3, <2>4, <2>5, <1>0, <1>1, <1>3, <1>6 DEF delete_account, TypeOK
  <2>7. y.epoch = n /\ y.verified = users[u].verified /\ y.deleted /\ users[u].epoch \in Nat
    BY Zenon, <2>3, <2>5 DEF UserRows
  <2>8. /\ Exists(u) /\ users[u].epoch <= y.epoch /\ (users[u].verified => y.verified)
        /\ (users[u].deleted => y.deleted) /\ (y.verified \/ y.email = users[u].email)
    BY <2>3, <2>4, <2>7
  <2>9. /\ users' \in [Users -> UserRows \cup {NoUser, Gone}]
        /\ users'[u] = y /\ y \notin {NoUser, Gone} /\ UsersOnward
        /\ \A v \in Users \ {u} : users'[v] = users[v]
    BY Zenon, <2>6, <2>8, <1>0, RowMoves
  <2>10. PICK ids : ids = revoke_sessions_except(u, 0)
    BY Zenon
  <2>11. sessions' = Revoked(ids) /\ delete_codes(u)
    BY Zenon, <2>10, <1>1, <1>3, <1>6 DEF delete_account
  <2>12. sessions' \in Seq(SessionRows) /\ SessionsOnward
    <3>1. /\ sessions' \in Seq(SessionRows) /\ DOMAIN sessions' = DOMAIN sessions
          /\ \A s \in DOMAIN sessions :
                /\ sessions'[s].user = sessions[s].user /\ sessions'[s].loose = sessions[s].loose
                /\ sessions'[s].basis = sessions[s].basis
                /\ sessions'[s].live => sessions[s].live /\ s \notin ids
      BY <2>11, <1>0, Marked
    <3>2. 0 \notin DOMAIN sessions
      BY <1>0 DEF TypeOK
    <3>3. \A s \in DOMAIN sessions : sessions[s].user = u => ~sessions'[s].live
      BY Zenon, <3>1, <3>2, <2>10 DEF revoke_sessions_except
    <3> QED
      BY <3>1, <3>3, <2>9, <1>0, EpochMovesOn
  <2>13. UserOK(u)'
    BY Zenon, <2>7, <2>9 DEF UserOK
  <2>14. wallets' \in Seq(WalletRows)
    <3>1. wallets \in [1 .. Len(wallets) -> WalletRows] /\ Len(wallets) \in Nat
      BY <1>0 DEF TypeOK
    <3>2. wallets' = [w \in 1 .. Len(wallets) |-> IF w \in Owned(u)
                        THEN [wallets[w] EXCEPT !.archived = TRUE] ELSE wallets[w]]
      BY Zenon, <3>1, <1>1, <1>3, <1>6 DEF delete_account
    <3>3. \A w \in 1 .. Len(wallets) : wallets[w] \in WalletRows /\ [wallets[w] EXCEPT !.archived = TRUE] \in WalletRows
      BY Zenon, <3>1 DEF WalletRows
    <3>4. wallets' \in [1 .. Len(wallets) -> WalletRows]
      BY Zenon, <3>2, <3>3
    <3> QED
      BY <3>1, <3>4
  <2> QED
    BY Zenon, <2>9, <2>11, <2>12, <2>13, <2>14, <1>w
<1> QED
  BY Zenon, <1>5, <1>6

(* The steps of verify_and_consume_otp, and create_otp before them.        *)
LEMMA CodeWrites ==
    ASSUME AccountsInv, NEW r \in Requests, issue_otp(r) \/ claim_otp(r) \/ consume_otp(r)
    PROVE  AccountsInv'
<1>0. TypeOK /\ UNCHANGED <<users, sessions, tokens, denied, wallets, keys>>
  BY Zenon DEF AccountsInv, issue_otp, claim_otp, consume_otp
<1>1. PICK q \in Held : q = req[r]
  BY Zenon, <1>0 DEF TypeOK
<1>2. ReqOK(q) /\ q.pc \in {"issue", "claim", "consume"}
  BY Zenon, <1>1 DEF AccountsInv, issue_otp, claim_otp, consume_otp, At
<1>3. PICK u \in Users : u = q.u
  BY Zenon, <1>2 DEF ReqOK
<1>4. q.kind \in Issuing \cup Redeeming
  BY Zenon, <1>2 DEF ReqOK, KindsAt
<1>5. PICK p \in Purposes : p = PurposeOf(q.kind)
  BY Zenon, <1>4 DEF PurposeOf, Purposes, Issuing, Redeeming
<1>6. PICK cs \in Seq(CodeRows) : cs = codes[u][p]
  BY Zenon, <1>0, CodeAt DEF CodesTyped
<1>7. \A i \in DOMAIN cs : CodeOK(u, p, cs[i]) /\ cs[i] \in CodeRows /\ cs[i].tries \in Nat /\ cs[i].uses \in Nat
  <2>1. \A i \in DOMAIN cs : CodeOK(u, p, cs[i])
    BY Zenon, <1>6 DEF AccountsInv
  <2>2. \A i \in DOMAIN cs : cs[i] \in CodeRows
    OBVIOUS
  <2>3. \A c \in CodeRows : c.tries \in Nat /\ c.uses \in Nat
    BY Zenon DEF CodeRows
  <2> QED
    BY Zenon, <2>1, <2>2, <2>3
<1>d. PICK d \in Held : d = Done /\ d.pc = "done"
  BY Zenon, EndsOK
<1>e. \A v \in Users : Exists(v) => users[v].epoch \in Nat
  BY Zenon, <1>0 DEF TypeOK, Exists, UserRows
<1>w. ASSUME NEW z \in Seq(CodeRows), codes' = [codes EXCEPT ![u][p] = z], NEW x \in Held,
             req' = [req EXCEPT ![r] = x], ReqOK(req[r])',
             \A i \in DOMAIN cs : /\ i \in DOMAIN z /\ z[i].to = cs[i].to
                                  /\ cs[i].tries <= z[i].tries /\ cs[i].uses <= z[i].uses,
             \A i \in DOMAIN z : (i \in DOMAIN cs /\ z[i] = cs[i]) \/ CodeOK(u, p, z[i])
      PROVE  AccountsInv'
  <2>1. /\ codes' \in [Users -> [Purposes -> Seq(CodeRows)]] /\ codes'[u][p] = z
        /\ \A v \in Users, k \in Purposes : v # u \/ k # p => codes'[v][k] = codes[v][k]
    BY Zenon, <1>0, <1>w DEF TypeOK
  <2>2. TypeOK' /\ \A s \in Requests \ {r} : req'[s] = req[s]
    BY Zenon, <2>1, <1>0, <1>w DEF TypeOK
  <2>3. \A v \in Users, k \in Purposes : \A i \in DOMAIN codes[v][k] :
            codes[v][k][i].tries \in Nat /\ codes[v][k][i].uses \in Nat
    BY Zenon, <1>0, CodeAt DEF CodesTyped, CodeRows
  <2>4. CodesOnward
    <3>1. SUFFICES ASSUME NEW v \in Users, NEW k \in Purposes, NEW i \in DOMAIN codes[v][k]
                   PROVE  /\ i \in DOMAIN codes'[v][k]
                          /\ codes'[v][k][i].to = codes[v][k][i].to
                          /\ codes[v][k][i].tries <= codes'[v][k][i].tries
                          /\ codes[v][k][i].uses <= codes'[v][k][i].uses
      BY Zenon DEF CodesOnward
    <3>2. CASE v = u /\ k = p
      BY Zenon, <3>2, <2>1, <1>6, <1>w
    <3>3. CASE v # u \/ k # p
      BY <3>3, <2>1, <2>3
    <3> QED
      BY Zenon, <3>2, <3>3
  <2>5. Onward
    BY Zenon, <2>4, <1>0, Unmoved DEF Onward
  <2>6. ASSUME NEW v \in Users, NEW k \in Purposes, NEW i \in DOMAIN codes'[v][k]
        PROVE  SameCode(v, k, i) \/ CodeOK(v, k, codes[v][k][i])'
    <3>1. CASE v = u /\ k = p
      <4>1. i \in DOMAIN z /\ codes'[v][k][i] = z[i]
        BY Zenon, <3>1, <2>1, <2>6
      <4>2. CASE i \in DOMAIN cs /\ z[i] = cs[i]
        BY Zenon, <3>1, <4>1, <4>2, <1>6 DEF SameCode
      <4>3. CASE CodeOK(u, p, z[i])
        BY Zenon, <3>1, <4>1, <4>3, <1>0 DEF CodeOK, Exists
      <4> QED
        BY Zenon, <4>1, <4>2, <4>3, <1>w
    <3>2. CASE v # u \/ k # p
      BY Zenon, <3>2, <2>1, <2>6 DEF SameCode
    <3> QED
      BY Zenon, <3>1, <3>2
  <2> QED
    BY Zenon, <2>2, <2>5, <2>6, <1>0, <1>w, OnwardKeeps
<1>8. CASE issue_otp(r)
  <2>1. q.pc = "issue" /\ Exists(u) /\ q.kind \in Issuing
    BY Zenon, <1>1, <1>2, <1>3, <1>8 DEF issue_otp, At, ReqOK, KindsAt
  <2>2. PICK b \in Addresses : b = IF q.kind = "email_change" THEN q.e ELSE None
    BY Zenon DEF Held, Addresses
  <2>3. PICK c \in CodeRows : c = Code(q.e, b)
    BY Zenon DEF CodeRows, Code, Held
  <2>4. /\ c.to = q.e /\ c.bound = b /\ c.tries = 0 /\ c.uses = 0
    BY Zenon, <2>3 DEF Code
  <2>5. codes' = [codes EXCEPT ![u][p] = Append(cs, c)]
    BY Zenon, <2>2, <2>3, <1>0, <1>1, <1>3, <1>5, <1>6, <1>8 DEF issue_otp, SendTo, TypeOK
  <2>6. PICK z \in Seq(CodeRows) : z = Append(cs, c)
    BY Zenon, Grown
  <2>7. /\ \A i \in DOMAIN cs : i \in DOMAIN z /\ z[i] = cs[i]
        /\ \A i \in DOMAIN z : i \in DOMAIN cs \/ z[i] = c
    BY <2>6, Grown
  <2>8. p = "signup" => users[u].verified \/ c.to = users[u].email
    <3>1. SUFFICES ASSUME p = "signup" PROVE users[u].verified \/ q.e = users[u].email
      BY Zenon, <2>4
    <3>2. q.kind \in {"signup", "resend", "login"}
      BY Zenon, <2>1, <3>1, <1>5 DEF PurposeOf, Issuing
    <3> QED
      BY Zenon, <2>1, <3>2, <1>2, <1>3 DEF ReqOK
  <2>9. p = "email_change" => c.to = c.bound
    BY Zenon, <2>1, <2>2, <2>4, <1>5 DEF PurposeOf, Issuing
  <2>10. CodeOK(u, p, c)
    BY <2>1, <2>4, <2>8, <2>9, AccountsAssumption DEF CodeOK, Exists
  <2>11. \A i \in DOMAIN cs : /\ i \in DOMAIN z /\ z[i].to = cs[i].to
                              /\ cs[i].tries <= z[i].tries /\ cs[i].uses <= z[i].uses
    BY <2>7, <1>7
  <2>12. CASE Finish(r)
    <3>1. req' = [req EXCEPT ![r] = d] /\ req'[r].pc = "done"
      BY Zenon, <2>12, <1>0, <1>d DEF Finish, TypeOK
    <3>2. ReqOK(req[r])'
      BY Zenon, <3>1 DEF ReqOK
    <3> QED
      BY Zenon, <2>5, <2>6, <2>7, <2>10, <2>11, <3>1, <3>2, <1>w
  <2>13. CASE Goto(r, "rollback") /\ q.kind = "signup"
    <3>1. PICK x \in Held : x = [q EXCEPT !.pc = "rollback"]
      BY Zenon DEF Held, Places
    <3>2. req' = [req EXCEPT ![r] = x] /\ req'[r] = x
      BY Zenon, <2>13, <3>1, <1>0, <1>1 DEF Goto, TypeOK
    <3>3. x.pc = "rollback" /\ x.kind = "signup" /\ x.u = u /\ x.epoch = q.epoch
      BY Zenon, <2>13, <3>1, <1>3 DEF Held
    <3>4. q.epoch <= users[u].epoch
      BY Zenon, <2>1, <1>2, <1>3 DEF ReqOK
    <3>5. ReqOK(req[r])'
      <4>1. x.kind \in KindsAt(x.pc) /\ x.kind \in Tokenless
        BY Zenon, <3>3 DEF KindsAt, Tokenless
      <4> QED
        BY Zenon, <2>1, <3>2, <3>3, <3>4, <4>1, <1>0 DEF ReqOK, Exists
    <3> QED
      BY Zenon, <2>5, <2>6, <2>7, <2>10, <2>11, <3>2, <3>5, <1>w
  <2> QED
    BY Zenon, <2>12, <2>13, <1>1, <1>8 DEF issue_otp
<1>9. CASE claim_otp(r)
  <2>1. PICK n \in Nat : n = Len(cs)
    BY <1>6
  <2>2. PICK c : c = cs[n]
    BY Zenon
  <2>3. /\ q.pc = "claim" /\ n # 0 /\ c.uses = 0 /\ c.tries < MaxAttempts
        /\ codes' = [codes EXCEPT ![u][p][n].tries = @ + 1]
        /\ \E right \in BOOLEAN, e \in IF q.kind = "confirm_email" THEN Emails ELSE {None} :
             req' = [req EXCEPT ![r] = IF right /\ c.bound = e
                       THEN [q EXCEPT !.pc = "consume", !.n = n, !.e = e] ELSE Done]
    BY Zenon, <2>1, <2>2, <1>1, <1>3, <1>5, <1>6, <1>9 DEF claim_otp, At
  <2>4. n \in DOMAIN cs /\ c \in CodeRows /\ CodeOK(u, p, c) /\ c.tries \in Nat
    BY <2>1, <2>2, <2>3, <1>7
  <2>5. PICK m \in Nat : m = c.tries + 1
    BY <2>4
  <2>6. PICK y \in CodeRows : y = [c EXCEPT !.tries = m]
    BY Zenon, <2>4 DEF CodeRows
  <2>7. y.to = c.to /\ y.bound = c.bound /\ y.tries = m /\ y.uses = 0
    BY Zenon, <2>3, <2>4, <2>6 DEF CodeRows
  <2>8. PICK z \in Seq(CodeRows) : z = [cs EXCEPT ![n] = y]
    BY Zenon, <2>4, Replaced
  <2>9. codes' = [codes EXCEPT ![u][p] = z]
    <3>1. codes' = [codes EXCEPT ![u][p][n] = [codes[u][p][n] EXCEPT !.tries = codes[u][p][n].tries + 1]]
      BY Zenon, <2>3
    <3>2. codes[u][p][n] = c
      BY Zenon, <2>2, <1>6
    <3>3. codes' = [codes EXCEPT ![u][p][n] = y]
      BY Zenon, <3>1, <3>2, <2>5, <2>6
    <3> QED
      BY Zenon, <3>3, <2>8, <1>6
  <2>10. DOMAIN z = DOMAIN cs /\ z[n] = y /\ \A i \in DOMAIN cs \ {n} : z[i] = cs[i]
    BY Zenon, <2>4, <2>8
  <2>11. CodeOK(u, p, y)
    BY <2>3, <2>4, <2>5, <2>7, AccountsAssumption DEF CodeOK
  <2>12. \A i \in DOMAIN cs : /\ i \in DOMAIN z /\ z[i].to = cs[i].to
                              /\ cs[i].tries <= z[i].tries /\ cs[i].uses <= z[i].uses
    BY <2>2, <2>3, <2>5, <2>7, <2>10, <1>7
  <2>13. CASE req' = [req EXCEPT ![r] = Done]
    <3>1. req' = [req EXCEPT ![r] = d] /\ req'[r].pc = "done"
      BY Zenon, <2>13, <1>0, <1>d DEF TypeOK
    <3>2. ReqOK(req[r])'
      BY Zenon, <3>1 DEF ReqOK
    <3> QED
      BY Zenon, <2>9, <2>10, <2>11, <2>12, <3>1, <3>2, <1>w
  <2>14. ASSUME NEW e \in IF q.kind = "confirm_email" THEN Emails ELSE {None}, c.bound = e,
                req' = [req EXCEPT ![r] = [q EXCEPT !.pc = "consume", !.n = n, !.e = e]]
         PROVE  AccountsInv'
    <3>1. PICK x \in Held : x = [q EXCEPT !.pc = "consume", !.n = n, !.e = e]
      BY Zenon, <2>14 DEF Held, Places, Addresses
    <3>2. req' = [req EXCEPT ![r] = x] /\ req'[r] = x
      BY Zenon, <2>14, <3>1, <1>0 DEF TypeOK
    <3>3. x.pc = "consume" /\ x.kind = q.kind /\ x.u = u /\ x.t = q.t /\ x.n = n /\ x.e = e /\ x.epoch = q.epoch
      BY Zenon, <3>1, <1>3 DEF Held
    <3>4. codes'[u][p] = z
      BY Zenon, <2>9, <1>0 DEF TypeOK
    <3>5. /\ x.n \in DOMAIN codes'[x.u][PurposeOf(x.kind)]
          /\ codes'[x.u][PurposeOf(x.kind)][x.n].tries > 0
      BY <2>4, <2>5, <2>7, <2>10, <3>3, <3>4, <1>5
    <3>6. x.kind = "confirm_email" => x.e \in Emails /\ codes'[x.u]["email_change"][x.n].to = x.e
      <4>1. SUFFICES ASSUME q.kind = "confirm_email" PROVE e \in Emails /\ codes'[u]["email_change"][n].to = e
        BY Zenon, <3>3
      <4>2. p = "email_change" /\ e \in Emails
        BY Zenon, <4>1, <2>14, <1>5 DEF PurposeOf
      <4>3. c.to = c.bound
        BY Zenon, <4>2, <2>4 DEF CodeOK
      <4> QED
        BY Zenon, <4>2, <4>3, <2>7, <2>10, <2>14, <3>4
    <3>7. x.kind \in KindsAt("consume") /\ users[u] # NoUser
      BY Zenon, <2>3, <2>4, <3>3, <1>2 DEF ReqOK, KindsAt, CodeOK
    <3>8. Exists(u) => q.epoch <= users[u].epoch
      BY Zenon, <2>3, <1>2, <1>3 DEF ReqOK
    <3>9. x.kind \notin Tokenless => x.t \in DOMAIN tokens' /\ tokens'[x.t].user = x.u
      BY <2>3, <3>3, <1>0, <1>2, <1>3 DEF ReqOK
    <3>10. x.kind \notin Tokenless \cup {"logout"} => Current(tokens[req[r].t])'
      <4>1. x.kind \notin Tokenless \cup {"logout"} => Current(tokens[q.t])
        BY Zenon, <2>3, <3>3, <1>2 DEF ReqOK
      <4> QED
        BY Zenon, <4>1, <3>2, <3>3, <1>0 DEF Current
    <3>11. ReqOK(req[r])'
      BY Zenon, <3>2, <3>3, <3>5, <3>6, <3>7, <3>8, <3>9, <3>10, <1>0 DEF ReqOK, Exists
    <3> QED
      BY Zenon, <2>9, <2>10, <2>11, <2>12, <3>2, <3>11, <1>w
  <2> QED
    BY Zenon, <2>3, <2>13, <2>14
<1>10. CASE consume_otp(r)
  <2>1. PICK n \in Nat : n = q.n
    BY Zenon DEF Held
  <2>2. q.pc = "consume" /\ q.kind \in Redeeming
    BY Zenon, <1>1, <1>2, <1>10 DEF consume_otp, At, ReqOK, KindsAt
  <2>3. n \in DOMAIN cs /\ cs[n].tries > 0
    BY Zenon, <2>1, <2>2, <1>2, <1>3, <1>5, <1>6 DEF ReqOK
  <2>4. PICK c \in CodeRows : c = cs[n]
    BY Zenon, <2>3, <1>7
  <2>5. /\ CodeOK(u, p, c) /\ c.tries \in Nat /\ c.tries > 0 /\ c.uses = 0
    BY Zenon, <2>1, <2>3, <2>4, <1>1, <1>3, <1>5, <1>6, <1>7, <1>10 DEF consume_otp, Unspent
  <2>6. PICK y \in CodeRows : y = [c EXCEPT !.uses = 1]
    BY Zenon DEF CodeRows
  <2>7. y.to = c.to /\ y.bound = c.bound /\ y.tries = c.tries /\ y.uses = 1
    BY Zenon, <2>6 DEF CodeRows
  <2>8. PICK z \in Seq(CodeRows) : z = [cs EXCEPT ![n] = y]
    BY Zenon, <2>3, Replaced
  <2>9. codes' = [codes EXCEPT ![u][p] = z]
    <3>1. codes' = [codes EXCEPT ![u][p][n] = [codes[u][p][n] EXCEPT !.uses = codes[u][p][n].uses + 1]]
      BY Zenon, <2>1, <1>1, <1>3, <1>5, <1>10 DEF consume_otp
    <3>2. codes[u][p][n] = c /\ c.uses + 1 = 1
      BY <2>4, <2>5, <1>6
    <3>3. codes' = [codes EXCEPT ![u][p][n] = y]
      BY Zenon, <3>1, <3>2, <2>6
    <3> QED
      BY Zenon, <3>3, <2>8, <1>6
  <2>10. DOMAIN z = DOMAIN cs /\ z[n] = y /\ \A i \in DOMAIN cs \ {n} : z[i] = cs[i]
    BY Zenon, <2>3, <2>8
  <2>11. CodeOK(u, p, y)
    BY <2>5, <2>7 DEF CodeOK
  <2>12. \A i \in DOMAIN cs : /\ i \in DOMAIN z /\ z[i].to = cs[i].to
                              /\ cs[i].tries <= z[i].tries /\ cs[i].uses <= z[i].uses
    BY <2>4, <2>5, <2>7, <2>10, <1>7
  <2>13. codes'[u][p] = z /\ z[n].uses = 1 /\ z[n].to = c.to /\ n \in DOMAIN z
    BY Zenon, <2>3, <2>7, <2>9, <2>10, <1>0 DEF TypeOK
  <2>14. /\ q.kind \notin Tokenless => q.t \in DOMAIN tokens /\ tokens[q.t].user = u
         /\ q.kind \notin Tokenless \cup {"logout"} => Current(tokens[q.t])
         /\ users[u] # NoUser
         /\ Exists(u) => q.epoch <= users[u].epoch
    BY Zenon, <2>2, <2>5, <1>2, <1>3 DEF ReqOK, CodeOK
  <2>15. CASE q.kind = "export"
    <3>1. req' = [req EXCEPT ![r] = d] /\ req'[r].pc = "done"
      BY Zenon, <2>15, <1>0, <1>1, <1>10, <1>d DEF consume_otp, TypeOK
    <3>2. ReqOK(req[r])'
      BY Zenon, <3>1 DEF ReqOK
    <3> QED
      BY Zenon, <2>9, <2>10, <2>11, <2>12, <3>1, <3>2, <1>w
  <2>16. CASE q.kind # "export"
    <3>1. PICK l \in Places : l = CASE q.kind = "verify_email" -> "read"
                                    [] q.kind = "confirm_reset" -> "apply"
                                    [] q.kind = "confirm_email" -> "move"
                                    [] q.kind = "delete" -> "erase"
      BY Zenon, <2>2, <2>16 DEF Redeeming, Places
    <3>2. PICK x \in Held : x = [q EXCEPT !.n = 0, !.pc = l]
      BY Zenon DEF Held
    <3>3. req' = [req EXCEPT ![r] = x] /\ req'[r] = x
      BY Zenon, <2>16, <3>1, <3>2, <1>0, <1>1, <1>10 DEF consume_otp, TypeOK
    <3>4. x.pc = l /\ x.kind = q.kind /\ x.u = u /\ x.t = q.t /\ x.e = q.e /\ x.epoch = q.epoch
      BY Zenon, <3>2, <1>3 DEF Held
    <3>5. /\ l \in {"read", "apply", "move", "erase"}
          /\ l = "read" => q.kind = "verify_email"
          /\ l = "move" => q.kind = "confirm_email"
          /\ q.kind \in KindsAt(l)
      BY Zenon, <2>2, <2>16, <3>1 DEF Redeeming, KindsAt
    <3>6. l = "read" /\ Exists(u) => users[u].verified \/ Received(u, "signup", users[u].email)'
      <4>1. SUFFICES ASSUME l = "read", Exists(u), ~users[u].verified
                     PROVE  Received(u, "signup", users[u].email)'
        BY Zenon
      <4>2. p = "signup"
        BY Zenon, <4>1, <3>5, <1>5 DEF PurposeOf
      <4>3. c.to = users[u].email
        BY Zenon, <4>1, <4>2, <2>5 DEF CodeOK
      <4> QED
        BY <4>2, <4>3, <2>13, <1>0 DEF Received
    <3>7. l = "move" => q.e \in Emails /\ Received(u, "email_change", q.e)'
      <4>1. SUFFICES ASSUME l = "move" PROVE q.e \in Emails /\ Received(u, "email_change", q.e)'
        BY Zenon
      <4>2. p = "email_change" /\ q.kind = "confirm_email"
        BY Zenon, <4>1, <3>5, <1>5 DEF PurposeOf
      <4>3. q.e \in Emails /\ c.to = q.e
        BY Zenon, <4>2, <2>1, <2>2, <2>4, <1>2, <1>3, <1>6 DEF ReqOK
      <4> QED
        BY <4>2, <4>3, <2>13 DEF Received
    <3>8. x.kind \notin Tokenless \cup {"logout"} => Current(tokens[req[r].t])'
      BY Zenon, <2>14, <3>3, <3>4, <1>0 DEF Current
    <3>9. x.kind \notin Tokenless => x.t \in DOMAIN tokens' /\ tokens'[x.t].user = x.u
      BY Zenon, <2>14, <3>4, <1>0
    <3>10. x.pc \in {"read", "mark"} /\ Exists(x.u) =>
              users[x.u].verified \/ Received(req[r].u, "signup", users[req[r].u].email)'
      BY Zenon, <3>3, <3>4, <3>5, <3>6
    <3>11. x.pc = "move" => x.e \in Emails /\ Received(req[r].u, "email_change", req[r].e)'
      BY Zenon, <3>3, <3>4, <3>7
    <3>12. x.kind \in KindsAt(x.pc) /\ x.pc \in {"read", "apply", "move", "erase"}
      BY Zenon, <3>4, <3>5
    <3>13. ReqOK(req[r])'
      BY Zenon, <2>14, <3>3, <3>4, <3>8, <3>9, <3>10, <3>11, <3>12, <1>0 DEF ReqOK, Exists
    <3> QED
      BY Zenon, <2>9, <2>10, <2>11, <2>12, <3>3, <3>13, <1>w
  <2> QED
    BY Zenon, <2>15, <2>16
<1> QED
  BY Zenon, <1>8, <1>9, <1>10

(* Init describes an account in mid-life that satisfies the invariant.     *)
LEMMA Starting == Init => AccountsInv
<1> SUFFICES ASSUME Init PROVE AccountsInv
  BY Zenon
<1>1. PICK u0 \in Users : u0 = InitUser
  BY Zenon, AccountsAssumption DEF InitUser
<1>2. PICK home \in Emails : home = Home
  BY Zenon, AccountsAssumption DEF Home
<1>3. PICK away \in Emails : away = Away
  <2>1. \E e \in Emails : e \in Emails \ {Home}
    BY Zenon, AccountsAssumption
  <2> QED
    BY Zenon, <2>1 DEF Away
<1>4. PICK pw \in Passwords : pw = FirstPassword
  BY Zenon, AccountsAssumption DEF FirstPassword
<1>5. PICK row \in UserRows : row = [email |-> home, pw |-> pw, old |-> TRUE, verified |-> TRUE,
                                     epoch |-> 0, deleted |-> FALSE]
  BY Zenon DEF UserRows
<1>6. /\ users = [u \in Users |-> IF u = u0 THEN row ELSE NoUser]
      /\ row.email = home /\ row.verified /\ ~row.deleted /\ row.epoch = 0 /\ row \notin {NoUser, Gone}
  <2>1. [User(Home, FirstPassword, TRUE) EXCEPT !.old = TRUE] = row
    <3>1. PICK y \in UserRows : y = [email |-> home, pw |-> pw, old |-> FALSE, verified |-> TRUE,
                                     epoch |-> 0, deleted |-> FALSE]
      BY Zenon DEF UserRows
    <3>2. User(Home, FirstPassword, TRUE) = y
      BY Zenon, <3>1, <1>2, <1>4 DEF User
    <3>3. PICK x \in UserRows : x = [y EXCEPT !.old = TRUE]
      BY Zenon DEF UserRows
    <3>4. /\ x.email = row.email /\ x.pw = row.pw /\ x.old = row.old
          /\ x.verified = row.verified /\ x.epoch = row.epoch /\ x.deleted = row.deleted
      BY Zenon, <3>1, <3>3, <1>5 DEF UserRows
    <3>5. x = row
      BY <3>4 DEF UserRows
    <3> QED
      BY Zenon, <3>2, <3>3, <3>5
  <2>2. users = [u \in Users |-> IF u = u0 THEN row ELSE NoUser]
    BY Zenon, <2>1, <1>1 DEF Init
  <2>3. row.email = home /\ row.verified = TRUE /\ row.deleted = FALSE /\ row.epoch = 0
    BY Zenon, <1>5
  <2> QED
    BY Zenon, <2>2, <2>3, RowsAssumption
<1>7. PICK s1 \in SessionRows : s1 = [user |-> u0, live |-> TRUE, basis |-> 0, loose |-> FALSE]
  BY Zenon DEF SessionRows
<1>8. sessions = <<s1>> /\ s1.user = u0 /\ s1.basis = 0
  BY Zenon, <1>1, <1>7 DEF Init, Session
<1>9. PICK t1 \in TokenRows, t2 \in TokenRows :
          t1 = [user |-> u0, epoch |-> 0, sid |-> 1] /\ t2 = [user |-> u0, epoch |-> 0, sid |-> 0]
  BY Zenon DEF TokenRows
<1>10. tokens = <<t1, t2>> /\ t1.user = u0 /\ t2.user = u0 /\ t1.epoch = 0 /\ t2.epoch = 0 /\ t1.sid = 1 /\ t2.sid = 0
  BY Zenon, <1>1, <1>9 DEF Init, Token
<1>11. PICK c1 \in CodeRows, c2 \in CodeRows, c3 \in CodeRows :
           /\ c1 = [to |-> home, bound |-> None, tries |-> 1, uses |-> 1, gone |-> FALSE]
           /\ c2 = [to |-> away, bound |-> away, tries |-> 0, uses |-> 0, gone |-> FALSE]
           /\ c3 = [to |-> home, bound |-> None, tries |-> 0, uses |-> 0, gone |-> FALSE]
  BY Zenon DEF CodeRows, Addresses
<1>12. codes = [u \in Users |-> [p \in Purposes |->
                  IF u # u0 THEN <<>> ELSE IF p = "signup" THEN <<c1>>
                  ELSE IF p = "email_change" THEN <<c2>> ELSE <<c3>>]]
  <2>1. c2 = Code(Away, Away) /\ c3 = Code(Home, None)
    BY Zenon, <1>2, <1>3, <1>11 DEF Code
  <2>2. c1 = [Code(Home, None) EXCEPT !.tries = 1, !.uses = 1]
    <3>1. PICK x \in CodeRows : x = [c3 EXCEPT !.tries = 1, !.uses = 1]
      BY Zenon DEF CodeRows
    <3>2. x.to = c1.to /\ x.bound = c1.bound /\ x.tries = c1.tries /\ x.uses = c1.uses /\ x.gone = c1.gone
      BY Zenon, <3>1, <1>11 DEF CodeRows
    <3>3. x = c1
      BY <3>2 DEF CodeRows
    <3> QED
      BY Zenon, <2>1, <3>1, <3>3
  <2> QED
    BY Zenon, <2>1, <2>2, <1>1 DEF Init
<1>13. /\ c1.to = home /\ c1.tries = 1 /\ c1.uses = 1
       /\ c2.to = c2.bound /\ c2.tries = 0 /\ c2.uses = 0
       /\ c3.to = home /\ c3.tries = 0 /\ c3.uses = 0
  BY Zenon, <1>11
<1>14. TypeOK
  <2>1. users \in [Users -> UserRows \cup {NoUser, Gone}]
    BY Zenon, <1>6
  <2>2. sessions \in Seq(SessionRows) /\ tokens \in Seq(TokenRows)
    BY <1>8, <1>10
  <2>3. codes \in [Users -> [Purposes -> Seq(CodeRows)]]
    <3>1. <<>> \in Seq(CodeRows) /\ <<c1>> \in Seq(CodeRows) /\ <<c2>> \in Seq(CodeRows) /\ <<c3>> \in Seq(CodeRows)
      OBVIOUS
    <3> QED
      BY Zenon, <1>12, <3>1
  <2>4. wallets \in Seq(WalletRows)
    <3>1. PICK w \in WalletRows : w = [owner |-> u0, archived |-> FALSE]
      BY Zenon DEF WalletRows
    <3>2. wallets = <<w>>
      BY Zenon, <3>1, <1>1 DEF Init
    <3> QED
      BY <3>2
  <2>5. req \in [Requests -> Held]
    <3>1. PICK x \in Held : x = Unstarted
      BY Zenon, EndsOK
    <3> QED
      BY Zenon, <3>1 DEF Init
  <2> QED
    BY Zenon, <2>1, <2>2, <2>3, <2>4, <2>5 DEF TypeOK
<1>15. \A p \in Purposes : codes[u0][p] = IF p = "signup" THEN <<c1>>
                                          ELSE IF p = "email_change" THEN <<c2>> ELSE <<c3>>
  BY Zenon, <1>12
<1>16. ASSUME NEW u \in Users PROVE UserOK(u)
  <2>1. CASE u = u0
    <3>1. users[u] = row
      BY Zenon, <2>1, <1>6
    <3>2. codes[u]["signup"] = <<c1>>
      BY Zenon, <2>1, <1>15 DEF Purposes
    <3>3. 1 \in DOMAIN codes[u]["signup"] /\ codes[u]["signup"][1] = c1
      BY <3>2
    <3>4. Received(u, "signup", users[u].email)
      BY <3>1, <3>3, <1>6, <1>13 DEF Received
    <3>5. users[u].email # Tombstone
      BY Zenon, <3>1, <1>6, RowsAssumption
    <3> QED
      BY Zenon, <3>4, <3>5 DEF UserOK
  <2>2. CASE u # u0
    BY Zenon, <2>2, <1>6 DEF UserOK, Exists
  <2> QED
    BY Zenon, <2>1, <2>2
<1>17. ASSUME NEW t \in DOMAIN tokens PROVE TokenOK(t)
  <2>1. PICK k \in TokenRows : k = tokens[t] /\ k.user = u0 /\ k.epoch = 0 /\ k.sid \in {0, 1}
    BY <1>10, <1>17
  <2>2. users[u0] = row
    BY Zenon, <1>6
  <2>3. 1 \in DOMAIN sessions /\ sessions[1] = s1
    BY <1>8
  <2> QED
    BY <2>1, <2>2, <2>3, <1>6, <1>8 DEF TokenOK, Current, Exists
<1>18. ASSUME NEW u \in Users, NEW p \in Purposes, NEW i \in DOMAIN codes[u][p]
       PROVE  CodeOK(u, p, codes[u][p][i])
  <2>1. u = u0
    <3>1. CASE u # u0
      <4>1. codes[u][p] = <<>>
        BY Zenon, <3>1, <1>12
      <4> QED
        BY <4>1, <1>18
    <3> QED
      BY Zenon, <3>1
  <2>2. i = 1 /\ codes[u][p][i] = IF p = "signup" THEN c1 ELSE IF p = "email_change" THEN c2 ELSE c3
    BY <2>1, <1>15, <1>18
  <2>3. users[u] = row
    BY Zenon, <2>1, <1>6
  <2> QED
    BY <2>2, <2>3, <1>6, <1>13, AccountsAssumption DEF CodeOK
<1>19. ASSUME NEW r \in Requests PROVE ReqOK(req[r])
  BY Zenon, EndsOK DEF Init, ReqOK
<1> QED
  BY Zenon, <1>14, <1>16, <1>17, <1>18, <1>19 DEF AccountsInv

(* A handler that checks a token starts in one of these states.            *)
LEMMA Authenticated ==
    ASSUME AccountsInv, NEW r \in Requests,
           \/ refresh(r) \/ change_password(r) \/ revoke_other_sessions(r) \/ revoke_session(r)
           \/ request_email_change(r) \/ confirm_email_change(r) \/ account_action(r)
           \/ create_wallet(r) \/ manage_key(r)
    PROVE  AccountsInv'
<1>1. UNCHANGED rows
  BY Zenon DEF refresh, change_password, revoke_other_sessions, revoke_session, request_email_change,
         confirm_email_change, account_action, create_wallet, manage_key
<1>2. PICK k \in Kinds \ Tokenless, pc \in Places :
          /\ authenticate(r, k, pc) /\ k \in KindsAt(pc)
          /\ pc \in {"epoch", "password", "apply", "revoke", "claim", "insert", "key"}
  <2>1. /\ {"refresh", "change_password", "revoke_others", "revoke_session", "email_change",
            "confirm_email", "create_wallet", "generate_key", "delete_key"} \subseteq Kinds \ Tokenless
        /\ AccountKinds \subseteq Kinds \ Tokenless
        /\ {"epoch", "password", "apply", "revoke", "claim", "insert", "key"} \subseteq Places
    BY Zenon DEF Kinds, Tokenless, AccountKinds, Places
  <2>2. /\ "refresh" \in KindsAt("epoch") /\ "change_password" \in KindsAt("password")
        /\ "revoke_others" \in KindsAt("apply") /\ "revoke_session" \in KindsAt("revoke")
        /\ "email_change" \in KindsAt("password") /\ "confirm_email" \in KindsAt("claim")
        /\ AccountKinds \subseteq KindsAt("password") /\ "create_wallet" \in KindsAt("insert")
        /\ {"generate_key", "delete_key"} \subseteq KindsAt("key")
    BY Zenon DEF KindsAt, Redeeming
  <2> QED
    BY <2>1, <2>2, Zenon DEF refresh, change_password, revoke_other_sessions, revoke_session, request_email_change,
         confirm_email_change, account_action, create_wallet, manage_key
<1>3. pc \notin {"consume", "move", "open", "rehash", "issue", "read", "mark", "commit"}
  BY Zenon, <1>2
<1> QED
  BY Zenon, <1>1, <1>2, <1>3, AuthStep

(* Every step keeps the invariant.                                         *)
LEMMA Steps == AccountsInv /\ [Next]_vars => AccountsInv'
<1> SUFFICES ASSUME AccountsInv, [Next]_vars PROVE AccountsInv'
  BY Zenon
<1>1. CASE UNCHANGED vars
  <2>1. TypeOK'
    BY Zenon, <1>1 DEF AccountsInv, TypeOK, vars
  <2>2. \A u \in Users : UserOK(u)'
    BY Zenon, <1>1 DEF AccountsInv, UserOK, Received, Exists, vars
  <2>3. \A t \in DOMAIN tokens' : TokenOK(t)'
    BY <1>1 DEF AccountsInv, TokenOK, Current, Exists, is_session_valid, vars
  <2>4. \A u \in Users, p \in Purposes : \A i \in DOMAIN codes'[u][p] : CodeOK(u, p, codes[u][p][i])'
    BY <1>1 DEF AccountsInv, CodeOK, Exists, vars
  <2>5. ASSUME NEW r \in Requests PROVE ReqOK(req[r])'
    <3>1. PICK q : q = req[r] /\ q = req'[r] /\ ReqOK(q)
      BY Zenon, <1>1 DEF AccountsInv, vars
    <3>2. ReqOK(q)'
      BY Zenon, <1>1, <3>1 DEF ReqOK, Current, Exists, Received, Found, Kept, vars
    <3> QED
      BY Zenon, <3>1, <3>2 DEF ReqOK
  <2> QED
    BY Zenon, <2>1, <2>2, <2>3, <2>4, <2>5 DEF AccountsInv
<1>2. ASSUME NEW r \in Requests, Start(r) PROVE AccountsInv'
  BY Zenon, <1>2, Authenticated, OpenStarts, UserWrites DEF Start
<1>3. ASSUME NEW r \in Requests, Step(r) PROVE AccountsInv'
  BY Zenon, <1>3, Reads, UserWrites, SessionWrites, OtherWrites, EpochApplied, EpochMoves, Removals, CodeWrites DEF Step
<1> QED
  BY Zenon, <1>1, <1>2, <1>3 DEF Next

(* The inductive invariant of the accounts.                                *)
THEOREM AccountsInvHolds == Spec => []AccountsInv
  BY Starting, Steps, PTL DEF Spec

(* is_session_valid accepts the tokens of standing credentials of standing *)
(* accounts, for any users, requests and interleaving of their steps and   *)
(* of the statements of a new epoch with its commit; loose sessions are    *)
(* the ones it says nothing of.                                            *)
THEOREM CredentialsStand == Spec => []TokensAreCurrent
<1>1. ASSUME AccountsInv PROVE TokensAreCurrent
  <2>1. ASSUME NEW t \in DOMAIN tokens PROVE TokenOK(t) /\ UserOK(tokens[t].user)
    <3>1. tokens[t].user \in Users
      <4>1. tokens[t] \in TokenRows
        BY <1>1, <2>1 DEF AccountsInv, TypeOK
      <4> QED
        BY Zenon, <4>1 DEF TokenRows
    <3> QED
      BY Zenon, <1>1, <2>1, <3>1 DEF AccountsInv
  <2>2. LiveTokensAreCurrent
    BY Zenon, <2>1 DEF LiveTokensAreCurrent, TokenOK, Current, is_session_valid
  <2>3. DeletedIsOut
    BY Zenon, <2>1 DEF DeletedIsOut, UserOK, is_session_valid
  <2> QED
    BY Zenon, <2>2, <2>3 DEF TokensAreCurrent
<1> QED
  BY <1>1, AccountsInvHolds, PTL

(* verify_and_consume_otp spends a code once, within its attempts, and a   *)
(* verified account has an address at which a code was received.           *)
THEOREM CodesAreProof == Spec => []CodesProve
<1>1. ASSUME AccountsInv PROVE CodesProve
  <2>1. CodesAreSpent
    BY <1>1 DEF CodesAreSpent, AccountsInv, CodeOK
  <2>2. MailboxProven
    BY Zenon, <1>1 DEF MailboxProven, AccountsInv, UserOK, Received
  <2> QED
    BY Zenon, <2>1, <2>2 DEF CodesProve
<1> QED
  BY <1>1, AccountsInvHolds, PTL

(* Only the roll-back of a signup removes a row, and none that is verified *)
LEMMA RowsKept ==
    ASSUME AccountsInv, [Next]_vars, NEW u \in Users, Exists(u), users[u].verified
    PROVE  users'[u] # Gone
<1>0. TypeOK /\ users[u] \in UserRows /\ users[u] # Gone
  BY Zenon DEF AccountsInv, TypeOK, Exists
<1>1. CASE UNCHANGED users
  BY Zenon, <1>0, <1>1
<1>2. ASSUME NEW v \in Users, NEW y \in UserRows, users' = [users EXCEPT ![v] = y]
      PROVE  users'[u] # Gone
  BY Zenon, <1>0, <1>2, RowsAssumption DEF TypeOK
<1>3. \A v \in Users, f \in UserRows : f = users[v] => Exists(v)
  BY Zenon, RowsAssumption DEF Exists
<1>4. \A v \in Users : Exists(v) => users[v] \in UserRows
  BY Zenon, <1>0 DEF TypeOK, Exists
<1>5. \A r \in Requests : req[r] \in Held /\ ReqOK(req[r])
  BY Zenon, <1>0 DEF AccountsInv, TypeOK
<1>6. ASSUME NEW r \in Requests, rehash_password(r) PROVE users'[u] # Gone
  <2>1. PICK q \in Held : q = req[r] /\ ReqOK(q) /\ q.pc = "rehash"
    BY Zenon, <1>5, <1>6 DEF rehash_password, At
  <2>2. q.u \in Users /\ q.p \in Passwords
    BY Zenon, <2>1 DEF ReqOK
  <2>3. CASE Exists(q.u)
    <3>0. PICK row \in UserRows : row = users[q.u]
      BY Zenon, <2>2, <2>3, <1>4
    <3>1. PICK y \in UserRows : y = [row EXCEPT !.pw = q.p, !.old = FALSE]
      BY Zenon, <2>2 DEF UserRows
    <3>2. users' = [users EXCEPT ![q.u] = y]
      BY Zenon, <2>1, <2>3, <3>0, <3>1, <1>6 DEF rehash_password
    <3> QED
      BY Zenon, <2>2, <3>2, <1>2
  <2> QED
    BY Zenon, <2>1, <2>3, <1>1, <1>6 DEF rehash_password
<1>7. ASSUME NEW r \in Requests, mark_email_verified(r) PROVE users'[u] # Gone
  <2>1. PICK q \in Held : q = req[r] /\ ReqOK(q) /\ q.pc = "mark"
    BY Zenon, <1>5, <1>7 DEF mark_email_verified, At
  <2>2. q.u \in Users
    BY Zenon, <2>1 DEF ReqOK
  <2>3. CASE Exists(q.u)
    <3>0. PICK row \in UserRows : row = users[q.u]
      BY Zenon, <2>2, <2>3, <1>4
    <3>1. PICK y \in UserRows : y = [row EXCEPT !.verified = TRUE]
      BY Zenon DEF UserRows
    <3>2. users' = [users EXCEPT ![q.u] = y]
      BY Zenon, <2>1, <2>3, <3>0, <3>1, <1>7 DEF mark_email_verified
    <3> QED
      BY Zenon, <2>2, <3>2, <1>2
  <2> QED
    BY Zenon, <2>1, <2>3, <1>1, <1>7 DEF mark_email_verified
<1>8. ASSUME NEW r \in Requests, update_email(r) \/ commit_epoch(r) \/ delete_account(r) PROVE users'[u] # Gone
  <2>1. PICK q \in Held : q = req[r] /\ ReqOK(q) /\ q.pc \in {"move", "commit", "erase"}
    BY Zenon, <1>5, <1>8 DEF update_email, commit_epoch, delete_account, At
  <2>2. PICK v \in Users : v = q.u
    BY Zenon, <2>1 DEF ReqOK
  <2>3. users[v] \in UserRows \cup {Gone}
    BY Zenon, <2>1, <2>2, <1>0 DEF ReqOK, TypeOK
  <2>4. CASE v # u
    <3>1. PICK g : users' = [users EXCEPT ![v] = g]
      BY Zenon, <2>1, <2>2, <1>8 DEF update_email, commit_epoch, delete_account
    <3> QED
      BY Zenon, <2>4, <3>1, <1>0 DEF TypeOK
  <2>5. CASE v = u
    <3>0. PICK row \in UserRows : row = users[v] /\ row.epoch + 1 \in Nat
      BY <2>5, <1>0 DEF UserRows
    <3>1. CASE update_email(r)
      <4>1. q.e \in Emails
        BY Zenon, <2>1, <3>1 DEF update_email, At, ReqOK
      <4>2. PICK y \in UserRows : y = [row EXCEPT !.email = q.e]
        BY Zenon, <4>1 DEF UserRows
      <4>3. users' = [users EXCEPT ![v] = y]
        BY Zenon, <2>1, <2>2, <3>0, <3>1, <4>2 DEF update_email
      <4> QED
        BY Zenon, <4>3, <1>2
    <3>2. CASE commit_epoch(r)
      <4>1. PICK p \in Passwords \cup {None} :
                users' = [users EXCEPT ![v].epoch = users[v].epoch + 1, ![v].pw = IF p = None THEN @ ELSE p,
                                       ![v].old = IF p = None THEN @ ELSE FALSE]
        BY Zenon, <2>1, <2>2, <3>2 DEF commit_epoch
      <4>2. PICK y \in UserRows : y = [row EXCEPT !.epoch = row.epoch + 1, !.pw = IF p = None THEN row.pw ELSE p,
                                                    !.old = IF p = None THEN row.old ELSE FALSE]
        BY Zenon, <3>0 DEF UserRows
      <4>3. users' = [users EXCEPT ![v] = y]
        BY Zenon, <3>0, <4>1, <4>2
      <4> QED
        BY Zenon, <4>3, <1>2
    <3>3. CASE delete_account(r)
      <4>1. PICK y \in UserRows : y = [row EXCEPT !.email = Tombstone, !.pw = Scrubbed, !.old = FALSE,
                                                    !.deleted = TRUE, !.epoch = row.epoch + 1]
        BY Zenon, <3>0 DEF UserRows
      <4>2. users' = [users EXCEPT ![v] = y]
        BY Zenon, <2>1, <2>2, <3>0, <3>3, <4>1 DEF delete_account
      <4> QED
        BY Zenon, <4>2, <1>2
    <3> QED
      BY Zenon, <3>1, <3>2, <3>3, <1>8
  <2> QED
    BY Zenon, <2>4, <2>5
<1>9. ASSUME NEW r \in Requests, signup(r) PROVE users'[u] # Gone
  <2>1. PICK e \in Emails, p \in Passwords, v \in Users :
            users' = IF UserAt(e) = {} THEN [users EXCEPT ![v] = User(e, p, FALSE)] ELSE users
    BY Zenon, <1>9 DEF signup
  <2>2. PICK y \in UserRows : y = User(e, p, FALSE)
    BY Zenon DEF UserRows, User
  <2> QED
    BY Zenon, <2>1, <2>2, <1>1, <1>2
<1>10. ASSUME NEW r \in Requests, delete_unverified_user(r) PROVE users'[u] # Gone
  <2>1. req[r].u # u \/ UNCHANGED users
    BY Zenon, <1>10 DEF delete_unverified_user, RollsBack
  <2> QED
    BY Zenon, <2>1, <1>0, <1>10 DEF delete_unverified_user, TypeOK
<1>11. ASSUME NEW r \in Requests, Start(r) \/ Step(r), ~signup(r), ~rehash_password(r), ~mark_email_verified(r),
              ~(update_email(r) \/ commit_epoch(r) \/ delete_account(r)), ~delete_unverified_user(r)
       PROVE  UNCHANGED users
  BY Zenon, <1>11 DEF Start, Step, rows, login, refresh, logout, change_password, revoke_other_sessions, revoke_session,
       resend_otp, request_password_reset, confirm_password_reset, verify_email, request_email_change,
       confirm_email_change, account_action, create_wallet, manage_key, open_session, get_user_epoch, denylist,
       continue_session, mark_revoked, verify_password, issue_otp, claim_otp, consume_otp, get_user,
       find_user_by_email, ensure_no_funds, insert_wallet, store_key, fail, apply_epoch
<1> QED
  BY Zenon, <1>1, <1>6, <1>7, <1>8, <1>9, <1>10, <1>11 DEF Next, vars

(* Only delete_account archives wallets, after it compared them.           *)
LEMMA WalletsKept ==
    ASSUME AccountsInv, [Next]_vars, NEW w \in DOMAIN wallets, ~wallets[w].archived, wallets'[w].archived
    PROVE  \E r \in Requests : At(r, "erase") /\ w \in req[r].checked
<1>0. wallets \in Seq(WalletRows) /\ wallets' # wallets
  BY Zenon DEF AccountsInv, TypeOK
<1>1. ASSUME NEW r \in Requests, insert_wallet(r) PROVE FALSE
  <2>1. PICK g : wallets' = Append(wallets, g)
    BY Zenon, <1>1 DEF insert_wallet
  <2>2. wallets'[w] = wallets[w]
    BY <2>1, <1>0
  <2> QED
    BY Zenon, <2>2
<1>2. ASSUME NEW r \in Requests, delete_account(r) PROVE At(r, "erase") /\ w \in req[r].checked
  <2>1. w \in Owned(req[r].u)
    BY Zenon, <1>2 DEF delete_account
  <2> QED
    BY Zenon, <2>1, <1>2 DEF delete_account, SameWallets
<1>3. ASSUME NEW r \in Requests, Start(r) \/ Step(r), ~insert_wallet(r), ~delete_account(r)
      PROVE  UNCHANGED wallets
  BY Zenon, <1>3 DEF Start, Step, rows, login, refresh, logout, change_password, revoke_other_sessions, revoke_session,
       resend_otp, request_password_reset, confirm_password_reset, verify_email, request_email_change,
       confirm_email_change, account_action, create_wallet, manage_key, open_session, get_user_epoch, denylist,
       continue_session, mark_revoked, verify_password, issue_otp, claim_otp, consume_otp, get_user,
       find_user_by_email, ensure_no_funds, store_key, fail, signup, rehash_password, mark_email_verified,
       update_email, apply_epoch, commit_epoch, delete_unverified_user
<1> QED
  BY Zenon, <1>0, <1>1, <1>2, <1>3 DEF Next, vars

(* Whatever else runs in between, the roll-back of a signup leaves         *)
(* verified accounts alone and delete_account archives what was checked.   *)
THEOREM RemovalsAreSafe == Spec => RemovalIsSafe
<1>1. ASSUME AccountsInv, [Next]_vars PROVE [VerifiedStays /\ ArchivedWereChecked]_vars
  <2>1. VerifiedStays
    BY Zenon, <1>1, RowsKept DEF VerifiedStays
  <2>2. ArchivedWereChecked
    BY Zenon, <1>1, WalletsKept DEF ArchivedWereChecked
  <2> QED
    BY Zenon, <2>1, <2>2
<1> QED
  BY <1>1, AccountsInvHolds, PTL DEF Spec, RemovalIsSafe

===============================================================================
