----------------------------- MODULE ArcSession -----------------------------
(* Who is signed in, and whose wallet the page shows: the authentication     *)
(* context of the page (frontend/src/contexts/AuthContext.tsx), and the      *)
(* routes it calls, which make a user's one Circle wallet                    *)
(* (lib/user-service.ts).  Answers come in any order.                        *)
EXTENDS Naturals, FiniteSets

CONSTANTS
    Users,
    Fetches,    \* calls that may be under way at the same time
    MaxLogins   \* bound on the times somebody signs in

Nobody == "nobody"

VARIABLES
    account,  \* who Privy says is signed in
    shown,    \* whose wallet and balance the page shows, and which wallet
    fetch,    \* the calls under way, and what their functions hold
    row,      \* the CircleWallet row of each user: Circle's wallet, or none
    made,     \* the wallets Circle has made, each with the user it is meant for
    told,     \* every wallet a user was told is theirs
    logins    \* times somebody signed in

server == <<row, made>>
vars == <<account, shown, fetch, row, made, told, logins>>

NoWallet == <<>>
Blank == [user |-> Nobody, wallet |-> NoWallet]
Idle == [route |-> "none", pc |-> "idle", by |-> Nobody, wallet |-> NoWallet, cancelled |-> FALSE]

Init ==
    /\ account = Nobody
    /\ shown = Blank
    /\ fetch = [f \in Fetches |-> Idle]
    /\ row = [u \in Users |-> NoWallet]
    /\ made = {}
    /\ told = {}
    /\ logins = 0

At(f, route, pc) == fetch[f].route = route /\ fetch[f].pc = pc

----------------------------------------------------------------------------
(* The page.                                                                 *)

(* authedFetch: the token is that of whoever is signed in when it is sent.   *)
Send(f, route) ==
    /\ fetch[f] = Idle
    /\ fetch' = [fetch EXCEPT ![f] = [Idle EXCEPT !.route = route, !.pc = "sent", !.by = account]]

Login(u) ==
    /\ account = Nobody
    /\ logins < MaxLogins /\ logins' = logins + 1
    /\ account' = u
    /\ \E f \in Fetches : fetch[f] = Idle /\
         fetch' = [fetch EXCEPT ![f] = [Idle EXCEPT !.route = "sync", !.pc = "sent", !.by = u]]
    /\ UNCHANGED <<shown, server, told>>

(* The effect's cleanup cancels the sign-in under way: its answer is not     *)
(* shown, but the balance is still asked for afterwards, and that answer is. *)
Logout ==
    /\ account # Nobody
    /\ account' = Nobody
    /\ shown' = Blank
    /\ fetch' = [f \in Fetches |->
                   IF fetch[f].route = "sync" THEN [fetch[f] EXCEPT !.cancelled = TRUE] ELSE fetch[f]]
    /\ UNCHANGED <<server, told, logins>>

\* Mutant: the interval polls only until something is shown.
Poll_OnlyWhenBlank ==
    /\ account # Nobody /\ shown = Blank
    /\ \E f \in Fetches : Send(f, "balance")
    /\ UNCHANGED <<account, shown, server, told, logins>>

(* Every 90 seconds, after every trade, and when the banner says confirmed.  *)
Poll ==
    /\ account # Nobody
    /\ \E f \in Fetches : Send(f, "balance")
    /\ UNCHANGED <<account, shown, server, told, logins>>

----------------------------------------------------------------------------
(* POST auth/sync-user: createOrGetCircleWalletForUser.                      *)

FindWallet(f) ==
    /\ At(f, "sync", "sent")
    /\ LET w == row[fetch[f].by]
       IN  fetch' = [fetch EXCEPT ![f].pc = IF w = NoWallet THEN "make" ELSE "answer",
                                  ![f].wallet = w]
    /\ UNCHANGED <<account, shown, server, told, logins>>

\* Mutant: the key is another one for every call.
KeyOf_Fresh(f) == <<"wallet-provision", f, logins>>

(* makeIdempotencyKey: the same for a user whenever it is made.              *)
KeyOf(f) == <<"wallet-provision", fetch[f].by>>

(* Circle makes one wallet for one key.                                      *)
MakeWallet(f) ==
    /\ At(f, "sync", "make")
    /\ made' = made \cup {<<fetch[f].by, KeyOf(f)>>}
    /\ fetch' = [fetch EXCEPT ![f].pc = "save", ![f].wallet = KeyOf(f)]
    /\ UNCHANGED <<account, shown, row, told, logins>>

(* userId is unique: who comes second reads the row of who came first.       *)
SaveWallet(f) ==
    /\ At(f, "sync", "save")
    /\ row' = [row EXCEPT ![fetch[f].by] = IF @ = NoWallet THEN fetch[f].wallet ELSE @]
    /\ fetch' = [fetch EXCEPT ![f].pc = "answer", ![f].wallet = row'[fetch[f].by]]
    /\ UNCHANGED <<account, shown, made, told, logins>>

(* The answer is shown unless the effect is gone; the balance is asked for   *)
(* next in any case.  A call fails before it wrote anything, or its answer   *)
(* is lost.                                                                  *)
AnswerSync(f) ==
    /\ At(f, "sync", "answer")
    /\ told' = told \cup {<<fetch[f].by, fetch[f].wallet>>}
    /\ shown' = IF fetch[f].cancelled THEN shown
                ELSE [user |-> fetch[f].by, wallet |-> fetch[f].wallet]
    /\ fetch' = [fetch EXCEPT ![f] =
         IF account = Nobody THEN Idle      \* no token: the answer is a 401
         ELSE [Idle EXCEPT !.route = "balance", !.pc = "sent", !.by = account]]
    /\ UNCHANGED <<account, server, logins>>

(* GET wallets/balance: nothing is shown for a user without a wallet.        *)
AnswerBalance(f) ==
    /\ At(f, "balance", "sent")
    /\ LET u == fetch[f].by IN
       IF row[u] = NoWallet
       THEN UNCHANGED <<shown, told>>
       ELSE /\ shown' = [user |-> u, wallet |-> row[u]]
            /\ told' = told \cup {<<u, row[u]>>}
    /\ fetch' = [fetch EXCEPT ![f] = Idle]
    /\ UNCHANGED <<account, server, logins>>

Fails(f) ==
    /\ fetch[f] # Idle
    /\ fetch' = [fetch EXCEPT ![f] = Idle]
    /\ UNCHANGED <<account, shown, server, told, logins>>

----------------------------------------------------------------------------
Step(f) == FindWallet(f) \/ MakeWallet(f) \/ SaveWallet(f) \/ AnswerSync(f) \/ AnswerBalance(f)

Next ==
    \/ (\E u \in Users : Login(u)) \/ Logout \/ Poll
    \/ \E f \in Fetches : Step(f) \/ Fails(f)

AnswerCurrent == \E f \in Fetches : fetch[f].by = account /\ AnswerBalance(f)

(* The interval goes on, and a call that is sent often enough is answered.   *)
Fairness ==
    /\ WF_vars(Poll)
    /\ \A f \in Fetches : WF_vars(Step(f))
    /\ SF_vars(AnswerCurrent)

Spec == Init /\ [][Next]_vars /\ Fairness

----------------------------------------------------------------------------
(* The page shows a user, the rows name wallets Circle made.                 *)
TypeOK ==
    /\ account \in Users \cup {Nobody}
    /\ shown.user \in Users \cup {Nobody}
    /\ \A u \in Users : row[u] \in {w[2] : w \in made} \cup {NoWallet}

(* "Exactly one per user": whatever two first sign-ins overlap, everything a *)
(* user is ever told to send money to is the one wallet of the row, and      *)
(* Circle made no other.                                                     *)
OneWalletPerUser ==
    /\ \A t \in told : t[2] = row[t[1]]
    /\ \A v, w \in made : v[1] = w[1] => v = w

(* Once somebody stays signed in, whatever answers for others were still     *)
(* under way, the page comes to show this user's wallet and keeps to it.     *)
ShownComesRight ==
    \A u \in Users : <>[](account = u /\ row[u] # NoWallet) => <>[](shown.user = u)
=============================================================================
