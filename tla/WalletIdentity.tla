---------------------------- MODULE WalletIdentity ----------------------------
(* Who a wallet belongs to: Privy knows which wallets a user has linked now;  *)
(* each request that needs one reads that list (privy-identity.ts), writes it *)
(* to the Wallet table in one transaction, and then asks the table            *)
(* (requireWalletOwnership, apps/api-worker/src/index.ts).  Requests overlap, *)
(* and links change while one is between its read and its transaction.        *)
EXTENDS Naturals

CONSTANTS
    Users,
    Wallets,
    Calls,       \* requests
    Caller,      \* the user whose token a request carries
    MaxLinks,    \* bound on links and unlinks in Privy
    NoOne

VARIABLES
    linked,      \* Privy: the user each wallet is linked to now
    row,         \* Wallet."userId"
    call,        \* each request: its step, its wallet, what it read
    fresh,       \* ghost: what each user had linked since last without a request
    links
vars == <<linked, row, call, fresh, links>>

LinkedTo(u) == {w \in Wallets : linked[w] = u}
Idle == [step |-> "idle"]
Open(u) == \E c \in Calls : Caller[c] = u /\ call[c].step /= "idle"

TypeOK ==
    /\ linked \in [Wallets -> Users \cup {NoOne}]
    /\ row \in [Wallets -> Users \cup {NoOne}]
    /\ \A c \in Calls : call[c].step \in {"idle", "authenticated", "read", "synced"}
    /\ fresh \in [Users -> SUBSET Wallets]
    /\ links \in 0 .. MaxLinks

Init ==
    /\ linked = [w \in Wallets |-> NoOne]
    /\ row = [w \in Wallets |-> NoOne]
    /\ call = [c \in Calls |-> Idle]
    /\ fresh = [u \in Users |-> {}]
    /\ links = 0

(* Privy links a wallet to one user at a time.                               *)
Link(w, u) ==
    /\ links < MaxLinks
    /\ linked[w] /= u
    /\ linked[w] = NoOne \/ u = NoOne
    /\ linked' = [linked EXCEPT ![w] = u]
    /\ fresh' = IF u = NoOne THEN fresh ELSE [fresh EXCEPT ![u] = @ \cup {w}]
    /\ links' = links + 1
    /\ UNCHANGED <<row, call>>

(* requireAuth accepted the token; the request names a wallet.               *)
Authenticate(c, w) ==
    /\ call[c].step = "idle"
    /\ call' = [call EXCEPT ![c] = [step |-> "authenticated", wallet |-> w]]
    /\ fresh' = [fresh EXCEPT ![Caller[c]] = IF Open(Caller[c]) THEN @ ELSE LinkedTo(Caller[c])]
    /\ UNCHANGED <<linked, row, links>>

ReadPrivy(c) ==
    /\ call[c].step = "authenticated"
    /\ call' = [call EXCEPT ![c] =
                   [step |-> "read", wallet |-> @.wallet, has |-> LinkedTo(Caller[c])]]
    /\ UNCHANGED <<linked, row, fresh, links>>

Refused(c) == call' = [call EXCEPT ![c] = Idle]

\* Mutant: the transaction does not delete what is no longer linked.
PersistPrivyWalletIdentity_Keeps(c) ==
    LET u == Caller[c] IN
    /\ call[c].step = "read"
    /\ IF \E w \in call[c].has : row[w] \notin {u, NoOne}
       THEN Refused(c) /\ UNCHANGED row
       ELSE /\ row' = [w \in Wallets |-> IF w \in call[c].has THEN u ELSE row[w]]
            /\ call' = [call EXCEPT ![c] = [step |-> "synced", wallet |-> @.wallet]]
    /\ UNCHANGED <<linked, fresh, links>>

(* The upserts refuse a wallet that another user holds, and then the whole    *)
(* transaction is rolled back: none of the user's wallets is written.        *)
PersistPrivyWalletIdentity(c) ==
    LET u == Caller[c] IN
    /\ call[c].step = "read"
    /\ IF \E w \in call[c].has : row[w] \notin {u, NoOne}
       THEN Refused(c) /\ UNCHANGED row
       ELSE /\ row' = [w \in Wallets |-> CASE w \in call[c].has -> u
                                           [] row[w] = u /\ w \notin call[c].has -> NoOne
                                           [] OTHER -> row[w]]
            /\ call' = [call EXCEPT ![c] = [step |-> "synced", wallet |-> @.wallet]]
    /\ UNCHANGED <<linked, fresh, links>>

(* The ownership query, in a connection of its own: whether it granted.      *)
Granted(c) == call[c].step = "synced" /\ row[call[c].wallet] = Caller[c]

AskTable(c) ==
    /\ call[c].step = "synced"
    /\ Refused(c)
    /\ UNCHANGED <<linked, row, fresh, links>>

(* Privy or the database does not answer: the request is refused.            *)
Fail(c) ==
    /\ call[c].step /= "idle"
    /\ Refused(c)
    /\ UNCHANGED <<linked, row, fresh, links>>

Serve(c) == ReadPrivy(c) \/ PersistPrivyWalletIdentity(c) \/ AskTable(c)

Next ==
    \/ \E w \in Wallets, u \in Users \cup {NoOne} : Link(w, u)
    \/ \E c \in Calls :
         \/ \E w \in Wallets : Authenticate(c, w)
         \/ ReadPrivy(c)
         \/ PersistPrivyWalletIdentity(c)
         \/ AskTable(c)
         \/ Fail(c)

----------------------------------------------------------------------------
(* A wallet is granted only to a user who had it linked at some time since   *)
(* the user's requests began to overlap: not on a row older than they are.   *)
GrantIsFresh == \A c \in Calls : Granted(c) => call[c].wallet \in fresh[Caller[c]]

(* Every link that lasts comes to be written, if every user keeps coming.    *)
LinkTakesEffect ==
    \A w \in Wallets, u \in Users : <>[](linked[w] = u) => []<>(row[w] = u)
=============================================================================
