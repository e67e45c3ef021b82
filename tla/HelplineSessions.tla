-------------------------- MODULE HelplineSessions --------------------------
(***************************************************************************)
(* What the helpline promises: every call walks through the menu one key   *)
(* at a time, goodbye is final, and the accounts change only when a caller *)
(* finishes typing a credit card, by exactly one account.                  *)
(*                                                                         *)
(* The menu lists the edges the code of DtmfHandler has, including the two *)
(* that leave "credit" when a caller types past the buffer.                *)
(*                                                                         *)
(* Nothing orders two handlers of one call: a call with a race may lose or *)
(* repeat steps, or have a session again, but it stays its own trouble.    *)
(***************************************************************************)

CONSTANTS Calls

VARIABLES phase,      \* menu every call is in, "none" without a session
          accounts,   \* function from registered numbers to credit cards
          raced       \* calls of which two messages were handled at once

svars == <<phase, accounts, raced>>

Menu == {<<"init", "hodl">>, <<"init", "buy">>,
         <<"hodl", "buy">>, <<"hodl", "phone">>,
         <<"buy", "phone">>, <<"buy", "bye">>,
         <<"phone", "known">>, <<"phone", "credit">>, <<"phone", "bye">>,
         <<"known", "update">>, <<"known", "bye">>,
         <<"update", "bye">>,
         <<"credit", "bye">>, <<"credit", "support">>, <<"credit", "stray">>,
         <<"callback", "bye">>,
         <<"support", "sup_id">>, <<"support", "bye">>,
         <<"sup_id", "support">>, <<"sup_id", "bye">>}

Open(c) == /\ phase[c] = "none"
           /\ phase' = [phase EXCEPT ![c] = "init"]
           /\ UNCHANGED accounts

\* Nobody is asked what to do with an account before there is one.
Choose(c) == /\ \E m \in Menu : /\ m[1] = phase[c]
                                /\ m[2] = "known" => DOMAIN accounts # {}
                                /\ phase' = [phase EXCEPT ![c] = m[2]]
             /\ UNCHANGED accounts

\* accounts' differs from accounts at number n only.
StoreAt(n) == /\ n \in DOMAIN accounts'
              /\ accounts' = [m \in DOMAIN accounts \cup {n} |->
                                IF m = n THEN accounts'[n] ELSE accounts[m]]

Register(c) == /\ phase[c] = "credit"
               /\ phase' = [phase EXCEPT ![c] = "callback"]
               /\ \E n \in DOMAIN accounts' \ DOMAIN accounts : StoreAt(n)

ChangeCard(c) == /\ phase[c] = "update"
                 /\ phase' = [phase EXCEPT ![c] = "known"]
                 /\ \E n \in DOMAIN accounts : StoreAt(n)

Close(c) == /\ phase' = [phase EXCEPT ![c] = "none"]
            /\ UNCHANGED accounts

\* A call with a race may go anywhere, and store one card on the way.
Slip(c) == /\ raced' = raced \cup {c}
           /\ phase' = [phase EXCEPT ![c] = phase'[c]]
           /\ \/ UNCHANGED accounts
              \/ \E n \in DOMAIN accounts' : StoreAt(n)

SInit == phase = [c \in Calls |-> "none"] /\ raced = {}

Step(c) == Open(c) \/ Choose(c) \/ Register(c) \/ ChangeCard(c) \/ Close(c)

SNext == \E c \in Calls : \/ Step(c) /\ UNCHANGED raced
                         \/ Slip(c)

SSpec == SInit /\ [][SNext]_svars

=============================================================================
