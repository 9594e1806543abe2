---- MODULE MCAccounts ----
EXTENDS Accounts

CONSTANTS ann, bob, a, b, c

\* One account exists, a new name is contended for.
MCEarlier == {[name |-> ann, email |-> a]}
MCForm == {[name |-> bob, email |-> b], [name |-> bob, email |-> c]} \cup MCEarlier
====
