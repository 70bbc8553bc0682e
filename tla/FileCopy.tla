------------------------------ MODULE FileCopy -------------------------------
(***************************************************************************)
(* What copying files to a server promises (the session of results.txt in  *)
(* src/03_file-transfer, whose two md5sums agree): a name on the server    *)
(* belongs to the first client that asks for it, the file grows by the     *)
(* chunks of that client's file in their order, and a client is told that  *)
(* it is done only when every chunk is there.                              *)
(*                                                                         *)
(* The server may break that promise, which is then broken for good: it    *)
(* adds to any file what belongs into another, and tells clients what is   *)
(* not so.  Still a file has one creator and is only ever added to.        *)
(***************************************************************************)
EXTENDS Integers, Sequences

CONSTANTS Clients, Names, None

VARIABLES
  arg,      \* [Clients -> [name, size]], the file each client copies
  owner,    \* [Names -> Clients or None], whose copy the server's file is
  data,     \* [Names -> Seq], its chunks; chunk i of client c is <<c, i>>
  told,     \* the clients that were told they are done
  broken    \* whether the promise is broken

vars == <<arg, owner, data, told, broken>>

Init ==
  /\ arg \in [Clients -> [name : Names, size : Nat]]
  /\ owner = [n \in Names |-> None]
  /\ data = [n \in Names |-> << >>]
  /\ told = {}
  /\ broken = FALSE

Create(c) ==
  /\ owner[arg[c].name] = None
  /\ owner' = [owner EXCEPT ![arg[c].name] = c]
  /\ UNCHANGED <<arg, data, told, broken>>

Extend(c) ==
  LET n == arg[c].name IN
    /\ owner[n] = c
    /\ Len(data[n]) < arg[c].size
    /\ data' = [data EXCEPT ![n] = Append(@, <<c, Len(@) + 1>>)]
    /\ UNCHANGED <<arg, owner, told, broken>>

Tell(c) ==
  /\ owner[arg[c].name] = c
  /\ Len(data[arg[c].name]) = arg[c].size
  /\ told' = told \cup {c}
  /\ UNCHANGED <<arg, owner, data, broken>>

Break == broken' = TRUE /\ UNCHANGED <<arg, owner, data, told>>

(* What may happen to file n from then on, or as the promise is broken: it *)
(* gets anything at its end.                                               *)
Spoil(n) ==
  /\ broken' = TRUE
  /\ owner[n] # None
  /\ Len(data'[n]) = Len(data[n]) + 1
  /\ data' = [data EXCEPT ![n] = Append(@, data'[n][Len(@) + 1])]
  /\ UNCHANGED <<arg, owner, told>>

Mislead(c) ==
  /\ broken
  /\ told' = told \cup {c}
  /\ UNCHANGED <<arg, owner, data, broken>>

Next ==
  \/ \E c \in Clients : Create(c) \/ Extend(c) \/ Tell(c) \/ Mislead(c)
  \/ Break
  \/ \E n \in Names : Spoil(n)

Spec == Init /\ [][Next]_vars
=============================================================================
