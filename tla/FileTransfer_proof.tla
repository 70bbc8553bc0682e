-------------------------- MODULE FileTransfer_proof --------------------------
(***************************************************************************)
(* The file transfer for every set of clients, names, descriptors and file *)
(* sizes.  The messages and the writes of one connection are a token that  *)
(* the client and the server hand to each other: there is one at most,     *)
(* whatever stage it has reached, and where it is says how many chunks of  *)
(* the file are written, whose receives are posted, and that nobody        *)
(* disconnects before the server is done.  The acknowledgements, which     *)
(* come when they like, are no part of it.                                 *)
(***************************************************************************)
EXTENDS FileTransfer, SequenceTheorems, TLAPS

(* The stages of the token of connection c: a message under way, received, *)
(* in the hand of the client, a write under way, received, in the hand of  *)
(* the server.  There is one token at most, and none before the connection *)
(* is established or after its client has received DONE and handled it.    *)
InHand(c) == swc = c /\ (spc = "reply" \/ (spc = "handle" /\ sop # "sent"))

Early == {"none", "addr", "route", "requested", "accepted", "rejected"}
Late  == {"disconnecting", "disconnected"}

TokenOK(c) ==
  /\ sends[c] \in {0, 1}
  /\ ccq[c] \in {<< >>, <<"recv">>, <<"failed">>}
  /\ writes[c] = << >> \/ \E h \in 0..MaxChunks + 1 : writes[c] = <<h>>
  /\ scq[c] \in {<< >>, <<"data">>, <<"eof">>, <<"failed">>}
  /\ sends[c] = 1 => /\ ccq[c] = << >> /\ cpc[c] # "handle" /\ writes[c] = << >>
                     /\ scq[c] = << >> /\ ~InHand(c)
  /\ ccq[c] # << >> => /\ cpc[c] # "handle" /\ writes[c] = << >> /\ scq[c] = << >>
                       /\ ~InHand(c)
  /\ cpc[c] = "handle" => writes[c] = << >> /\ scq[c] = << >> /\ ~InHand(c)
  /\ writes[c] # << >> => scq[c] = << >> /\ ~InHand(c)
  /\ scq[c] # << >> => ~InHand(c)
  /\ placed[c] => writes[c] # << >>
  /\ cmsg[c] = "DONE" => /\ sends[c] = 0 /\ writes[c] = << >> /\ scq[c] = << >>
                         /\ ~InHand(c)
  /\ cm[c] \in Early => /\ sends[c] = 0 /\ ccq[c] = << >> /\ cpc[c] # "handle"
                        /\ writes[c] = << >> /\ scq[c] = << >> /\ ~InHand(c)
                        /\ cmsg[c] # "DONE"
                        /\ ~sack[c] /\ ~ServerHandles(c, "sent")

(* A queue of one entry.                                                   *)
Holds(q, e) == q = <<e>>

(* What the server has of the file of client c: not even its name, or its  *)
(* first k chunks.                                                         *)
Naming(c)  == fname[c] = None /\ sent[c] = 0
Upto(c, k) == /\ fname[c] = arg[c].name
              /\ owner[arg[c].name] = c /\ Len(data[arg[c].name]) = k
AtEnd(c)   == sent[c] = arg[c].size /\ Upto(c, arg[c].size)

(* What the message m and the write of number h stand for.                 *)
Says(c, m) ==
  \/ m = "MR" /\ Naming(c)
  \/ m = "READY" /\ Upto(c, sent[c])
  \/ m = "DONE" /\ Upto(c, arg[c].size)
Carries(c, h) ==
  \/ h = 0 /\ Naming(c)
  \/ h \in 1..arg[c].size /\ sent[c] = h /\ Upto(c, h - 1)
  \/ h = arg[c].size + 1 /\ AtEnd(c)
Brought(c) ==
  \/ Naming(c)
  \/ sent[c] > 0 /\ Upto(c, sent[c] - 1) /\ buffer[c] = <<c, sent[c]>>

DataOK(c) ==
  /\ sent[c] <= arg[c].size
  /\ fname[c] # None => fname[c] = arg[c].name /\ owner[arg[c].name] = c
  /\ sctx[c] = "live" /\ fname[c] # None => fd[c] \in Fds /\ fds[fd[c]] = fname[c]
  /\ writes[c] # << >> => Carries(c, Head(writes[c]))
  /\ placed[c] /\ Head(writes[c]) <= arg[c].size =>
       buffer[c] = <<c, Head(writes[c])>>
  /\ Holds(scq[c], "data") \/ ServerHandles(c, "data") => Brought(c)
  /\ Holds(scq[c], "eof") \/ ServerHandles(c, "eof") => AtEnd(c)
  /\ spc = "reply" /\ swc = c => Upto(c, sent[c])
  /\ sends[c] > 0 => Says(c, smsg[c])
  /\ Holds(ccq[c], "recv") \/ cpc[c] = "handle" => Says(c, cmsg[c])
  /\ cmsg[c] = "DONE" => fname[c] # None
  /\ cm[c] \in Early => fname[c] = None /\ sent[c] = 0

(* A server that is up keeps the files as FileCopy has them, as long as no *)
(* crash has made it break the promise.                                    *)
Sound == ServerUp /\ ~Spoiled

(* Only a file that was created has chunks or a descriptor.                *)
FilesOK ==
  /\ \A n \in Names : owner[n] = None => data[n] = << >>
  /\ \A f \in Fds : fds[f] # None => owner[fds[f]] # None

(* A context lives until its connection is gone.                           *)
ContextOK(c) ==
  /\ cm[c] \in {"accepted", "connected", "disconnecting"} => sctx[c] = "live"
  /\ cm[c] = "disconnected" <=> sctx[c] \in {"freed", "used"}
  /\ cst[c] \in {"exited", "fault"} => cm[c] = "disconnected" \/ ~ServerUp

(* A client's one receive is posted, or its completion is not yet handled. *)
ReceiveOK(c) ==
  /\ cposted[c] \in {0, 1}
  /\ cposted[c] = 1 => ~Holds(ccq[c], "recv") /\ cpc[c] \notin {"handle", "repost"}
  /\ Holds(ccq[c], "recv") => cpc[c] # "repost"

(* With the server up, a client that has not crashed disconnects when it   *)
(* is done, and rc_die comes of what NobodyDies names.                     *)
EndOK(c) ==
  /\ cm[c] \in Late /\ cst[c] # "crashed" =>
       cmsg[c] = "DONE" /\ ~Holds(ccq[c], "recv") /\ cpc[c] # "handle"
  /\ Holds(ccq[c], "failed") => cm[c] \in Late /\ cmsg[c] = "DONE" /\ cack[c]
  /\ cst[c] = "died" => Unresolved(c) \/ (Flushed(c) /\ cm[c] \in Late)
  /\ cm[c] = "rejected" \/ Holds(scq[c], "failed") => cst[c] = "crashed"

HandOK == spc \in {"handle", "reply"} => swc \in Clients

(* The server dies of what a client that crashed has left.                 *)
DeathOK == spc = "died" => \E c \in Clients : cst[c] = "crashed"

IInv ==
  /\ TypeOK /\ HandOK /\ DeathOK /\ FilesOK
  /\ \A c \in Clients : TokenOK(c) /\ ContextOK(c) /\ ReceiveOK(c)
  /\ ServerUp => \A c \in Clients : EndOK(c)
  /\ Sound => \A c \in Clients : DataOK(c)
-----------------------------------------------------------------------------
(* A step of connection c leaves the others alone.                         *)
Same(d) ==
  /\ cm'[d] = cm[d] /\ writes'[d] = writes[d] /\ placed'[d] = placed[d]
  /\ sends'[d] = sends[d] /\ cst'[d] = cst[d] /\ cpc'[d] = cpc[d] /\ ccq'[d] = ccq[d]
  /\ cack'[d] = cack[d] /\ cposted'[d] = cposted[d] /\ cmsg'[d] = cmsg[d]
  /\ sent'[d] = sent[d] /\ scq'[d] = scq[d] /\ sack'[d] = sack[d]
  /\ sposted'[d] = sposted[d] /\ sctx'[d] = sctx[d] /\ buffer'[d] = buffer[d]
  /\ smsg'[d] = smsg[d] /\ fname'[d] = fname[d] /\ fd'[d] = fd[d]

(* The server may at most stop what it does for them.                      *)
Kept(d) ==
  /\ Same(d)
  /\ (InHand(d)' => InHand(d))
  /\ \A op \in {"data", "eof", "sent"} :
       ServerHandles(d, op)' => ServerHandles(d, op)
  /\ (spc' = "reply" /\ swc' = d) => (spc = "reply" /\ swc = d)

(* Their files and descriptors stay what they are.                         *)
FilesKept(d) ==
  /\ \A n \in Names : owner[n] = d => owner'[n] = d /\ data'[n] = data[n]
  /\ \A f \in Fds : fds[f] # None /\ owner[fds[f]] = d => fds'[f] = fds[f]

Elsewhere(c) ==
  /\ arg' = arg /\ (ServerUp' => ServerUp)
  /\ \A d \in Clients \ {c} : Kept(d)

(* What is left alone keeps its part of the invariant.                     *)
LEMMA KeptOK ==
  ASSUME TypeOK, NEW d \in Clients, arg' = arg, Kept(d), ServerUp' => ServerUp
  PROVE  /\ TokenOK(d) => TokenOK(d)'
         /\ ContextOK(d) => ContextOK(d)'
         /\ ReceiveOK(d) => ReceiveOK(d)'
         /\ EndOK(d) => EndOK(d)'
         /\ Spoils(d)' = Spoils(d)
         /\ FilesKept(d) /\ DataOK(d) => DataOK(d)'
<1> USE DEF Kept, Same
<1>0. arg[d].name \in Names /\ None \notin Names
  BY FileTransferAssumption DEF TypeOK
<1>1. TokenOK(d) => TokenOK(d)'
  BY DEF TokenOK
<1>2. ContextOK(d) => ContextOK(d)'
  BY DEF ContextOK
<1>3. ReceiveOK(d) => ReceiveOK(d)'
  BY DEF ReceiveOK, Holds
<1>4. EndOK(d) => EndOK(d)'
  BY DEF EndOK, Holds, Unresolved, Flushed
<1>5. Spoils(d)' = Spoils(d)
  BY DEF Spoils
<1>6. ASSUME DataOK(d), FilesKept(d) PROVE DataOK(d)'
  <2>1. \A k : Upto(d, k) => Upto(d, k)'
    BY <1>0, <1>6 DEF Upto, FilesKept
  <2>2. /\ Naming(d) => Naming(d)'
        /\ AtEnd(d) => AtEnd(d)'
        /\ Brought(d) => Brought(d)'
        /\ \A h : Carries(d, h) => Carries(d, h)'
        /\ \A m : Says(d, m) => Says(d, m)'
    BY <2>1 DEF Naming, AtEnd, Brought, Carries, Says
  <2>3. /\ Holds(scq[d], "data")' = Holds(scq[d], "data")
        /\ Holds(scq[d], "eof")' = Holds(scq[d], "eof")
        /\ Holds(ccq[d], "recv")' = Holds(ccq[d], "recv")
    BY DEF Holds
  <2>4. /\ sent'[d] <= arg'[d].size
        /\ fname'[d] # None => fname'[d] = arg'[d].name /\ owner'[arg'[d].name] = d
        /\ writes'[d] # << >> => Carries(d, Head(writes[d]))'
        /\ placed'[d] /\ Head(writes'[d]) <= arg'[d].size =>
             buffer'[d] = <<d, Head(writes'[d])>>
    BY <1>6, <1>0, <2>2 DEF DataOK, FilesKept
  <2>5. sctx'[d] = "live" /\ fname'[d] # None => fd'[d] \in Fds /\ fds'[fd'[d]] = fname'[d]
    BY <1>6, <1>0 DEF DataOK, FilesKept
  <2>6. /\ Holds(scq[d], "data")' \/ ServerHandles(d, "data")' => Brought(d)'
        /\ Holds(scq[d], "eof")' \/ ServerHandles(d, "eof")' => AtEnd(d)'
        /\ spc' = "reply" /\ swc' = d => Upto(d, sent[d])'
        /\ sends'[d] > 0 => Says(d, smsg[d])'
        /\ Holds(ccq[d], "recv")' \/ cpc'[d] = "handle" => Says(d, cmsg[d])'
    BY <1>6, <2>1, <2>2, <2>3 DEF DataOK
  <2>7. /\ cmsg'[d] = "DONE" => fname'[d] # None
        /\ cm'[d] \in Early => fname'[d] = None /\ sent'[d] = 0
    BY <1>6 DEF DataOK
  <2> QED BY <2>4, <2>5, <2>6, <2>7 DEF DataOK
<1> QED BY <1>1, <1>2, <1>3, <1>4, <1>5, <1>6

(* A broken promise stays broken, so what was promised after a step was    *)
(* promised before it.                                                     *)
LEMMA StaysSpoiled ==
  ASSUME TypeOK, NEW c \in Clients, Elsewhere(c), Spoils(c) => Spoils(c)'
  PROVE  (Spoiled => Spoiled') /\ (Sound' => Sound)
<1>1. \A d \in Clients : Spoils(d) => Spoils(d)'
  BY KeptOK DEF Elsewhere
<1> QED BY <1>1 DEF Elsewhere, Sound, Spoiled

(* So a step of c has to keep the part of c and the files, and whoever     *)
(* dies of it must have crashed.                                           *)
Own(c) ==
  /\ TokenOK(c)' /\ ContextOK(c)' /\ ReceiveOK(c)' /\ HandOK' /\ FilesOK'
  /\ ServerUp' => EndOK(c)'
  /\ Sound' => DataOK(c)' /\ \A d \in Clients \ {c} : FilesKept(d)
  /\ cst[c] = "crashed" => cst'[c] = "crashed"
  /\ spc' = "died" => spc = "died" \/ cst[c] = "crashed"

(* That is enough: the other connections keep theirs.                      *)
LEMMA Together ==
  ASSUME IInv, NEW c \in Clients, TypeOK', Elsewhere(c), Sound' => Sound, Own(c)
  PROVE  IInv'
<1>1. \A d \in Clients \ {c} :
        /\ TokenOK(d)' /\ ContextOK(d)' /\ ReceiveOK(d)'
        /\ ServerUp' => EndOK(d)'
        /\ Sound' => DataOK(d)'
  BY KeptOK DEF IInv, Elsewhere, Own
<1>2. \A d \in Clients : /\ TokenOK(d)' /\ ContextOK(d)' /\ ReceiveOK(d)'
                         /\ ServerUp' => EndOK(d)'
                         /\ Sound' => DataOK(d)'
  BY <1>1 DEF Own
<1>3. DeathOK'
  <2>1. \A d \in Clients : cst[d] = "crashed" => cst'[d] = "crashed"
    BY DEF Elsewhere, Kept, Same, Own
  <2> QED BY <2>1 DEF IInv, DeathOK, Own
<1> QED BY <1>2, <1>3 DEF Own, IInv

(* What there is to say of connection c before a step of it.               *)
Given(c) ==
  /\ cm[c] \in CmStates /\ cpc[c] \in {"none", "idle", "handle", "repost"}
  /\ sent[c] \in 0..MaxChunks /\ MaxChunks \in Nat /\ sposted[c] \in Nat
  /\ arg[c].name \in Names /\ arg[c].size \in 0..MaxChunks
  /\ TokenOK(c) /\ ContextOK(c) /\ ReceiveOK(c) /\ HandOK /\ FilesOK
  /\ ServerUp => EndOK(c)
  /\ Sound => DataOK(c)

(* The invariant gives it.                                                 *)
LEMMA GivenOK == ASSUME IInv, NEW c \in Clients PROVE TypeOK /\ Given(c)
BY FileTransferAssumption DEF IInv, TypeOK, Given

(* A step that leaves the files alone keeps what is known of them.         *)
LEMMA FilesStay ==
  ASSUME NEW c \in Clients, FilesOK, UNCHANGED fileVars
  PROVE  FilesOK' /\ \A d \in Clients \ {c} : FilesKept(d)
BY DEF FilesOK, FilesKept, fileVars

(* Queues of one entry.                                                    *)
LEMMA OneEntry ==
  \A x : /\ Head(<<x>>) = x /\ Tail(<<x>>) = << >> /\ <<x>> # << >>
         /\ Append(<< >>, x) = <<x>> /\ \A y : <<x>> = <<y>> <=> x = y
OBVIOUS

(* The same for the entries of the completion queues.                      *)
LEMMA Entries ==
  /\ <<"recv">> # << >> /\ <<"failed">> # << >>
  /\ <<"data">> # << >> /\ <<"eof">> # << >>
  /\ <<"recv">> # <<"failed">> /\ <<"data">> # <<"failed">>
  /\ <<"data">> # <<"eof">> /\ <<"eof">> # <<"failed">>
BY OneEntry

(* Such queues have the types of TypeOK.                                   *)
LEMMA EntryTypes ==
  /\ << >> \in Seq({"recv", "failed"}) /\ << >> \in Seq({"data", "eof", "failed"})
  /\ << >> \in Seq(0..MaxChunks + 1)
  /\ \A h \in 0..MaxChunks + 1 : <<h>> \in Seq(0..MaxChunks + 1)
  /\ <<"recv">> \in Seq({"recv", "failed"}) /\ <<"failed">> \in Seq({"recv", "failed"})
  /\ <<"data">> \in Seq({"data", "eof", "failed"})
  /\ <<"eof">> \in Seq({"data", "eof", "failed"})
  /\ <<"failed">> \in Seq({"data", "eof", "failed"})
OBVIOUS

(* A client starts.                                                        *)
LEMMA StartOK ==
  ASSUME IInv, NEW c \in Clients, Start(c)
  PROVE  IInv' /\ (Spoiled => Spoiled')
<1>g. TypeOK /\ Given(c)
  BY GivenOK
<1>u. /\ writes' = writes /\ placed' = placed /\ sends' = sends
      /\ cpc' = cpc /\ ccq' = ccq /\ cack' = cack /\ cposted' = cposted
      /\ cmsg' = cmsg /\ sent' = sent /\ scq' = scq /\ sack' = sack
      /\ sposted' = sposted /\ sctx' = sctx /\ buffer' = buffer
      /\ smsg' = smsg /\ fname' = fname /\ fd' = fd /\ arg' = arg
      /\ spc' = spc /\ swc' = swc /\ sop' = sop /\ fds' = fds
      /\ owner' = owner /\ data' = data
  BY DEF Start, Connection, connVars, clientVars, pollerVars, ctxVars, fileVars
<1>f. /\ cst[c] = "idle" /\ cm[c] = "none"
      /\ cst' = [cst EXCEPT ![c] = "running"]
      /\ cm' = [cm EXCEPT ![c] = "addr"]
  BY DEF Start, Connection
<1>p. /\ cst'[c] = "running" /\ cm'[c] = "addr"
  BY <1>f, <1>g DEF TypeOK
<1>t. TypeOK'
  BY <1>f, <1>u, <1>g DEF TypeOK, Given, CmStates, Messages
<1>e. Elsewhere(c)
  BY <1>f, <1>u, <1>g
       DEF TypeOK, Elsewhere, Kept, Same, InHand, ServerHandles, ServerUp
<1>1. TokenOK(c)' /\ HandOK'
  BY <1>f, <1>p, <1>u, <1>g, Entries DEF Given, TokenOK, InHand, Early, HandOK, ServerHandles
<1>2. ContextOK(c)' /\ ReceiveOK(c)'
  BY <1>f, <1>p, <1>u, <1>g, Entries
       DEF Given, TokenOK, ContextOK, ReceiveOK, InHand, Early, Holds, ServerUp
<1>s. (Spoiled => Spoiled') /\ (Sound' => Sound)
  <2>1. Spoils(c) => Spoils(c)'
    BY <1>f, <1>p, <1>u, <1>g DEF Spoils, Given, ContextOK
  <2> QED BY <2>1, <1>g, <1>e, StaysSpoiled
<1>3. Sound' => DataOK(c)'
  BY <1>s, <1>f, <1>p, <1>u, <1>g, Entries
       DEF Given, TokenOK, DataOK, Says, Carries, Brought, AtEnd,
           Naming, Upto, Holds, InHand, Early, ServerHandles, ServerUp
<1>4. ServerUp' => EndOK(c)'
  BY <1>f, <1>p, <1>u, <1>g, Entries
       DEF Given, TokenOK, ContextOK, ReceiveOK, EndOK, InHand, Early, Late,
           CmStates, Holds, Unresolved, Flushed, ServerUp
<1>5. FilesOK' /\ \A d \in Clients \ {c} : FilesKept(d)
  BY <1>u, <1>g, FilesStay DEF Given, fileVars
<1>6. /\ cst[c] = "crashed" => cst'[c] = "crashed"
      /\ spc' = "died" => spc = "died" \/ cst[c] = "crashed"
  BY <1>f, <1>p, <1>u, <1>g, Entries
       DEF Given, EndOK, Holds, ServerUp
<1> QED BY <1>g, <1>t, <1>e, <1>s, <1>1, <1>2, <1>3, <1>4, <1>5, <1>6, Together
     DEF Own

(* A crash takes what the client had of the token with it.                 *)
LEMMA ClientCrashOK ==
  ASSUME IInv, NEW c \in Clients, ClientCrash(c)
  PROVE  IInv' /\ (Spoiled => Spoiled')
<1>g. TypeOK /\ Given(c)
  BY GivenOK
<1>u. /\ cm' = cm /\ sends' = sends /\ cmsg' = cmsg /\ sent' = sent
      /\ scq' = scq /\ sack' = sack /\ sposted' = sposted /\ sctx' = sctx
      /\ buffer' = buffer /\ smsg' = smsg /\ fname' = fname /\ fd' = fd
      /\ arg' = arg /\ spc' = spc /\ swc' = swc /\ sop' = sop /\ fds' = fds
      /\ owner' = owner /\ data' = data
  BY DEF ClientCrash, Running, connVars, clientVars, pollerVars, ctxVars, fileVars
<1>f. /\ cst[c] = "running" /\ cst' = [cst EXCEPT ![c] = "crashed"]
      /\ writes' = [writes EXCEPT ![c] = << >>]
      /\ placed' = [placed EXCEPT ![c] = FALSE]
      /\ cpc' = [cpc EXCEPT ![c] = "none"]
      /\ ccq' = [ccq EXCEPT ![c] = << >>]
      /\ cack' = [cack EXCEPT ![c] = FALSE]
      /\ cposted' = [cposted EXCEPT ![c] = 0]
  BY DEF ClientCrash, Running
<1>p. /\ cst'[c] = "crashed" /\ writes'[c] = << >> /\ placed'[c] = FALSE
      /\ cpc'[c] = "none" /\ ccq'[c] = << >> /\ cposted'[c] = 0
  BY <1>f, <1>g DEF TypeOK
<1>t. TypeOK'
  <2>1. writes' \in [Clients -> Seq(0..MaxChunks + 1)]
    BY <1>f, <1>g, EntryTypes DEF TypeOK
  <2>2. ccq' \in [Clients -> Seq({"recv", "failed"})]
    BY <1>f, <1>g, EntryTypes DEF TypeOK
  <2>3. /\ placed' \in [Clients -> BOOLEAN] /\ cack' \in [Clients -> BOOLEAN]
        /\ cposted' \in [Clients -> Nat]
        /\ cpc' \in [Clients -> {"none", "idle", "handle", "repost"}]
        /\ cst' \in [Clients -> {"idle", "running", "exited", "died", "crashed",
                                 "fault"}]
    BY <1>f, <1>g DEF TypeOK
  <2> QED BY <2>1, <2>2, <2>3, <1>u, <1>g DEF TypeOK
<1>e. Elsewhere(c)
  BY <1>f, <1>u, <1>g
       DEF TypeOK, Elsewhere, Kept, Same, InHand, ServerHandles, ServerUp
<1>1. TokenOK(c)' /\ HandOK'
  BY <1>f, <1>p, <1>u, <1>g, Entries
       DEF Given, TokenOK, InHand, Early, HandOK, ServerHandles
<1>2. ContextOK(c)' /\ ReceiveOK(c)'
  BY <1>f, <1>p, <1>u, <1>g, Entries
       DEF Given, TokenOK, ContextOK, ReceiveOK, InHand, Early, Holds, ServerUp
<1>s. (Spoiled => Spoiled') /\ (Sound' => Sound)
  <2>1. Spoils(c) => Spoils(c)'
    BY <1>f, <1>p, <1>u, <1>g DEF Spoils, Given, ContextOK
  <2> QED BY <2>1, <1>g, <1>e, StaysSpoiled
<1>3. Sound' => DataOK(c)'
  BY <1>s, <1>f, <1>p, <1>u, <1>g, Entries
       DEF Given, TokenOK, DataOK, Says, Carries, Brought, AtEnd, Naming, Upto,
           Holds, InHand, Early, ServerHandles, ServerUp
<1>4. ServerUp' => EndOK(c)'
  BY <1>f, <1>p, <1>u, <1>g, Entries
       DEF Given, TokenOK, ContextOK, ReceiveOK, EndOK, InHand, Early, Late,
           CmStates, Holds, Unresolved, Flushed, ServerUp
<1>5. FilesOK' /\ \A d \in Clients \ {c} : FilesKept(d)
  BY <1>u, <1>g, FilesStay DEF Given, fileVars
<1>6. /\ cst[c] = "crashed" => cst'[c] = "crashed"
      /\ spc' = "died" => spc = "died" \/ cst[c] = "crashed"
  BY <1>f, <1>p, <1>u, <1>g, Entries DEF Given, EndOK, Holds, ServerUp
<1> QED BY <1>g, <1>t, <1>e, <1>s, <1>1, <1>2, <1>3, <1>4, <1>5, <1>6, Together
     DEF Own

(* The first receive is posted before there is a token.                    *)
LEMMA ClientOnAddrResolvedOK ==
  ASSUME IInv, NEW c \in Clients, ClientOnAddrResolved(c)
  PROVE  IInv' /\ (Spoiled => Spoiled')
<1>g. TypeOK /\ Given(c)
  BY GivenOK
<1>u. /\ writes' = writes /\ placed' = placed /\ sends' = sends
      /\ cst' = cst /\ ccq' = ccq /\ cack' = cack /\ cmsg' = cmsg
      /\ sent' = sent /\ scq' = scq /\ sack' = sack /\ sposted' = sposted
      /\ sctx' = sctx /\ buffer' = buffer /\ smsg' = smsg /\ fname' = fname
      /\ fd' = fd /\ arg' = arg /\ spc' = spc /\ swc' = swc /\ sop' = sop
      /\ fds' = fds /\ owner' = owner /\ data' = data
  BY DEF ClientOnAddrResolved, Connection, Running, connVars, clientVars,
           pollerVars, ctxVars, fileVars
<1>f. /\ cst[c] = "running" /\ cm[c] = "addr"
      /\ cm' = [cm EXCEPT ![c] = "route"]
      /\ cpc' = [cpc EXCEPT ![c] = "idle"]
      /\ cposted' = [cposted EXCEPT ![c] = 1]
  BY DEF ClientOnAddrResolved, Connection, Running
<1>p. /\ cm'[c] = "route" /\ cpc'[c] = "idle" /\ cposted'[c] = 1
  BY <1>f, <1>g DEF TypeOK
<1>t. TypeOK'
  BY <1>f, <1>u, <1>g DEF TypeOK, Given, CmStates, Messages
<1>e. Elsewhere(c)
  BY <1>f, <1>u, <1>g
       DEF TypeOK, Elsewhere, Kept, Same, InHand, ServerHandles, ServerUp
<1>1. TokenOK(c)' /\ HandOK'
  BY <1>f, <1>p, <1>u, <1>g, Entries DEF Given, TokenOK, InHand, Early, HandOK, ServerHandles
<1>2. ContextOK(c)' /\ ReceiveOK(c)'
  BY <1>f, <1>p, <1>u, <1>g, Entries
       DEF Given, TokenOK, ContextOK, ReceiveOK, InHand, Early, Holds, ServerUp
<1>s. (Spoiled => Spoiled') /\ (Sound' => Sound)
  <2>1. Spoils(c) => Spoils(c)'
    BY <1>f, <1>p, <1>u, <1>g DEF Spoils, Given, ContextOK
  <2> QED BY <2>1, <1>g, <1>e, StaysSpoiled
<1>3. Sound' => DataOK(c)'
  BY <1>s, <1>f, <1>p, <1>u, <1>g, Entries
       DEF Given, TokenOK, DataOK, Says, Carries, Brought, AtEnd,
           Naming, Upto, Holds, InHand, Early, ServerHandles, ServerUp
<1>4. ServerUp' => EndOK(c)'
  BY <1>f, <1>p, <1>u, <1>g, Entries
       DEF Given, TokenOK, ContextOK, ReceiveOK, EndOK, InHand, Early, Late,
           CmStates, Holds, Unresolved, Flushed, ServerUp
<1>5. FilesOK' /\ \A d \in Clients \ {c} : FilesKept(d)
  BY <1>u, <1>g, FilesStay DEF Given, fileVars
<1>6. /\ cst[c] = "crashed" => cst'[c] = "crashed"
      /\ spc' = "died" => spc = "died" \/ cst[c] = "crashed"
  BY <1>f, <1>p, <1>u, <1>g, Entries
       DEF Given, EndOK, Holds, ServerUp
<1> QED BY <1>g, <1>t, <1>e, <1>s, <1>1, <1>2, <1>3, <1>4, <1>5, <1>6, Together
     DEF Own

(* The client asks for the connection.                                     *)
LEMMA ClientOnRouteResolvedOK ==
  ASSUME IInv, NEW c \in Clients, ClientOnRouteResolved(c)
  PROVE  IInv' /\ (Spoiled => Spoiled')
<1>g. TypeOK /\ Given(c)
  BY GivenOK
<1>u. /\ writes' = writes /\ placed' = placed /\ sends' = sends
      /\ cst' = cst /\ cpc' = cpc /\ ccq' = ccq /\ cack' = cack
      /\ cposted' = cposted /\ cmsg' = cmsg /\ sent' = sent /\ scq' = scq
      /\ sack' = sack /\ sposted' = sposted /\ sctx' = sctx
      /\ buffer' = buffer /\ smsg' = smsg /\ fname' = fname /\ fd' = fd
      /\ arg' = arg /\ spc' = spc /\ swc' = swc /\ sop' = sop /\ fds' = fds
      /\ owner' = owner /\ data' = data
  BY DEF ClientOnRouteResolved, Connection, Running, connVars, clientVars,
           pollerVars, ctxVars, fileVars
<1>f. /\ cst[c] = "running" /\ cm[c] = "route"
      /\ cm' = [cm EXCEPT ![c] = "requested"]
  BY DEF ClientOnRouteResolved, Connection, Running
<1>p. /\ cm'[c] = "requested"
  BY <1>f, <1>g DEF TypeOK
<1>t. TypeOK'
  BY <1>f, <1>u, <1>g DEF TypeOK, Given, CmStates, Messages
<1>e. Elsewhere(c)
  BY <1>f, <1>u, <1>g
       DEF TypeOK, Elsewhere, Kept, Same, InHand, ServerHandles, ServerUp
<1>1. TokenOK(c)' /\ HandOK'
  BY <1>f, <1>p, <1>u, <1>g, Entries DEF Given, TokenOK, InHand, Early, HandOK, ServerHandles
<1>2. ContextOK(c)' /\ ReceiveOK(c)'
  BY <1>f, <1>p, <1>u, <1>g, Entries
       DEF Given, TokenOK, ContextOK, ReceiveOK, InHand, Early, Holds, ServerUp
<1>s. (Spoiled => Spoiled') /\ (Sound' => Sound)
  <2>1. Spoils(c) => Spoils(c)'
    BY <1>f, <1>p, <1>u, <1>g DEF Spoils, Given, ContextOK
  <2> QED BY <2>1, <1>g, <1>e, StaysSpoiled
<1>3. Sound' => DataOK(c)'
  BY <1>s, <1>f, <1>p, <1>u, <1>g, Entries
       DEF Given, TokenOK, DataOK, Says, Carries, Brought, AtEnd,
           Naming, Upto, Holds, InHand, Early, ServerHandles, ServerUp
<1>4. ServerUp' => EndOK(c)'
  BY <1>f, <1>p, <1>u, <1>g, Entries
       DEF Given, TokenOK, ContextOK, ReceiveOK, EndOK, InHand, Early, Late,
           CmStates, Holds, Unresolved, Flushed, ServerUp
<1>5. FilesOK' /\ \A d \in Clients \ {c} : FilesKept(d)
  BY <1>u, <1>g, FilesStay DEF Given, fileVars
<1>6. /\ cst[c] = "crashed" => cst'[c] = "crashed"
      /\ spc' = "died" => spc = "died" \/ cst[c] = "crashed"
  BY <1>f, <1>p, <1>u, <1>g, Entries
       DEF Given, EndOK, Holds, ServerUp
<1> QED BY <1>g, <1>t, <1>e, <1>s, <1>1, <1>2, <1>3, <1>4, <1>5, <1>6, Together
     DEF Own

(* A client that does not find its server has no token.                    *)
LEMMA ClientOnResolveErrorOK ==
  ASSUME IInv, NEW c \in Clients, ClientOnResolveError(c)
  PROVE  IInv' /\ (Spoiled => Spoiled')
<1>g. TypeOK /\ Given(c)
  BY GivenOK
<1>u. /\ cm' = cm /\ writes' = writes /\ placed' = placed /\ sends' = sends
      /\ cpc' = cpc /\ ccq' = ccq /\ cack' = cack /\ cposted' = cposted
      /\ cmsg' = cmsg /\ sent' = sent /\ scq' = scq /\ sack' = sack
      /\ sposted' = sposted /\ sctx' = sctx /\ buffer' = buffer
      /\ smsg' = smsg /\ fname' = fname /\ fd' = fd /\ arg' = arg
      /\ spc' = spc /\ swc' = swc /\ sop' = sop /\ fds' = fds
      /\ owner' = owner /\ data' = data
  BY DEF ClientOnResolveError, Running, connVars, clientVars, pollerVars, ctxVars, fileVars
<1>f. /\ cst[c] = "running" /\ cm[c] \in {"addr", "route"}
      /\ cst' = [cst EXCEPT ![c] = "died"]
  BY DEF ClientOnResolveError, Running
<1>p. cst'[c] = "died"
  BY <1>f, <1>g DEF TypeOK
<1>t. TypeOK'
  BY <1>f, <1>u, <1>g DEF TypeOK, Given, CmStates, Messages
<1>e. Elsewhere(c)
  BY <1>f, <1>u, <1>g
       DEF TypeOK, Elsewhere, Kept, Same, InHand, ServerHandles, ServerUp
<1>1. TokenOK(c)' /\ HandOK'
  BY <1>f, <1>p, <1>u, <1>g, Entries
       DEF Given, TokenOK, InHand, Early, HandOK, ServerHandles
<1>2. ContextOK(c)' /\ ReceiveOK(c)'
  BY <1>f, <1>p, <1>u, <1>g, Entries
       DEF Given, TokenOK, ContextOK, ReceiveOK, InHand, Early, Holds, ServerUp
<1>s. (Spoiled => Spoiled') /\ (Sound' => Sound)
  <2>1. Spoils(c) => Spoils(c)'
    BY <1>f, <1>p, <1>u, <1>g DEF Spoils, Given, ContextOK
  <2> QED BY <2>1, <1>g, <1>e, StaysSpoiled
<1>3. Sound' => DataOK(c)'
  BY <1>s, <1>f, <1>p, <1>u, <1>g, Entries
       DEF Given, TokenOK, DataOK, Says, Carries, Brought, AtEnd, Naming, Upto,
           Holds, InHand, Early, ServerHandles, ServerUp
<1>4. ServerUp' => EndOK(c)'
  BY <1>f, <1>p, <1>u, <1>g, Entries
       DEF Given, TokenOK, ContextOK, ReceiveOK, EndOK, InHand, Early, Late,
           CmStates, Holds, Unresolved, Flushed, ServerUp
<1>5. FilesOK' /\ \A d \in Clients \ {c} : FilesKept(d)
  BY <1>u, <1>g, FilesStay DEF Given, fileVars
<1>6. /\ cst[c] = "crashed" => cst'[c] = "crashed"
      /\ spc' = "died" => spc = "died" \/ cst[c] = "crashed"
  BY <1>f, <1>p, <1>u, <1>g, Entries DEF Given, EndOK, Holds, ServerUp
<1> QED BY <1>g, <1>t, <1>e, <1>s, <1>1, <1>2, <1>3, <1>4, <1>5, <1>6, Together
     DEF Own

(* A client exits after the server has freed its connection, or ended.     *)
LEMMA ClientOnDisconnectOK ==
  ASSUME IInv, NEW c \in Clients, ClientOnDisconnect(c)
  PROVE  IInv' /\ (Spoiled => Spoiled')
<1>g. TypeOK /\ Given(c)
  BY GivenOK
<1>u. /\ cm' = cm /\ writes' = writes /\ placed' = placed /\ sends' = sends
      /\ cpc' = cpc /\ ccq' = ccq /\ cack' = cack /\ cposted' = cposted
      /\ cmsg' = cmsg /\ sent' = sent /\ scq' = scq /\ sack' = sack
      /\ sposted' = sposted /\ sctx' = sctx /\ buffer' = buffer
      /\ smsg' = smsg /\ fname' = fname /\ fd' = fd /\ arg' = arg
      /\ spc' = spc /\ swc' = swc /\ sop' = sop /\ fds' = fds
      /\ owner' = owner /\ data' = data
  BY DEF ClientOnDisconnect, Running, connVars, clientVars, pollerVars,
           ctxVars, fileVars
<1>f. /\ cst[c] = "running"
      /\ \/ cst' = [cst EXCEPT ![c] = "exited"]
         \/ cst' = [cst EXCEPT ![c] = "fault"]
      /\ \/ cm[c] = "disconnected"
         \/ ~ServerUp /\ cm[c] \in {"connected", "disconnecting"}
  BY DEF ClientOnDisconnect, Running
<1>p. cst'[c] \in {"exited", "fault"}
  BY <1>f, <1>g DEF TypeOK
<1>t. TypeOK'
  BY <1>f, <1>u, <1>g DEF TypeOK, Given, CmStates, Messages
<1>e. Elsewhere(c)
  BY <1>f, <1>u, <1>g
       DEF TypeOK, Elsewhere, Kept, Same, InHand, ServerHandles, ServerUp
<1>1. TokenOK(c)' /\ HandOK'
  BY <1>f, <1>p, <1>u, <1>g, Entries DEF Given, TokenOK, InHand, Early, HandOK, ServerHandles
<1>2. ContextOK(c)' /\ ReceiveOK(c)'
  BY <1>f, <1>p, <1>u, <1>g, Entries
       DEF Given, TokenOK, ContextOK, ReceiveOK, InHand, Early, Holds, ServerUp
<1>s. (Spoiled => Spoiled') /\ (Sound' => Sound)
  <2>1. Spoils(c) => Spoils(c)'
    BY <1>f, <1>p, <1>u, <1>g DEF Spoils, Given, ContextOK
  <2> QED BY <2>1, <1>g, <1>e, StaysSpoiled
<1>3. Sound' => DataOK(c)'
  BY <1>s, <1>f, <1>p, <1>u, <1>g, Entries
       DEF Given, TokenOK, DataOK, Says, Carries, Brought, AtEnd,
           Naming, Upto, Holds, InHand, Early, ServerHandles, ServerUp
<1>4. ServerUp' => EndOK(c)'
  BY <1>f, <1>p, <1>u, <1>g, Entries
       DEF Given, TokenOK, ContextOK, ReceiveOK, EndOK, InHand, Early, Late,
           CmStates, Holds, Unresolved, Flushed, ServerUp
<1>5. FilesOK' /\ \A d \in Clients \ {c} : FilesKept(d)
  BY <1>u, <1>g, FilesStay DEF Given, fileVars
<1>6. /\ cst[c] = "crashed" => cst'[c] = "crashed"
      /\ spc' = "died" => spc = "died" \/ cst[c] = "crashed"
  BY <1>f, <1>p, <1>u, <1>g, Entries
       DEF Given, EndOK, Holds, ServerUp
<1> QED BY <1>g, <1>t, <1>e, <1>s, <1>1, <1>2, <1>3, <1>4, <1>5, <1>6, Together
     DEF Own

(* A client dies of an event only when the server has ended.               *)
LEMMA ClientOnUnknownEventOK ==
  ASSUME IInv, NEW c \in Clients, ClientOnUnknownEvent(c)
  PROVE  IInv' /\ (Spoiled => Spoiled')
<1>g. TypeOK /\ Given(c)
  BY GivenOK
<1>u. /\ cm' = cm /\ writes' = writes /\ placed' = placed /\ sends' = sends
      /\ cpc' = cpc /\ ccq' = ccq /\ cack' = cack /\ cposted' = cposted
      /\ cmsg' = cmsg /\ sent' = sent /\ scq' = scq /\ sack' = sack
      /\ sposted' = sposted /\ sctx' = sctx /\ buffer' = buffer
      /\ smsg' = smsg /\ fname' = fname /\ fd' = fd /\ arg' = arg
      /\ spc' = spc /\ swc' = swc /\ sop' = sop /\ fds' = fds
      /\ owner' = owner /\ data' = data
  BY DEF ClientOnUnknownEvent, Running, connVars, clientVars, pollerVars,
           ctxVars, fileVars
<1>f. /\ cst[c] = "running" /\ ~ServerUp
      /\ cm[c] \in {"requested", "accepted"}
      /\ cst' = [cst EXCEPT ![c] = "died"]
  BY DEF ClientOnUnknownEvent, Running
<1>p. /\ cst'[c] = "died"
  BY <1>f, <1>g DEF TypeOK
<1>t. TypeOK'
  BY <1>f, <1>u, <1>g DEF TypeOK, Given, CmStates, Messages
<1>e. Elsewhere(c)
  BY <1>f, <1>u, <1>g
       DEF TypeOK, Elsewhere, Kept, Same, InHand, ServerHandles, ServerUp
<1>1. TokenOK(c)' /\ HandOK'
  BY <1>f, <1>p, <1>u, <1>g, Entries DEF Given, TokenOK, InHand, Early, HandOK, ServerHandles
<1>2. ContextOK(c)' /\ ReceiveOK(c)'
  BY <1>f, <1>p, <1>u, <1>g, Entries
       DEF Given, TokenOK, ContextOK, ReceiveOK, InHand, Early, Holds, ServerUp
<1>s. (Spoiled => Spoiled') /\ (Sound' => Sound)
  <2>1. Spoils(c) => Spoils(c)'
    BY <1>f, <1>p, <1>u, <1>g DEF Spoils, Given, ContextOK
  <2> QED BY <2>1, <1>g, <1>e, StaysSpoiled
<1>3. Sound' => DataOK(c)'
  BY <1>s, <1>f, <1>p, <1>u, <1>g, Entries
       DEF Given, TokenOK, DataOK, Says, Carries, Brought, AtEnd,
           Naming, Upto, Holds, InHand, Early, ServerHandles, ServerUp
<1>4. ServerUp' => EndOK(c)'
  BY <1>f, <1>p, <1>u, <1>g, Entries
       DEF Given, TokenOK, ContextOK, ReceiveOK, EndOK, InHand, Early, Late,
           CmStates, Holds, Unresolved, Flushed, ServerUp
<1>5. FilesOK' /\ \A d \in Clients \ {c} : FilesKept(d)
  BY <1>u, <1>g, FilesStay DEF Given, fileVars
<1>6. /\ cst[c] = "crashed" => cst'[c] = "crashed"
      /\ spc' = "died" => spc = "died" \/ cst[c] = "crashed"
  BY <1>f, <1>p, <1>u, <1>g, Entries
       DEF Given, EndOK, Holds, ServerUp
<1> QED BY <1>g, <1>t, <1>e, <1>s, <1>1, <1>2, <1>3, <1>4, <1>5, <1>6, Together
     DEF Own

(* The token goes from the queue of the client into its hand.              *)
LEMMA ClientPollOK ==
  ASSUME IInv, NEW c \in Clients, ClientPoll(c)
  PROVE  IInv' /\ (Spoiled => Spoiled')
<1>g. TypeOK /\ Given(c)
  BY GivenOK
<1>h. ccq[c] = <<"recv">> \/ ccq[c] = <<"failed">>
  BY <1>g DEF Given, TokenOK, ClientPoll
<1>u. /\ cm' = cm /\ writes' = writes /\ placed' = placed /\ sends' = sends
      /\ cack' = cack /\ cposted' = cposted /\ cmsg' = cmsg /\ sent' = sent
      /\ scq' = scq /\ sack' = sack /\ sposted' = sposted /\ sctx' = sctx
      /\ buffer' = buffer /\ smsg' = smsg /\ fname' = fname /\ fd' = fd
      /\ arg' = arg /\ spc' = spc /\ swc' = swc /\ sop' = sop /\ fds' = fds
      /\ owner' = owner /\ data' = data
  BY <1>h DEF ClientPoll, Running, connVars, clientVars, pollerVars, ctxVars,
           fileVars
<1>f. /\ cst[c] = "running" /\ cpc[c] = "idle" /\ ccq[c] # << >>
      /\ ccq' = [ccq EXCEPT ![c] = << >>]
      /\ \/ ccq[c] = <<"recv">> /\ cpc' = [cpc EXCEPT ![c] = "handle"] /\ cst' = cst
         \/ ccq[c] = <<"failed">> /\ cst' = [cst EXCEPT ![c] = "died"] /\ cpc' = cpc
  BY <1>h, OneEntry DEF ClientPoll, Running
<1>p. /\ ccq'[c] = << >>
      /\ (\/ ccq[c] = <<"recv">> /\ cpc'[c] = "handle" /\ cst'[c] = cst[c]
          \/ ccq[c] = <<"failed">> /\ cst'[c] = "died" /\ cpc'[c] = cpc[c])
  BY <1>f, <1>g DEF TypeOK
<1>t. TypeOK'
  <2>1. ccq' \in [Clients -> Seq({"recv", "failed"})]
    BY <1>f, <1>g, EntryTypes DEF TypeOK
  <2>2. /\ cpc \in [Clients -> {"none", "idle", "handle", "repost"}]
        /\ cst \in [Clients -> {"idle", "running", "exited", "died", "crashed",
                                "fault"}]
    BY <1>g DEF TypeOK
  <2>3. cpc' \in [Clients -> {"none", "idle", "handle", "repost"}]
    <3>1. CASE cpc' = cpc
      BY <2>2, <3>1
    <3>2. CASE cpc' = [cpc EXCEPT ![c] = "handle"]
      BY <2>2, <3>2
    <3> QED BY <1>f, <3>1, <3>2
  <2>4. cst' \in [Clients -> {"idle", "running", "exited", "died", "crashed",
                              "fault"}]
    <3>1. CASE cst' = cst
      BY <2>2, <3>1
    <3>2. CASE cst' = [cst EXCEPT ![c] = "died"]
      BY <2>2, <3>2
    <3> QED BY <1>f, <3>1, <3>2
  <2> QED BY <2>1, <2>3, <2>4, <1>u, <1>g DEF TypeOK
<1>e. Elsewhere(c)
  BY <1>f, <1>u, <1>g
       DEF TypeOK, Elsewhere, Kept, Same, InHand, ServerHandles, ServerUp
<1>1. TokenOK(c)' /\ HandOK'
  BY <1>f, <1>h, <1>p, <1>u, <1>g, Entries
       DEF Given, TokenOK, InHand, Early, HandOK, ServerHandles
<1>2. ContextOK(c)' /\ ReceiveOK(c)'
  BY <1>f, <1>h, <1>p, <1>u, <1>g, Entries
       DEF Given, TokenOK, ContextOK, ReceiveOK, InHand, Early, Holds, ServerUp
<1>s. (Spoiled => Spoiled') /\ (Sound' => Sound)
  <2>1. Spoils(c) => Spoils(c)'
    BY <1>f, <1>h, <1>p, <1>u, <1>g DEF Spoils, Given, ContextOK
  <2> QED BY <2>1, <1>g, <1>e, StaysSpoiled
<1>3. Sound' => DataOK(c)'
  <2> SUFFICES ASSUME Sound' PROVE DataOK(c)'
      OBVIOUS
  <2>1. DataOK(c)
    BY <1>s, <1>g DEF Given
  <2>2. /\ sends'[c] = 0 /\ ccq'[c] = << >> /\ writes'[c] = << >>
        /\ scq'[c] = << >> /\ ~InHand(c)'
      BY <1>f, <1>p, <1>u, <1>g, Entries DEF Given, TokenOK, InHand
  <2>3. \A k : Upto(c, k)' <=> Upto(c, k)
      BY <2>1, <1>f, <1>u DEF Upto
  <2>4. Holds(ccq[c], "recv") => Says(c, cmsg[c])
      BY <2>1 DEF DataOK
  <2> QED BY <1>p, <1>u, <2>1, <2>2, <2>3, <2>4, Entries
           DEF DataOK, Holds, Early, InHand, ServerHandles, Says, Naming
<1>4. ServerUp' => EndOK(c)'
  BY <1>f, <1>h, <1>p, <1>u, <1>g, Entries
       DEF Given, TokenOK, ContextOK, ReceiveOK, EndOK, InHand, Early, Late,
           CmStates, Holds, Unresolved, Flushed, ServerUp
<1>5. FilesOK' /\ \A d \in Clients \ {c} : FilesKept(d)
  BY <1>u, <1>g, FilesStay DEF Given, fileVars
<1>6. /\ cst[c] = "crashed" => cst'[c] = "crashed"
      /\ spc' = "died" => spc = "died" \/ cst[c] = "crashed"
  BY <1>f, <1>h, <1>p, <1>u, <1>g, Entries
       DEF Given, EndOK, Holds, ServerUp
<1> QED BY <1>g, <1>t, <1>e, <1>s, <1>1, <1>2, <1>3, <1>4, <1>5, <1>6, Together
     DEF Own

(* The completion of a write is no part of the token.                      *)
LEMMA ClientPollWriteOK ==
  ASSUME IInv, NEW c \in Clients, ClientPollWrite(c)
  PROVE  IInv' /\ (Spoiled => Spoiled')
<1>g. TypeOK /\ Given(c)
  BY GivenOK
<1>u. /\ cm' = cm /\ writes' = writes /\ placed' = placed /\ sends' = sends
      /\ cst' = cst /\ cpc' = cpc /\ ccq' = ccq /\ cposted' = cposted
      /\ cmsg' = cmsg /\ sent' = sent /\ scq' = scq /\ sack' = sack
      /\ sposted' = sposted /\ sctx' = sctx /\ buffer' = buffer
      /\ smsg' = smsg /\ fname' = fname /\ fd' = fd /\ arg' = arg
      /\ spc' = spc /\ swc' = swc /\ sop' = sop /\ fds' = fds
      /\ owner' = owner /\ data' = data
  BY DEF ClientPollWrite, Running, connVars, clientVars, pollerVars, ctxVars, fileVars
<1>f. /\ cst[c] = "running" /\ cm[c] = "connected"
      /\ cack' = [cack EXCEPT ![c] = FALSE]
  BY DEF ClientPollWrite, Running
<1>t. TypeOK'
  BY <1>f, <1>u, <1>g DEF TypeOK
<1>e. Elsewhere(c)
  BY <1>f, <1>u, <1>g
       DEF TypeOK, Elsewhere, Kept, Same, InHand, ServerHandles, ServerUp
<1>1. TokenOK(c)' /\ HandOK'
  BY <1>f, <1>u, <1>g, Entries
       DEF Given, TokenOK, InHand, Early, HandOK, ServerHandles
<1>2. ContextOK(c)' /\ ReceiveOK(c)'
  BY <1>f, <1>u, <1>g, Entries
       DEF Given, TokenOK, ContextOK, ReceiveOK, InHand, Early, Holds, ServerUp
<1>s. (Spoiled => Spoiled') /\ (Sound' => Sound)
  <2>1. Spoils(c) => Spoils(c)'
    BY <1>f, <1>u, <1>g DEF Spoils, Given, ContextOK
  <2> QED BY <2>1, <1>g, <1>e, StaysSpoiled
<1>3. Sound' => DataOK(c)'
  BY <1>s, <1>f, <1>u, <1>g, Entries
       DEF Given, TokenOK, DataOK, Says, Carries, Brought, AtEnd, Naming, Upto,
           Holds, InHand, Early, ServerHandles, ServerUp
<1>4. ServerUp' => EndOK(c)'
  BY <1>f, <1>u, <1>g, Entries
       DEF Given, TokenOK, ContextOK, ReceiveOK, EndOK, InHand, Early, Late,
           CmStates, Holds, Unresolved, Flushed, ServerUp
<1>5. FilesOK' /\ \A d \in Clients \ {c} : FilesKept(d)
  BY <1>u, <1>g, FilesStay DEF Given, fileVars
<1>6. /\ cst[c] = "crashed" => cst'[c] = "crashed"
      /\ spc' = "died" => spc = "died" \/ cst[c] = "crashed"
  BY <1>f, <1>u, <1>g, Entries DEF Given, EndOK, Holds, ServerUp
<1> QED BY <1>g, <1>t, <1>e, <1>s, <1>1, <1>2, <1>3, <1>4, <1>5, <1>6, Together
     DEF Own

(* The token becomes a write: of the name after MR, of what comes next     *)
(* after READY.                                                            *)
LEMMA ClientOnMessageOK ==
  ASSUME IInv, NEW c \in Clients, ClientOnMessage(c)
  PROVE  IInv' /\ (Spoiled => Spoiled')
<1>g. TypeOK /\ Given(c)
  BY GivenOK
<1>h. writes[c] = << >> /\ cposted[c] = 0 /\ sent[c] \in Nat
  BY <1>g DEF Given, TokenOK, ReceiveOK, ClientOnMessage
<1>i. /\ 0 \in 0..MaxChunks + 1 /\ sent[c] + 1 \in 0..MaxChunks + 1
      /\ sent[c] < arg[c].size => sent[c] + 1 \in 0..MaxChunks
  BY <1>g DEF Given
<1>u. /\ cm' = cm /\ placed' = placed /\ sends' = sends /\ cst' = cst
      /\ ccq' = ccq /\ cack' = cack /\ cposted' = cposted /\ cmsg' = cmsg
      /\ scq' = scq /\ sack' = sack /\ sposted' = sposted /\ sctx' = sctx
      /\ buffer' = buffer /\ smsg' = smsg /\ fname' = fname /\ fd' = fd
      /\ arg' = arg /\ spc' = spc /\ swc' = swc /\ sop' = sop /\ fds' = fds
      /\ owner' = owner /\ data' = data
  BY <1>h DEF ClientOnMessage, Running, SendFileName, SendNextChunk, Writes,
           connVars, clientVars, pollerVars, ctxVars, fileVars
<1>f. /\ cst[c] = "running" /\ cpc[c] = "handle"
      /\ cpc' = [cpc EXCEPT ![c] = "repost"]
      /\ \/ /\ cmsg[c] = "MR" /\ sent' = sent
            /\ writes' = [writes EXCEPT ![c] = <<0>>]
         \/ /\ cmsg[c] = "READY"
            /\ writes' = [writes EXCEPT ![c] = <<sent[c] + 1>>]
            /\ sent' = IF sent[c] < arg[c].size THEN [sent EXCEPT ![c] = sent[c] + 1] ELSE sent
  BY <1>h, OneEntry
       DEF ClientOnMessage, Running, SendFileName, SendNextChunk, Writes
<1>p. /\ cpc'[c] = "repost"
      /\ (\/ cmsg[c] = "MR" /\ writes'[c] = <<0>> /\ sent'[c] = sent[c]
          \/ /\ cmsg[c] = "READY" /\ writes'[c] = <<sent[c] + 1>>
             /\ sent'[c] = IF sent[c] < arg[c].size THEN sent[c] + 1 ELSE sent[c])
  BY <1>f, <1>g DEF TypeOK
<1>t. TypeOK'
  <2>1. writes' \in [Clients -> Seq(0..MaxChunks + 1)]
    <3>1. \E h \in 0..MaxChunks + 1 : writes' = [writes EXCEPT ![c] = <<h>>]
      BY <1>i, <1>f
    <3>2. writes \in [Clients -> Seq(0..MaxChunks + 1)]
      BY <1>g DEF TypeOK
    <3> QED BY <3>1, <3>2, EntryTypes
  <2>2. cpc' \in [Clients -> {"none", "idle", "handle", "repost"}]
    BY <1>f, <1>g DEF TypeOK
  <2>3. sent' \in [Clients -> 0..MaxChunks]
    BY <1>i, <1>f, <1>g DEF TypeOK
  <2> QED BY <2>1, <2>2, <2>3, <1>u, <1>g DEF TypeOK
<1>e. Elsewhere(c)
  BY <1>f, <1>u, <1>g
       DEF TypeOK, Elsewhere, Kept, Same, InHand, ServerHandles, ServerUp
<1>1. TokenOK(c)' /\ HandOK'
  <2>1. /\ writes[c] = << >> /\ sends[c] = 0 /\ ccq[c] = << >> /\ scq[c] = << >> /\ ~InHand(c)
        /\ cm[c] \notin Early
    <3>1. TokenOK(c) /\ cpc[c] = "handle"
      BY <1>f, <1>g DEF Given
    <3>2. sends[c] = 0 /\ ccq[c] = << >> /\ cm[c] \notin Early
      BY <3>1 DEF TokenOK
    <3>3. writes[c] = << >> /\ scq[c] = << >> /\ ~InHand(c)
      BY <3>1 DEF TokenOK
    <3> QED BY <3>2, <3>3
  <2>2. PICK i \in 0..MaxChunks + 1 : writes'[c] = <<i>>
    BY <1>p, <1>g DEF Given
  <2>3. writes'[c] # << >> /\ ~InHand(c)' /\ cm'[c] \notin Early /\ cmsg'[c] # "DONE"
    BY <2>1, <2>2, <1>p, <1>u, OneEntry DEF InHand, Early
  <2>4. /\ sends'[c] = 0 /\ ccq'[c] = << >> /\ scq'[c] = << >> /\ cpc'[c] # "handle"
    BY <2>1, <1>p, <1>u
  <2>5. TokenOK(c)'
    BY <2>2, <2>3, <2>4 DEF TokenOK, InHand, ServerHandles
  <2> QED BY <2>5, <1>u, <1>g DEF HandOK, Given
<1>2. ContextOK(c)' /\ ReceiveOK(c)'
  <2>1. ContextOK(c) /\ ReceiveOK(c) /\ TokenOK(c)
    BY <1>g DEF Given
  <2>2. ContextOK(c)'
    BY <2>1, <1>u DEF ContextOK, ServerUp
  <2>3. cposted[c] = 0 /\ ccq[c] = << >>
    BY <2>1, <1>f DEF ReceiveOK, TokenOK
  <2>4. ReceiveOK(c)'
    BY <2>3, <1>u, Entries DEF ReceiveOK, Holds
  <2> QED BY <2>2, <2>4
<1>s. (Spoiled => Spoiled') /\ (Sound' => Sound)
  <2>1. Spoils(c) => Spoils(c)'
    BY <1>f, <1>h, <1>p, <1>u, <1>g DEF Spoils, Given, ContextOK
  <2> QED BY <2>1, <1>g, <1>e, StaysSpoiled
<1>3. Sound' => DataOK(c)'
  <2> SUFFICES ASSUME Sound' PROVE DataOK(c)'
    OBVIOUS
  <2>1. DataOK(c)
    BY <1>s, <1>g DEF Given
  <2>2. /\ sends'[c] = 0 /\ ccq'[c] = << >> /\ cpc'[c] # "handle" /\ scq'[c] = << >>
        /\ ~InHand(c)' /\ cm'[c] \notin Early /\ ~placed'[c]
    BY <2>1, <1>f, <1>h, <1>p, <1>u, <1>g DEF Given, TokenOK, InHand, DataOK
  <2>3. \A k : Upto(c, k)' <=> Upto(c, k)
    BY <2>1, <1>u DEF Upto
  <2>4. Says(c, cmsg[c]) /\ cmsg[c] # "DONE"
    BY <2>1, <1>f DEF DataOK
  <2>5. sent'[c] <= arg'[c].size /\ \E h : writes'[c] = <<h>> /\ Carries(c, h)'
    <3>1. CASE cmsg[c] = "MR"
      BY <3>1, <2>1, <2>4, <1>p, <1>u DEF Says, Naming, Carries, DataOK
    <3>2. CASE cmsg[c] = "READY" /\ sent[c] < arg[c].size
      <4>1. PICK h \in Nat : h = sent[c] + 1 /\ h - 1 = sent[c]
        BY <1>h
      <4>2. Upto(c, h - 1)'
        BY <3>2, <2>3, <2>4, <4>1 DEF Says
      <4>3. sent'[c] = h /\ writes'[c] = <<h>> /\ h \in 1..arg'[c].size
        BY <3>2, <4>1, <1>p, <1>h, <1>u, <1>g DEF Given
      <4> QED BY <4>2, <4>3 DEF Carries
    <3>3. CASE cmsg[c] = "READY" /\ ~(sent[c] < arg[c].size)
      <4>1. PICK h \in Nat : h = sent[c] + 1 /\ h - 1 = sent[c]
        BY <1>h
      <4>2. Upto(c, h - 1)'
        BY <3>3, <2>3, <2>4, <4>1 DEF Says
      <4>3. h - 1 = arg'[c].size /\ sent'[c] = h - 1 /\ writes'[c] = <<h>>
        BY <3>3, <4>1, <2>1, <1>p, <1>h, <1>u, <1>g DEF Given, DataOK
      <4>4. h = arg'[c].size + 1 /\ arg'[c].size <= arg'[c].size
        BY <4>1, <4>3, <1>u, <1>g DEF Given
      <4> QED BY <4>2, <4>3, <4>4 DEF Carries, AtEnd
    <3> QED BY <3>1, <3>2, <3>3, <1>p
  <2> QED BY <2>1, <2>2, <2>3, <2>4, <2>5, <1>u, OneEntry, Entries
         DEF DataOK, Holds, InHand, ServerHandles
<1>4. ServerUp' => EndOK(c)'
  BY <1>f, <1>h, <1>p, <1>u, <1>g, Entries
       DEF Given, TokenOK, ContextOK, ReceiveOK, EndOK, InHand, Early, Late,
           CmStates, Holds, Unresolved, Flushed, ServerUp
<1>5. FilesOK' /\ \A d \in Clients \ {c} : FilesKept(d)
  BY <1>u, <1>g, FilesStay DEF Given, fileVars
<1>6. /\ cst[c] = "crashed" => cst'[c] = "crashed"
      /\ spc' = "died" => spc = "died" \/ cst[c] = "crashed"
  BY <1>f, <1>h, <1>p, <1>u, <1>g, Entries
       DEF Given, EndOK, Holds, ServerUp
<1> QED BY <1>g, <1>t, <1>e, <1>s, <1>1, <1>2, <1>3, <1>4, <1>5, <1>6, Together
     DEF Own

(* DONE ends the token, and no receive is posted that could be flushed: a  *)
(* write that is not acknowledged may be.                                  *)
LEMMA ClientOnDoneOK ==
  ASSUME IInv, NEW c \in Clients, ClientOnDone(c)
  PROVE  IInv' /\ (Spoiled => Spoiled')
<1>g. TypeOK /\ Given(c)
  BY GivenOK
<1>h. /\ ccq[c] = << >> /\ cposted[c] = 0 /\ ~(cposted[c] > 0)
      /\ cm[c] \notin Early
  BY <1>g DEF Given, TokenOK, ReceiveOK, ClientOnDone
<1>u. /\ writes' = writes /\ placed' = placed /\ sends' = sends
      /\ cst' = cst /\ cack' = cack /\ cposted' = cposted /\ cmsg' = cmsg
      /\ sent' = sent /\ scq' = scq /\ sack' = sack /\ sposted' = sposted
      /\ sctx' = sctx /\ buffer' = buffer /\ smsg' = smsg /\ fname' = fname
      /\ fd' = fd /\ arg' = arg /\ spc' = spc /\ swc' = swc /\ sop' = sop
      /\ fds' = fds /\ owner' = owner /\ data' = data
  BY DEF ClientOnDone, Running, connVars, clientVars, pollerVars, ctxVars, fileVars
<1>f. /\ cst[c] = "running" /\ cpc[c] = "handle" /\ cmsg[c] = "DONE"
      /\ cpc' = [cpc EXCEPT ![c] = "idle"]
      /\ cm' = IF cm[c] = "connected"
                THEN [cm EXCEPT ![c] = "disconnecting"] ELSE cm
      /\ ccq' = ccq \/ (cack[c] /\ ccq' = [ccq EXCEPT ![c] = <<"failed">>])
  BY <1>h, OneEntry DEF ClientOnDone, Running
<1>p. /\ cpc'[c] = "idle"
      /\ cm'[c] = (IF cm[c] = "connected" THEN "disconnecting" ELSE cm[c])
      /\ ccq'[c] = << >> \/ (cack[c] /\ ccq'[c] = <<"failed">>)
  <2>1. /\ cpc \in [Clients -> {"none", "idle", "handle", "repost"}]
        /\ ccq \in [Clients -> Seq({"recv", "failed"})]
        /\ cm \in [Clients -> CmStates]
    BY <1>g DEF TypeOK
  <2>2. cpc'[c] = "idle"
    BY <2>1, <1>f
  <2>3. cm'[c] = (IF cm[c] = "connected" THEN "disconnecting" ELSE cm[c])
    BY <2>1, <1>f
  <2>4. ccq'[c] = << >> \/ (cack[c] /\ ccq'[c] = <<"failed">>)
    BY <2>1, <1>f, <1>h
  <2> QED BY <2>2, <2>3, <2>4
<1>t. TypeOK'
  <2>1. /\ cpc \in [Clients -> {"none", "idle", "handle", "repost"}]
        /\ ccq \in [Clients -> Seq({"recv", "failed"})]
        /\ cm \in [Clients -> CmStates]
    BY <1>g DEF TypeOK
  <2>2. cpc' \in [Clients -> {"none", "idle", "handle", "repost"}]
    BY <1>f, <2>1
  <2>3. cm' \in [Clients -> CmStates]
    BY <1>f, <2>1 DEF CmStates
  <2>4. ccq' \in [Clients -> Seq({"recv", "failed"})]
    BY <1>f, <2>1, EntryTypes
  <2> QED BY <2>2, <2>3, <2>4, <1>u, <1>g DEF TypeOK
<1>e. Elsewhere(c)
  <2>1. /\ cpc \in [Clients -> {"none", "idle", "handle", "repost"}]
        /\ ccq \in [Clients -> Seq({"recv", "failed"})]
        /\ cm \in [Clients -> CmStates]
    BY <1>g DEF TypeOK
  <2>2. \A d \in Clients \ {c} : cpc'[d] = cpc[d]
    BY <2>1, <1>f
  <2>3. \A d \in Clients \ {c} : cm'[d] = cm[d]
    BY <2>1, <1>f
  <2>4. \A d \in Clients \ {c} : ccq'[d] = ccq[d]
    BY <2>1, <1>f
  <2> QED BY <2>2, <2>3, <2>4, <1>u
       DEF Elsewhere, Kept, Same, InHand, ServerHandles, ServerUp
<1>1. TokenOK(c)' /\ HandOK'
  <2>0. TokenOK(c) /\ cpc[c] = "handle" /\ cmsg[c] = "DONE"
    BY <1>f, <1>g DEF Given
  <2>1. sends[c] = 0 /\ writes[c] = << >> /\ scq[c] = << >> /\ ~InHand(c)
        /\ ~placed[c]
    BY <2>0 DEF TokenOK
  <2>3. cm'[c] \notin Early
    BY <1>h, <1>p DEF Early
  <2>4. /\ sends'[c] = 0 /\ writes'[c] = << >> /\ scq'[c] = << >>
        /\ ~InHand(c)' /\ ~placed'[c] /\ cpc'[c] # "handle"
    BY <2>1, <1>p, <1>u DEF InHand
  <2>5. ccq'[c] = << >> \/ ccq'[c] = <<"failed">>
    BY <1>p
  <2>6. TokenOK(c)'
    <3>1. ccq'[c] \in {<< >>, <<"recv">>, <<"failed">>}
      BY <2>5
    <3> QED BY <3>1, <2>3, <2>4 DEF TokenOK
  <2> QED BY <2>6, <1>u, <1>g DEF Given, HandOK
<1>2. ContextOK(c)' /\ ReceiveOK(c)'
  BY <1>f, <1>h, <1>p, <1>u, <1>g, Entries
       DEF Given, TokenOK, ContextOK, ReceiveOK, InHand, Early, Holds, ServerUp
<1>s. (Spoiled => Spoiled') /\ (Sound' => Sound)
  <2>1. Spoils(c) => Spoils(c)'
    BY <1>f, <1>h, <1>p, <1>u, <1>g DEF Spoils, Given, ContextOK
  <2> QED BY <2>1, <1>g, <1>e, StaysSpoiled
<1>3. Sound' => DataOK(c)'
  <2> SUFFICES ASSUME Sound' PROVE DataOK(c)'
    OBVIOUS
  <2>1. DataOK(c)
    BY <1>s, <1>g DEF Given
  <2>2. /\ sends[c] = 0 /\ writes[c] = << >> /\ scq[c] = << >> /\ ~InHand(c)
        /\ cm'[c] \notin Early /\ ~placed[c]
    BY <1>f, <1>h, <1>p, <1>g DEF Given, TokenOK, Early
  <2> QED BY <2>1, <2>2, <1>p, <1>u, Entries
       DEF DataOK, Holds, InHand, ServerHandles
<1>4. ServerUp' => EndOK(c)'
  <2> SUFFICES ASSUME ServerUp' PROVE EndOK(c)'
    OBVIOUS
  <2>1. EndOK(c)
    BY <1>u, <1>g DEF Given, ServerUp
  <2>2. scq'[c] = << >> /\ cpc'[c] # "handle" /\ cst'[c] = "running" /\ cmsg'[c] = "DONE"
    <3>1. TokenOK(c)
      BY <1>g DEF Given
    <3> QED BY <3>1, <1>f, <1>p, <1>u DEF TokenOK
  <2>3. cm'[c] \in Late
    BY <1>h, <1>p, <1>g DEF Given, Early, Late, CmStates
  <2>4. Holds(ccq[c], "failed")' => cack'[c]
    BY <1>p, <1>u, Entries DEF Holds
  <2>5. ~Holds(ccq[c], "recv")' /\ ~Holds(scq[c], "failed")'
    BY <2>2, <1>p, Entries DEF Holds
  <2> QED BY <2>2, <2>3, <2>4, <2>5 DEF EndOK, Late
<1>5. FilesOK' /\ \A d \in Clients \ {c} : FilesKept(d)
  BY <1>u, <1>g, FilesStay DEF Given, fileVars
<1>6. /\ cst[c] = "crashed" => cst'[c] = "crashed"
      /\ spc' = "died" => spc = "died" \/ cst[c] = "crashed"
  BY <1>f, <1>h, <1>p, <1>u, <1>g, Entries DEF Given, EndOK, ServerUp
<1> QED BY <1>g, <1>t, <1>e, <1>s, <1>1, <1>2, <1>3, <1>4, <1>5, <1>6, Together
     DEF Own

(* The receive is posted again before its message is there.                *)
LEMMA ClientPostReceiveOK ==
  ASSUME IInv, NEW c \in Clients, ClientPostReceive(c)
  PROVE  IInv' /\ (Spoiled => Spoiled')
<1>g. TypeOK /\ Given(c)
  BY GivenOK
<1>h. cposted[c] = 0
  BY <1>g DEF Given, TokenOK, ReceiveOK, Holds, InHand, Early,
           ClientPostReceive, Running
<1>u. /\ cm' = cm /\ writes' = writes /\ placed' = placed /\ sends' = sends
      /\ cst' = cst /\ ccq' = ccq /\ cack' = cack /\ cmsg' = cmsg
      /\ sent' = sent /\ scq' = scq /\ sack' = sack /\ sposted' = sposted
      /\ sctx' = sctx /\ buffer' = buffer /\ smsg' = smsg /\ fname' = fname
      /\ fd' = fd /\ arg' = arg /\ spc' = spc /\ swc' = swc /\ sop' = sop
      /\ fds' = fds /\ owner' = owner /\ data' = data
  BY <1>h DEF ClientPostReceive, Running, connVars, clientVars, pollerVars,
           ctxVars, fileVars
<1>f. /\ cst[c] = "running" /\ cpc[c] = "repost" /\ cposted[c] = 0
      /\ cpc' = [cpc EXCEPT ![c] = "idle"]
      /\ cposted' = [cposted EXCEPT ![c] = 1]
  BY <1>h, OneEntry DEF ClientPostReceive, Running
<1>p. /\ cpc'[c] = "idle" /\ cposted'[c] = 1
  BY <1>f, <1>g DEF TypeOK
<1>t. TypeOK'
  BY <1>f, <1>u, <1>g DEF TypeOK, Given, CmStates, Messages
<1>e. Elsewhere(c)
  BY <1>f, <1>u, <1>g
       DEF TypeOK, Elsewhere, Kept, Same, InHand, ServerHandles, ServerUp
<1>1. TokenOK(c)' /\ HandOK'
  BY <1>f, <1>h, <1>p, <1>u, <1>g, Entries
       DEF Given, TokenOK, InHand, Early, HandOK, ServerHandles
<1>2. ContextOK(c)' /\ ReceiveOK(c)'
  BY <1>f, <1>h, <1>p, <1>u, <1>g, Entries
       DEF Given, TokenOK, ContextOK, ReceiveOK, InHand, Early, Holds, ServerUp
<1>s. (Spoiled => Spoiled') /\ (Sound' => Sound)
  <2>1. Spoils(c) => Spoils(c)'
    BY <1>f, <1>h, <1>p, <1>u, <1>g DEF Spoils, Given, ContextOK
  <2> QED BY <2>1, <1>g, <1>e, StaysSpoiled
<1>3. Sound' => DataOK(c)'
  BY <1>s, <1>f, <1>h, <1>p, <1>u, <1>g, Entries
       DEF Given, TokenOK, DataOK, Says, Carries, Brought, AtEnd,
           Naming, Upto, Holds, InHand, Early, ServerHandles, ServerUp
<1>4. ServerUp' => EndOK(c)'
  BY <1>f, <1>h, <1>p, <1>u, <1>g, Entries
       DEF Given, TokenOK, ContextOK, ReceiveOK, EndOK, InHand, Early, Late,
           CmStates, Holds, Unresolved, Flushed, ServerUp
<1>5. FilesOK' /\ \A d \in Clients \ {c} : FilesKept(d)
  BY <1>u, <1>g, FilesStay DEF Given, fileVars
<1>6. /\ cst[c] = "crashed" => cst'[c] = "crashed"
      /\ spc' = "died" => spc = "died" \/ cst[c] = "crashed"
  BY <1>f, <1>h, <1>p, <1>u, <1>g, Entries
       DEF Given, EndOK, Holds, ServerUp
<1> QED BY <1>g, <1>t, <1>e, <1>s, <1>1, <1>2, <1>3, <1>4, <1>5, <1>6, Together
     DEF Own

(* The server makes the context before there is a token.                   *)
LEMMA ServerOnConnectRequestOK ==
  ASSUME IInv, NEW c \in Clients, ServerOnConnectRequest(c)
  PROVE  IInv' /\ (Spoiled => Spoiled')
<1>g. TypeOK /\ Given(c)
  BY GivenOK
<1>u. /\ writes' = writes /\ placed' = placed /\ sends' = sends
      /\ cst' = cst /\ cpc' = cpc /\ ccq' = ccq /\ cack' = cack
      /\ cposted' = cposted /\ cmsg' = cmsg /\ sent' = sent /\ scq' = scq
      /\ sack' = sack /\ buffer' = buffer /\ smsg' = smsg /\ arg' = arg
      /\ swc' = swc /\ sop' = sop /\ fds' = fds /\ owner' = owner
      /\ data' = data
  BY DEF ServerOnConnectRequest, Connection, Running, connVars, clientVars,
           pollerVars, ctxVars, fileVars
<1>f. /\ ServerUp /\ cst[c] = "running" /\ cm[c] = "requested"
      /\ cm' = [cm EXCEPT ![c] = "accepted"]
      /\ spc' = IF spc = "none" THEN "idle" ELSE spc
      /\ sctx' = [sctx EXCEPT ![c] = "live"]
      /\ fname' = [fname EXCEPT ![c] = None]
      /\ fd' = [fd EXCEPT ![c] = None]
      /\ sposted' = [sposted EXCEPT ![c] = 1]
  BY DEF ServerOnConnectRequest, Connection, Running
<1>p. /\ cm'[c] = "accepted" /\ sctx'[c] = "live" /\ fname'[c] = None
      /\ sposted'[c] = 1
  BY <1>f, <1>g DEF TypeOK
<1>t. TypeOK'
  BY <1>f, <1>u, <1>g DEF TypeOK, Given, CmStates, Messages
<1>e. Elsewhere(c)
  BY <1>f, <1>u, <1>g
       DEF TypeOK, Elsewhere, Kept, Same, InHand, ServerHandles, ServerUp
<1>1. TokenOK(c)' /\ HandOK'
  BY <1>f, <1>p, <1>u, <1>g, Entries DEF Given, TokenOK, InHand, Early, HandOK, ServerHandles
<1>2. ContextOK(c)' /\ ReceiveOK(c)'
  BY <1>f, <1>p, <1>u, <1>g, Entries
       DEF Given, TokenOK, ContextOK, ReceiveOK, InHand, Early, Holds, ServerUp
<1>s. (Spoiled => Spoiled') /\ (Sound' => Sound)
  <2>1. Spoils(c) => Spoils(c)'
    BY <1>f, <1>p, <1>u, <1>g DEF Spoils, Given, ContextOK
  <2> QED BY <2>1, <1>g, <1>e, StaysSpoiled
<1>3. Sound' => DataOK(c)'
  BY <1>s, <1>f, <1>p, <1>u, <1>g, Entries
       DEF Given, TokenOK, DataOK, Says, Carries, Brought, AtEnd,
           Naming, Upto, Holds, InHand, Early, ServerHandles, ServerUp
<1>4. ServerUp' => EndOK(c)'
  BY <1>f, <1>p, <1>u, <1>g, Entries
       DEF Given, TokenOK, ContextOK, ReceiveOK, EndOK, InHand, Early, Late,
           CmStates, Holds, Unresolved, Flushed, ServerUp
<1>5. FilesOK' /\ \A d \in Clients \ {c} : FilesKept(d)
  BY <1>u, <1>g, FilesStay DEF Given, fileVars
<1>6. /\ cst[c] = "crashed" => cst'[c] = "crashed"
      /\ spc' = "died" => spc = "died" \/ cst[c] = "crashed"
  BY <1>f, <1>p, <1>u, <1>g, Entries
       DEF Given, EndOK, Holds, ServerUp
<1> QED BY <1>g, <1>t, <1>e, <1>s, <1>1, <1>2, <1>3, <1>4, <1>5, <1>6, Together
     DEF Own

(* MR is the token.                                                        *)
LEMMA ServerOnEstablishedOK ==
  ASSUME IInv, NEW c \in Clients, ServerOnEstablished(c)
  PROVE  IInv' /\ (Spoiled => Spoiled')
<1>g. TypeOK /\ Given(c)
  BY GivenOK
<1>h. sends[c] = 0
  BY <1>g DEF Given, TokenOK, ReceiveOK, Holds, InHand, Early,
           ServerOnEstablished, Connection, Running, SendMessage
<1>u. /\ writes' = writes /\ placed' = placed /\ cst' = cst /\ cpc' = cpc
      /\ ccq' = ccq /\ cack' = cack /\ cposted' = cposted /\ cmsg' = cmsg
      /\ sent' = sent /\ scq' = scq /\ sack' = sack /\ sposted' = sposted
      /\ sctx' = sctx /\ buffer' = buffer /\ fname' = fname /\ fd' = fd
      /\ arg' = arg /\ spc' = spc /\ swc' = swc /\ sop' = sop /\ fds' = fds
      /\ owner' = owner /\ data' = data
  BY <1>h DEF ServerOnEstablished, Connection, Running, SendMessage, connVars,
           clientVars, pollerVars, ctxVars, fileVars
<1>f. /\ ServerUp /\ cst[c] = "running" /\ cm[c] = "accepted"
      /\ cm' = [cm EXCEPT ![c] = "connected"]
      /\ smsg' = [smsg EXCEPT ![c] = "MR"]
      /\ sends' = [sends EXCEPT ![c] = 1]
  BY <1>h, OneEntry DEF ServerOnEstablished, Connection, Running, SendMessage
<1>p. /\ cm'[c] = "connected" /\ smsg'[c] = "MR" /\ sends'[c] = 1
  BY <1>f, <1>g DEF TypeOK
<1>t. TypeOK'
  BY <1>f, <1>u, <1>g DEF TypeOK, Given, CmStates, Messages
<1>e. Elsewhere(c)
  BY <1>f, <1>u, <1>g
       DEF TypeOK, Elsewhere, Kept, Same, InHand, ServerHandles, ServerUp
<1>1. TokenOK(c)' /\ HandOK'
  BY <1>f, <1>h, <1>p, <1>u, <1>g, Entries
       DEF Given, TokenOK, InHand, Early, HandOK, ServerHandles
<1>2. ContextOK(c)' /\ ReceiveOK(c)'
  BY <1>f, <1>h, <1>p, <1>u, <1>g, Entries
       DEF Given, TokenOK, ContextOK, ReceiveOK, InHand, Early, Holds, ServerUp
<1>s. (Spoiled => Spoiled') /\ (Sound' => Sound)
  <2>1. Spoils(c) => Spoils(c)'
    BY <1>f, <1>h, <1>p, <1>u, <1>g DEF Spoils, Given, ContextOK
  <2> QED BY <2>1, <1>g, <1>e, StaysSpoiled
<1>3. Sound' => DataOK(c)'
  BY <1>s, <1>f, <1>h, <1>p, <1>u, <1>g, Entries
       DEF Given, TokenOK, DataOK, Says, Carries, Brought, AtEnd,
           Naming, Upto, Holds, InHand, Early, ServerHandles, ServerUp
<1>4. ServerUp' => EndOK(c)'
  BY <1>f, <1>h, <1>p, <1>u, <1>g, Entries
       DEF Given, TokenOK, ContextOK, ReceiveOK, EndOK, InHand, Early, Late,
           CmStates, Holds, Unresolved, Flushed, ServerUp
<1>5. FilesOK' /\ \A d \in Clients \ {c} : FilesKept(d)
  BY <1>u, <1>g, FilesStay DEF Given, fileVars
<1>6. /\ cst[c] = "crashed" => cst'[c] = "crashed"
      /\ spc' = "died" => spc = "died" \/ cst[c] = "crashed"
  BY <1>f, <1>h, <1>p, <1>u, <1>g, Entries
       DEF Given, EndOK, Holds, ServerUp
<1> QED BY <1>g, <1>t, <1>e, <1>s, <1>1, <1>2, <1>3, <1>4, <1>5, <1>6, Together
     DEF Own

(* The context is freed, and a descriptor closed: the one of the file that *)
(* was opened for it or, when the client crashed before, any.              *)
LEMMA ServerOnDisconnectOK ==
  ASSUME IInv, NEW c \in Clients, ServerOnDisconnect(c)
  PROVE  IInv' /\ (Spoiled => Spoiled')
<1>g. TypeOK /\ Given(c)
  BY GivenOK
<1>h. PICK f \in Fds \cup {None} :
        /\ fd' = [fd EXCEPT ![c] = f] /\ CloseFile(f)
        /\ spc' = spc \/ spc' = "fault"
        /\ fname[c] # None => f = fd[c]
  <2>1. CASE fname[c] # None
    <3>1. fd \in [Clients -> Fds \cup {None}] /\ fd' = fd /\ spc' = spc
      BY <2>1, <1>g DEF ServerOnDisconnect, CloseContext, TypeOK
    <3>2. fd' = [fd EXCEPT ![c] = fd[c]] /\ fd[c] \in Fds \cup {None}
      BY <3>1
    <3> QED BY <2>1, <3>1, <3>2 DEF ServerOnDisconnect, CloseContext
  <2>2. CASE fname[c] = None
    BY <2>2 DEF ServerOnDisconnect, CloseContext, ServerDies
  <2> QED BY <2>1, <2>2
<1>u. /\ writes' = writes /\ placed' = placed /\ cst' = cst /\ cpc' = cpc
      /\ ccq' = ccq /\ cack' = cack /\ cposted' = cposted /\ cmsg' = cmsg
      /\ sent' = sent /\ buffer' = buffer /\ smsg' = smsg /\ fname' = fname
      /\ arg' = arg /\ swc' = swc /\ sop' = sop /\ owner' = owner
      /\ data' = data
  BY DEF ServerOnDisconnect, Connection, connVars, clientVars, pollerVars, ctxVars, fileVars
<1>f. /\ ServerUp /\ cm[c] = "disconnecting"
      /\ cm' = [cm EXCEPT ![c] = "disconnected"]
      /\ sctx' = [sctx EXCEPT ![c] = "freed"]
      /\ scq' = [scq EXCEPT ![c] = << >>] /\ sack' = [sack EXCEPT ![c] = FALSE]
      /\ sposted' = [sposted EXCEPT ![c] = 0] /\ sends' = [sends EXCEPT ![c] = 0]
      /\ fd' = [fd EXCEPT ![c] = f] /\ CloseFile(f)
      /\ spc' = spc \/ spc' = "fault"
  BY <1>h, OneEntry DEF ServerOnDisconnect, Connection
<1>p. /\ cm'[c] = "disconnected" /\ sctx'[c] = "freed" /\ scq'[c] = << >>
      /\ sposted'[c] = 0 /\ sends'[c] = 0 /\ fd'[c] = f /\ ~sack'[c]
  BY <1>f, <1>g DEF TypeOK
<1>t. TypeOK'
  <2>1. /\ cm \in [Clients -> CmStates] /\ fds \in [Fds -> Names \cup {None}]
        /\ fd \in [Clients -> Fds \cup {None}]
        /\ sctx \in [Clients -> {"none", "live", "freed", "used"}]
        /\ scq \in [Clients -> Seq({"data", "eof", "failed"})]
        /\ sack \in [Clients -> BOOLEAN] /\ sposted \in [Clients -> Nat]
        /\ sends \in [Clients -> Nat]
        /\ spc \in {"none", "idle", "handle", "reply", "failed", "died", "fault"}
    BY <1>g DEF TypeOK
  <2>2. cm' \in [Clients -> CmStates]
    BY <1>f, <2>1 DEF CmStates
  <2>3. sctx' \in [Clients -> {"none", "live", "freed", "used"}]
    BY <1>f, <2>1
  <2>4. scq' \in [Clients -> Seq({"data", "eof", "failed"})]
    BY <1>f, <2>1, EntryTypes
  <2>5. /\ sack' \in [Clients -> BOOLEAN] /\ sposted' \in [Clients -> Nat]
        /\ sends' \in [Clients -> Nat]
    BY <1>f, <2>1
  <2>6. fd' \in [Clients -> Fds \cup {None}]
    BY <1>f, <1>h, <2>1
  <2>7. fds' \in [Fds -> Names \cup {None}]
    BY <1>f, <2>1 DEF CloseFile
  <2>8. spc' \in {"none", "idle", "handle", "reply", "failed", "died", "fault"}
    BY <1>f, <2>1
  <2> QED BY <2>2, <2>3, <2>4, <2>5, <2>6, <2>7, <2>8, <1>u, <1>g DEF TypeOK
<1>e. Elsewhere(c)
  BY <1>f, <1>u, <1>g
       DEF TypeOK, Elsewhere, Kept, Same, InHand, ServerHandles, ServerUp
<1>1. TokenOK(c)' /\ HandOK'
  BY <1>f, <1>h, <1>p, <1>u, <1>g, Entries
       DEF Given, TokenOK, InHand, Early, HandOK, ServerHandles
<1>2. ContextOK(c)' /\ ReceiveOK(c)'
  BY <1>f, <1>h, <1>p, <1>u, <1>g, Entries
       DEF Given, TokenOK, ContextOK, ReceiveOK, InHand, Early, Holds, ServerUp
<1>s. (Spoiled => Spoiled') /\ (Sound' => Sound)
  <2>1. Spoils(c) => Spoils(c)'
    BY <1>f, <1>h, <1>p, <1>u, <1>g DEF Spoils, Given, ContextOK
  <2> QED BY <2>1, <1>g, <1>e, StaysSpoiled
<1>3. Sound' => DataOK(c)'
  <2> SUFFICES ASSUME Sound' PROVE DataOK(c)'
    OBVIOUS
  <2>1. DataOK(c)
    BY <1>s, <1>g DEF Given
  <2>2. \A k : Upto(c, k)' <=> Upto(c, k)
    BY <1>u DEF Upto
  <2>3. /\ Naming(c)' <=> Naming(c)
        /\ AtEnd(c)' <=> AtEnd(c)
        /\ Brought(c)' <=> Brought(c)
        /\ \A h : Carries(c, h)' <=> Carries(c, h)
        /\ Says(c, cmsg[c])' <=> Says(c, cmsg[c])
    BY <2>2, <1>u DEF Naming, AtEnd, Brought, Carries, Says
  <2>4. spc' = spc
    BY <1>f DEF Sound, ServerUp
  <2> QED BY <1>p, <1>u, <2>1, <2>2, <2>3, <2>4, Entries
       DEF DataOK, Holds, Early, InHand, ServerHandles
<1>4. ServerUp' => EndOK(c)'
  BY <1>f, <1>h, <1>p, <1>u, <1>g, Entries
       DEF Given, TokenOK, ContextOK, ReceiveOK, EndOK, InHand, Early, Late,
           CmStates, Holds, Unresolved, Flushed, ServerUp
<1>5. FilesOK' /\ (Sound' => \A d \in Clients \ {c} : FilesKept(d))
  <2>1. fds \in [Fds -> Names \cup {None}] /\ None \notin Fds
    BY <1>g, FileTransferAssumption DEF TypeOK
  <2>2. \A g \in Fds : g # f => fds'[g] = fds[g]
    BY <2>1, <1>f DEF CloseFile
  <2>3. \A g \in Fds : fds'[g] = fds[g] \/ fds'[g] = None
    BY <2>1, <1>f DEF CloseFile
  <2>4. FilesOK'
    BY <2>3, <1>u, <1>g DEF FilesOK, Given
  <2>5. ASSUME Sound', NEW d \in Clients \ {c} PROVE FilesKept(d)
    <3>1. DataOK(c) /\ EndOK(c)
      BY <2>5, <1>s, <1>f, <1>g DEF Given
    <3>2. CASE fname[c] # None
      <4>1. cm[c] = "disconnecting" /\ sctx[c] = "live"
        BY <1>f, <1>g DEF Given, ContextOK
      <4>2. fds[f] = fname[c] /\ owner[fds[f]] = c
        BY <3>1, <3>2, <4>1, <1>h DEF DataOK
      <4> QED BY <2>2, <4>2, <1>u DEF FilesKept
    <3>3. CASE fname[c] = None
      <4>1. cst[c] = "crashed"
        BY <3>1, <3>3, <1>f DEF DataOK, EndOK, Late
      <4>2. f = None
        BY <2>5, <3>3, <4>1, <1>p, <1>u DEF Sound, Spoiled, Spoils
      <4> QED BY <2>1, <2>2, <4>2, <1>u DEF FilesKept
    <3> QED BY <3>2, <3>3
  <2> QED BY <2>4, <2>5
<1>6. /\ cst[c] = "crashed" => cst'[c] = "crashed"
      /\ spc' = "died" => spc = "died" \/ cst[c] = "crashed"
  BY <1>f, <1>h, <1>p, <1>u, <1>g, Entries DEF Given, EndOK, ServerUp
<1> QED BY <1>g, <1>t, <1>e, <1>s, <1>1, <1>2, <1>3, <1>4, <1>5, <1>6, Together
     DEF Own

(* The server dies of an event only when a client has ended.               *)
LEMMA ServerOnUnknownEventOK ==
  ASSUME IInv, NEW c \in Clients, ServerOnUnknownEvent(c)
  PROVE  IInv' /\ (Spoiled => Spoiled')
<1>g. TypeOK /\ Given(c)
  BY GivenOK
<1>u. /\ cm' = cm /\ writes' = writes /\ placed' = placed /\ sends' = sends
      /\ cst' = cst /\ cpc' = cpc /\ ccq' = ccq /\ cack' = cack
      /\ cposted' = cposted /\ cmsg' = cmsg /\ sent' = sent /\ scq' = scq
      /\ sack' = sack /\ sposted' = sposted /\ sctx' = sctx
      /\ buffer' = buffer /\ smsg' = smsg /\ fname' = fname /\ fd' = fd
      /\ arg' = arg /\ swc' = swc /\ sop' = sop /\ fds' = fds
      /\ owner' = owner /\ data' = data
  BY DEF ServerOnUnknownEvent, ServerDies, connVars, clientVars, pollerVars,
           ctxVars, fileVars
<1>f. /\ ServerUp /\ cm[c] = "rejected" /\ spc' = "died"
  BY DEF ServerOnUnknownEvent, ServerDies
<1>t. TypeOK'
  BY <1>f, <1>u, <1>g DEF TypeOK, Given, CmStates, Messages
<1>e. Elsewhere(c)
  BY <1>f, <1>u, <1>g
       DEF TypeOK, Elsewhere, Kept, Same, InHand, ServerHandles, ServerUp
<1>1. TokenOK(c)' /\ HandOK'
  BY <1>f, <1>u, <1>g, Entries DEF Given, TokenOK, InHand, Early, HandOK, ServerHandles
<1>2. ContextOK(c)' /\ ReceiveOK(c)'
  BY <1>f, <1>u, <1>g, Entries
       DEF Given, TokenOK, ContextOK, ReceiveOK, InHand, Early, Holds, ServerUp
<1>s. (Spoiled => Spoiled') /\ (Sound' => Sound)
  <2>1. Spoils(c) => Spoils(c)'
    BY <1>f, <1>u, <1>g DEF Spoils, Given, ContextOK
  <2> QED BY <2>1, <1>g, <1>e, StaysSpoiled
<1>3. Sound' => DataOK(c)'
  BY <1>s, <1>f, <1>u, <1>g, Entries
       DEF Given, TokenOK, DataOK, Says, Carries, Brought, AtEnd,
           Naming, Upto, Holds, InHand, Early, ServerHandles, ServerUp
<1>4. ServerUp' => EndOK(c)'
  BY <1>f, <1>u, <1>g, Entries
       DEF Given, TokenOK, ContextOK, ReceiveOK, EndOK, InHand, Early, Late,
           CmStates, Holds, Unresolved, Flushed, ServerUp
<1>5. FilesOK' /\ \A d \in Clients \ {c} : FilesKept(d)
  BY <1>u, <1>g, FilesStay DEF Given, fileVars
<1>6. /\ cst[c] = "crashed" => cst'[c] = "crashed"
      /\ spc' = "died" => spc = "died" \/ cst[c] = "crashed"
  BY <1>f, <1>u, <1>g, Entries
       DEF Given, EndOK, Holds, ServerUp
<1> QED BY <1>g, <1>t, <1>e, <1>s, <1>1, <1>2, <1>3, <1>4, <1>5, <1>6, Together
     DEF Own

(* The token goes from the queue of the server into its hand.              *)
LEMMA ServerPollOK ==
  ASSUME IInv, NEW c \in Clients, ServerPoll(c)
  PROVE  IInv' /\ (Spoiled => Spoiled')
<1>g. TypeOK /\ Given(c)
  BY GivenOK
<1>h. scq[c] \in {<<"data">>, <<"eof">>, <<"failed">>}
  BY <1>g DEF Given, TokenOK, ServerPoll
<1>u. /\ cm' = cm /\ writes' = writes /\ placed' = placed /\ sends' = sends
      /\ cst' = cst /\ cpc' = cpc /\ ccq' = ccq /\ cack' = cack
      /\ cposted' = cposted /\ cmsg' = cmsg /\ sent' = sent /\ sack' = sack
      /\ sposted' = sposted /\ sctx' = sctx /\ buffer' = buffer
      /\ smsg' = smsg /\ fname' = fname /\ fd' = fd /\ arg' = arg
      /\ fds' = fds /\ owner' = owner /\ data' = data
  BY <1>h DEF ServerPoll, ServerDies, connVars, clientVars, pollerVars,
           ctxVars, fileVars
<1>f. /\ spc = "idle" /\ scq[c] # << >> /\ scq' = [scq EXCEPT ![c] = << >>]
      /\ swc' = c
      /\ \/ scq[c] = <<"failed">> /\ sop' = "failed" /\ spc' = "died"
         \/ scq[c] = <<"data">> /\ sop' = "data" /\ spc' = "handle"
         \/ scq[c] = <<"eof">> /\ sop' = "eof" /\ spc' = "handle"
  <2>1. CASE scq[c] = <<"data">>
    BY <2>1, OneEntry DEF ServerPoll, ServerDies
  <2>2. CASE scq[c] = <<"eof">>
    BY <2>2, OneEntry DEF ServerPoll, ServerDies
  <2>3. CASE scq[c] = <<"failed">>
    BY <2>3, OneEntry DEF ServerPoll, ServerDies
  <2> QED BY <1>h, <2>1, <2>2, <2>3
<1>p. /\ scq'[c] = << >>
  BY <1>f, <1>g DEF TypeOK
<1>t. TypeOK'
  <2>1. scq' \in [Clients -> Seq({"data", "eof", "failed"})]
    BY <1>f, <1>g, EntryTypes DEF TypeOK
  <2>2. swc' \in Clients \cup {None}
    BY <1>f, <1>g DEF TypeOK
  <2>3. sop' \in {"data", "eof", "sent", "failed"}
    BY <1>f, <1>g DEF TypeOK
  <2>4. spc' \in {"none", "idle", "handle", "reply", "failed", "died", "fault"}
    BY <1>f, <1>g DEF TypeOK
  <2> QED BY <2>1, <2>2, <2>3, <2>4, <1>u, <1>g DEF TypeOK
<1>e. Elsewhere(c)
  BY <1>f, <1>u, <1>g
       DEF TypeOK, Elsewhere, Kept, Same, InHand, ServerHandles, ServerUp
<1>1. TokenOK(c)' /\ HandOK'
  BY <1>f, <1>h, <1>p, <1>u, <1>g, Entries
       DEF Given, TokenOK, InHand, Early, HandOK, ServerHandles
<1>2. ContextOK(c)' /\ ReceiveOK(c)'
  BY <1>f, <1>h, <1>p, <1>u, <1>g, Entries
       DEF Given, TokenOK, ContextOK, ReceiveOK, InHand, Early, Holds, ServerUp
<1>s. (Spoiled => Spoiled') /\ (Sound' => Sound)
  <2>1. Spoils(c) => Spoils(c)'
    BY <1>f, <1>h, <1>p, <1>u, <1>g DEF Spoils, Given, ContextOK
  <2> QED BY <2>1, <1>g, <1>e, StaysSpoiled
<1>3. Sound' => DataOK(c)'
  <2> SUFFICES ASSUME Sound' PROVE DataOK(c)'
      OBVIOUS
  <2>1. DataOK(c)
    BY <1>s, <1>g DEF Given
  <2>2. /\ sends'[c] = 0 /\ ccq'[c] = << >> /\ cpc'[c] # "handle"
        /\ writes'[c] = << >> /\ scq'[c] = << >>
      BY <1>f, <1>h, <1>p, <1>u, <1>g, Entries DEF Given, TokenOK, InHand
  <2>3. \A k : Upto(c, k)' <=> Upto(c, k)
      BY <2>1, <1>f, <1>u DEF Upto
  <2> QED BY <1>h, <1>p, <1>u, <2>1, <2>2, <2>3, <1>f, Entries
           DEF DataOK, Holds, Early, InHand, ServerHandles, Says, Naming,
                    Brought, AtEnd, ServerUp
<1>4. ServerUp' => EndOK(c)'
  BY <1>f, <1>h, <1>p, <1>u, <1>g, Entries
       DEF Given, TokenOK, ContextOK, ReceiveOK, EndOK, InHand, Early, Late,
           CmStates, Holds, Unresolved, Flushed, ServerUp
<1>5. FilesOK' /\ \A d \in Clients \ {c} : FilesKept(d)
  BY <1>u, <1>g, FilesStay DEF Given, fileVars
<1>6. /\ cst[c] = "crashed" => cst'[c] = "crashed"
      /\ spc' = "died" => spc = "died" \/ cst[c] = "crashed"
  BY <1>f, <1>h, <1>p, <1>u, <1>g, Entries
       DEF Given, EndOK, Holds, ServerUp
<1> QED BY <1>g, <1>t, <1>e, <1>s, <1>1, <1>2, <1>3, <1>4, <1>5, <1>6, Together
     DEF Own

(* Nor is the completion of a message, which is taken up at any time.      *)
LEMMA ServerPollMessageOK ==
  ASSUME IInv, NEW c \in Clients, ServerPollMessage(c)
  PROVE  IInv' /\ (Spoiled => Spoiled')
<1>g. TypeOK /\ Given(c)
  BY GivenOK
<1>u. /\ cm' = cm /\ writes' = writes /\ placed' = placed /\ sends' = sends
      /\ cst' = cst /\ cpc' = cpc /\ ccq' = ccq /\ cack' = cack
      /\ cposted' = cposted /\ cmsg' = cmsg /\ sent' = sent /\ scq' = scq
      /\ sposted' = sposted /\ sctx' = sctx /\ buffer' = buffer
      /\ smsg' = smsg /\ fname' = fname /\ fd' = fd /\ arg' = arg
      /\ fds' = fds /\ owner' = owner /\ data' = data
  BY DEF ServerPollMessage, connVars, clientVars, pollerVars, ctxVars, fileVars
<1>f. /\ spc = "idle" /\ sack[c] /\ sack' = [sack EXCEPT ![c] = FALSE]
      /\ swc' = c /\ sop' = "sent" /\ spc' = "handle"
  BY DEF ServerPollMessage
<1>t. TypeOK'
  BY <1>f, <1>u, <1>g DEF TypeOK
<1>e. Elsewhere(c)
  BY <1>f, <1>u, <1>g
       DEF TypeOK, Elsewhere, Kept, Same, InHand, ServerHandles, ServerUp
<1>1. TokenOK(c)' /\ HandOK'
  BY <1>f, <1>u, <1>g, Entries
       DEF Given, TokenOK, InHand, Early, HandOK, ServerHandles
<1>2. ContextOK(c)' /\ ReceiveOK(c)'
  BY <1>f, <1>u, <1>g, Entries
       DEF Given, TokenOK, ContextOK, ReceiveOK, InHand, Early, Holds, ServerUp
<1>s. (Spoiled => Spoiled') /\ (Sound' => Sound)
  <2>1. Spoils(c) => Spoils(c)'
    BY <1>f, <1>u, <1>g DEF Spoils, Given, ContextOK
  <2> QED BY <2>1, <1>g, <1>e, StaysSpoiled
<1>3. Sound' => DataOK(c)'
  BY <1>s, <1>f, <1>u, <1>g, Entries
       DEF Given, TokenOK, DataOK, Says, Carries, Brought, AtEnd, Naming, Upto,
           Holds, InHand, Early, ServerHandles, ServerUp
<1>4. ServerUp' => EndOK(c)'
  BY <1>f, <1>u, <1>g, Entries
       DEF Given, TokenOK, ContextOK, ReceiveOK, EndOK, InHand, Early, Late,
           CmStates, Holds, Unresolved, Flushed, ServerUp
<1>5. FilesOK' /\ \A d \in Clients \ {c} : FilesKept(d)
  BY <1>u, <1>g, FilesStay DEF Given, fileVars
<1>6. /\ cst[c] = "crashed" => cst'[c] = "crashed"
      /\ spc' = "died" => spc = "died" \/ cst[c] = "crashed"
  BY <1>f, <1>u, <1>g, Entries DEF Given, EndOK, Holds, ServerUp
<1> QED BY <1>g, <1>t, <1>e, <1>s, <1>1, <1>2, <1>3, <1>4, <1>5, <1>6, Together
     DEF Own

(* When open or write fails, the server ends.                              *)
LEMMA ServerFailsOK ==
  ASSUME IInv, NEW c \in Clients, ServerOnData(c), spc' = "failed"
  PROVE  IInv' /\ (Spoiled => Spoiled')
<1>g. TypeOK /\ Given(c)
  BY GivenOK
<1>u. /\ cm' = cm /\ writes' = writes /\ placed' = placed /\ sends' = sends
      /\ cst' = cst /\ cpc' = cpc /\ ccq' = ccq /\ cack' = cack
      /\ cposted' = cposted /\ cmsg' = cmsg /\ sent' = sent /\ scq' = scq
      /\ sack' = sack /\ sposted' = sposted /\ sctx' = sctx
      /\ buffer' = buffer /\ smsg' = smsg /\ fd' = fd /\ arg' = arg
      /\ swc' = swc /\ sop' = sop /\ fds' = fds /\ owner' = owner
      /\ data' = data
  BY DEF ServerOnData, OpenFile, WriteChunk, ServerDies, ServerHandles, connVars, clientVars, pollerVars, ctxVars, fileVars
<1>f. /\ spc = "handle" /\ swc = c /\ sop = "data" /\ sctx[c] = "live"
      /\ \/ fname' = fname
         \/ fname' = [fname EXCEPT ![c] = arg[c].name]
  BY DEF ServerOnData, OpenFile, WriteChunk, ServerHandles
<1>t. TypeOK'
  <2>1. fname' \in [Clients -> Names \cup {None}]
    BY <1>f, <1>g DEF TypeOK, Given
  <2> QED BY <2>1, <1>u, <1>g DEF TypeOK
<1>e. Elsewhere(c)
  <2>1. \A d \in Clients \ {c} : fname'[d] = fname[d]
    BY <1>f, <1>g DEF TypeOK
  <2> QED BY <2>1, <1>f, <1>u
       DEF Elsewhere, Kept, Same, InHand, ServerHandles, ServerUp
<1>1. TokenOK(c)' /\ HandOK'
  BY <1>f, <1>u, <1>g, Entries
       DEF Given, TokenOK, InHand, Early, HandOK, ServerHandles
<1>2. ContextOK(c)' /\ ReceiveOK(c)'
  BY <1>f, <1>u, <1>g, Entries
       DEF Given, TokenOK, ContextOK, ReceiveOK, InHand, Early, Holds, ServerUp
<1>s. (Spoiled => Spoiled') /\ (Sound' => Sound)
  <2>1. Spoils(c) => Spoils(c)'
    BY <1>f, <1>u, <1>g DEF Spoils, Given, ContextOK
  <2> QED BY <2>1, <1>g, <1>e, StaysSpoiled
<1>3. Sound' => DataOK(c)'
  BY DEF Sound, ServerUp
<1>4. ServerUp' => EndOK(c)'
  BY DEF ServerUp
<1>5. FilesOK' /\ \A d \in Clients \ {c} : FilesKept(d)
  BY <1>u, <1>g, FilesStay DEF Given, fileVars
<1>6. /\ cst[c] = "crashed" => cst'[c] = "crashed"
      /\ spc' = "died" => spc = "died" \/ cst[c] = "crashed"
  BY <1>u
<1> QED BY <1>g, <1>t, <1>e, <1>s, <1>1, <1>2, <1>3, <1>4, <1>5, <1>6, Together
     DEF Own

(* The server opens the file that the token names.                         *)
LEMMA OpenFileOK ==
  ASSUME IInv, NEW c \in Clients, ServerOnData(c), fname[c] = None, spc' = "reply"
  PROVE  IInv' /\ (Spoiled => Spoiled')
<1>g. TypeOK /\ Given(c)
  BY GivenOK
<1>h. PICK f \in Fds : /\ fds[f] = None /\ owner[arg[c].name] = None
                       /\ fname' = [fname EXCEPT ![c] = arg[c].name]
                       /\ fd' = [fd EXCEPT ![c] = f]
                       /\ owner' = [owner EXCEPT ![arg[c].name] = c]
                       /\ fds' = [fds EXCEPT ![f] = arg[c].name]
  BY DEF ServerOnData, OpenFile, LowestFree, ServerDies
<1>u. /\ cm' = cm /\ writes' = writes /\ placed' = placed /\ sends' = sends
      /\ cst' = cst /\ cpc' = cpc /\ ccq' = ccq /\ cack' = cack
      /\ cposted' = cposted /\ cmsg' = cmsg /\ sent' = sent /\ scq' = scq
      /\ sack' = sack /\ sposted' = sposted /\ sctx' = sctx
      /\ buffer' = buffer /\ smsg' = smsg /\ arg' = arg /\ swc' = swc
      /\ sop' = sop /\ data' = data
  BY DEF ServerOnData, OpenFile, ServerDies, ServerHandles, connVars, clientVars, pollerVars, ctxVars, fileVars
<1>f. /\ spc = "handle" /\ swc = c /\ sop = "data" /\ sctx[c] = "live"
      /\ fname' = [fname EXCEPT ![c] = arg[c].name]
      /\ fd' = [fd EXCEPT ![c] = f]
      /\ owner' = [owner EXCEPT ![arg[c].name] = c]
      /\ fds' = [fds EXCEPT ![f] = arg[c].name]
  BY <1>h, OneEntry DEF ServerOnData, ServerHandles
<1>p. /\ fname'[c] = arg[c].name /\ fd'[c] = f /\ fds'[f] = arg[c].name
      /\ owner'[arg[c].name] = c
  BY <1>f, <1>g DEF TypeOK
<1>t. TypeOK'
  <2>1. /\ fname \in [Clients -> Names \cup {None}] /\ arg[c].name \in Names
        /\ owner \in [Names -> Clients \cup {None}]
        /\ fd \in [Clients -> Fds \cup {None}] /\ fds \in [Fds -> Names \cup {None}]
    BY <1>g DEF TypeOK
  <2>2. fname' \in [Clients -> Names \cup {None}]
    BY <1>f, <2>1
  <2>3. owner' \in [Names -> Clients \cup {None}]
    BY <1>f, <2>1
  <2>4. fd' \in [Clients -> Fds \cup {None}]
    BY <1>f, <1>h, <2>1
  <2>5. fds' \in [Fds -> Names \cup {None}]
    BY <1>f, <2>1
  <2> QED BY <2>2, <2>3, <2>4, <2>5, <1>u, <1>g DEF TypeOK
<1>e. Elsewhere(c)
  <2>1. \A d \in Clients \ {c} : fname'[d] = fname[d] /\ fd'[d] = fd[d]
    BY <1>f, <1>g DEF TypeOK
  <2> QED BY <2>1, <1>f, <1>u
       DEF Elsewhere, Kept, Same, InHand, ServerHandles, ServerUp
<1>1. TokenOK(c)' /\ HandOK'
  BY <1>f, <1>h, <1>p, <1>u, <1>g, Entries
       DEF Given, TokenOK, InHand, Early, HandOK, ServerHandles
<1>2. ContextOK(c)' /\ ReceiveOK(c)'
  BY <1>f, <1>h, <1>p, <1>u, <1>g, Entries
       DEF Given, TokenOK, ContextOK, ReceiveOK, InHand, Early, Holds, ServerUp
<1>s. (Spoiled => Spoiled') /\ (Sound' => Sound)
  <2>1. Spoils(c) => Spoils(c)'
    BY <1>f, <1>h, <1>p, <1>u, <1>g DEF Spoils, Given, ContextOK
  <2> QED BY <2>1, <1>g, <1>e, StaysSpoiled
<1>3. Sound' => DataOK(c)'
  <2> SUFFICES ASSUME Sound' PROVE DataOK(c)'
    OBVIOUS
  <2>1. DataOK(c)
    BY <1>s, <1>g DEF Given
  <2>2. /\ sends'[c] = 0 /\ ccq'[c] = << >> /\ cpc'[c] # "handle" /\ writes'[c] = << >>
        /\ scq'[c] = << >> /\ ~placed'[c] /\ cm'[c] \notin Early
        /\ cmsg'[c] # "DONE"
    BY <1>f, <1>u, <1>g DEF Given, TokenOK, InHand
  <2>3. sent[c] = 0
    BY <2>1, <1>f, <1>g, FileTransferAssumption
         DEF DataOK, Brought, Naming, Upto, ServerHandles, Given
  <2>4. data'[arg[c].name] = << >>
    BY <1>h, <1>u, <1>g DEF FilesOK, Given
  <2>5. Upto(c, sent[c])'
    BY <2>3, <2>4, <1>p, <1>u DEF Upto
  <2>6. ~ServerHandles(c, "data")' /\ ~ServerHandles(c, "eof")'
    BY DEF ServerHandles
  <2> QED BY <2>1, <2>2, <2>5, <2>6, <1>p, <1>u, Entries DEF DataOK, Holds
<1>4. ServerUp' => EndOK(c)'
  BY <1>f, <1>h, <1>p, <1>u, <1>g, Entries
       DEF Given, TokenOK, ContextOK, ReceiveOK, EndOK, InHand, Early, Late,
           CmStates, Holds, Unresolved, Flushed, ServerUp
<1>5. FilesOK' /\ \A d \in Clients \ {c} : FilesKept(d)
  <2>1. /\ arg[c].name \in Names /\ None \notin Clients /\ fds \in [Fds -> Names \cup {None}]
        /\ owner \in [Names -> Clients \cup {None}]
    BY <1>g, FileTransferAssumption DEF TypeOK
  <2>2. \A n \in Names : owner[n] # None => owner'[n] = owner[n]
    BY <2>1, <1>f, <1>h
  <2>3. \A g \in Fds : fds[g] # None => fds'[g] = fds[g]
    BY <2>1, <1>f, <1>h
  <2>4. \A g \in Fds : fds'[g] # None => g = f \/ (fds[g] # None /\ fds'[g] = fds[g])
    BY <2>1, <1>f, <1>h
  <2>5. \A n \in Names : owner'[n] = None => owner[n] = None
    BY <2>2
  <2>6. FilesOK'
    BY <2>1, <2>2, <2>4, <2>5, <1>p, <1>u, <1>g DEF FilesOK, Given
  <2> QED BY <2>1, <2>2, <2>3, <2>6, <1>u DEF FilesKept
<1>6. /\ cst[c] = "crashed" => cst'[c] = "crashed"
      /\ spc' = "died" => spc = "died" \/ cst[c] = "crashed"
  BY <1>u
<1> QED BY <1>g, <1>t, <1>e, <1>s, <1>1, <1>2, <1>3, <1>4, <1>5, <1>6, Together
     DEF Own

(* The server adds the chunk to the file that the descriptor is open for,  *)
(* which is the file of the token while the promise stands.                *)
LEMMA WriteChunkOK ==
  ASSUME IInv, NEW c \in Clients, ServerOnData(c), fname[c] # None, spc' = "reply"
  PROVE  IInv' /\ (Spoiled => Spoiled')
<1>g. TypeOK /\ Given(c)
  BY GivenOK
<1>h. PICK n \in Names : /\ n = fds[fd[c]] /\ owner[n] # None
                         /\ data' = [data EXCEPT ![n] = Append(data[n], buffer[c])]
  BY <1>g DEF ServerOnData, WriteChunk, WriteTo, ServerDies, TypeOK, Given, FilesOK
<1>u. /\ cm' = cm /\ writes' = writes /\ placed' = placed /\ sends' = sends
      /\ cst' = cst /\ cpc' = cpc /\ ccq' = ccq /\ cack' = cack
      /\ cposted' = cposted /\ cmsg' = cmsg /\ sent' = sent /\ scq' = scq
      /\ sack' = sack /\ sposted' = sposted /\ sctx' = sctx
      /\ buffer' = buffer /\ smsg' = smsg /\ fname' = fname /\ fd' = fd
      /\ arg' = arg /\ swc' = swc /\ sop' = sop /\ fds' = fds
      /\ owner' = owner
  BY DEF ServerOnData, WriteChunk, ServerDies, ServerHandles, connVars, clientVars, pollerVars, ctxVars, fileVars
<1>f. /\ spc = "handle" /\ swc = c /\ sop = "data" /\ sctx[c] = "live"
  BY <1>h, OneEntry DEF ServerOnData, ServerHandles
<1>t. TypeOK'
  <2>1. data \in [Names -> Seq((Clients \X (0..MaxChunks)) \cup {None})]
    BY <1>g DEF TypeOK
  <2>2. Append(data[n], buffer[c]) \in Seq((Clients \X (0..MaxChunks)) \cup {None})
    BY <2>1, <1>g, AppendProperties DEF TypeOK
  <2>3. data' \in [Names -> Seq((Clients \X (0..MaxChunks)) \cup {None})]
    BY <2>1, <2>2, <1>h
  <2> QED BY <2>3, <1>u, <1>g DEF TypeOK
<1>e. Elsewhere(c)
  BY <1>f, <1>u DEF Elsewhere, Kept, Same, InHand, ServerHandles, ServerUp
<1>1. TokenOK(c)' /\ HandOK'
  BY <1>f, <1>h, <1>u, <1>g, Entries
       DEF Given, TokenOK, InHand, Early, HandOK, ServerHandles
<1>2. ContextOK(c)' /\ ReceiveOK(c)'
  BY <1>f, <1>h, <1>u, <1>g, Entries
       DEF Given, TokenOK, ContextOK, ReceiveOK, InHand, Early, Holds, ServerUp
<1>s. (Spoiled => Spoiled') /\ (Sound' => Sound)
  <2>1. Spoils(c) => Spoils(c)'
    BY <1>f, <1>h, <1>u, <1>g DEF Spoils, Given, ContextOK
  <2> QED BY <2>1, <1>g, <1>e, StaysSpoiled
<1>3. Sound' => DataOK(c)'
  <2> SUFFICES ASSUME Sound' PROVE DataOK(c)'
    OBVIOUS
  <2>1. DataOK(c)
    BY <1>s, <1>g DEF Given
  <2>2. /\ sends'[c] = 0 /\ ccq'[c] = << >> /\ cpc'[c] # "handle" /\ writes'[c] = << >>
        /\ scq'[c] = << >> /\ ~placed'[c] /\ cm'[c] \notin Early
        /\ cmsg'[c] # "DONE"
    BY <1>f, <1>u, <1>g DEF Given, TokenOK, InHand
  <2>3. sent[c] > 0 /\ Upto(c, sent[c] - 1) /\ n = arg[c].name
    BY <2>1, <1>f, <1>h DEF DataOK, Brought, Naming, ServerHandles
  <2>4. data'[n] = Append(data[n], buffer[c])
    BY <1>h, <1>g DEF TypeOK
  <2>5. Len(data'[n]) = sent[c]
    <3>1. data[n] \in Seq((Clients \X (0..MaxChunks)) \cup {None})
      BY <1>g DEF TypeOK
    <3>2. buffer[c] \in (Clients \X (0..MaxChunks)) \cup {None}
      BY <1>g DEF TypeOK
    <3>3. Len(data'[n]) = Len(data[n]) + 1
      BY <3>1, <3>2, <2>4, AppendProperties
    <3>4. Len(data[n]) = sent[c] - 1
      BY <2>3 DEF Upto
    <3> QED BY <3>3, <3>4, <1>g DEF Given
  <2>6. Upto(c, sent[c])'
    BY <2>3, <2>5, <1>u DEF Upto
  <2>7. ~ServerHandles(c, "data")' /\ ~ServerHandles(c, "eof")'
    BY DEF ServerHandles
  <2> QED BY <2>1, <2>2, <2>6, <2>7, <1>u, Entries DEF DataOK, Holds
<1>4. ServerUp' => EndOK(c)'
  BY <1>f, <1>h, <1>u, <1>g, Entries
       DEF Given, TokenOK, ContextOK, ReceiveOK, EndOK, InHand, Early, Late,
           CmStates, Holds, Unresolved, Flushed, ServerUp
<1>5. FilesOK' /\ (Sound' => \A d \in Clients \ {c} : FilesKept(d))
  <2>1. \A m \in Names : m # n => data'[m] = data[m]
    BY <1>h, <1>g DEF TypeOK
  <2>2. FilesOK'
    BY <2>1, <1>h, <1>u, <1>g DEF FilesOK, Given
  <2>3. ASSUME Sound' PROVE \A d \in Clients \ {c} : FilesKept(d)
    <3>1. owner[n] = c
      BY <2>3, <1>s, <1>f, <1>h, <1>g DEF Given, DataOK
    <3> QED BY <2>1, <3>1, <1>u DEF FilesKept
  <2> QED BY <2>2, <2>3
<1>6. /\ cst[c] = "crashed" => cst'[c] = "crashed"
      /\ spc' = "died" => spc = "died" \/ cst[c] = "crashed"
  BY <1>u
<1> QED BY <1>g, <1>t, <1>e, <1>s, <1>1, <1>2, <1>3, <1>4, <1>5, <1>6, Together
     DEF Own

(* The server opens or writes the file of the client, or ends.             *)
LEMMA ServerOnDataOK ==
  ASSUME IInv, NEW c \in Clients, ServerOnData(c)
  PROVE  IInv' /\ (Spoiled => Spoiled')
<1>1. spc' = "failed" \/ spc' = "reply"
  BY DEF ServerOnData, OpenFile, WriteChunk, ServerDies
<1> QED BY <1>1, ServerFailsOK, OpenFileOK, WriteChunkOK

(* The token becomes READY when the file has what the buffer had.          *)
LEMMA ServerReadyOK ==
  ASSUME IInv, NEW c \in Clients, ServerReady(c)
  PROVE  IInv' /\ (Spoiled => Spoiled')
<1>g. TypeOK /\ Given(c)
  BY GivenOK
<1>h. sends[c] = 0
  BY <1>g DEF Given, TokenOK, ReceiveOK, Holds, InHand, Early, ServerReady,
           SendMessage
<1>u. /\ cm' = cm /\ writes' = writes /\ placed' = placed /\ cst' = cst
      /\ cpc' = cpc /\ ccq' = ccq /\ cack' = cack /\ cposted' = cposted
      /\ cmsg' = cmsg /\ sent' = sent /\ scq' = scq /\ sack' = sack
      /\ sctx' = sctx /\ buffer' = buffer /\ fname' = fname /\ fd' = fd
      /\ arg' = arg /\ swc' = swc /\ sop' = sop /\ fds' = fds
      /\ owner' = owner /\ data' = data
  BY <1>h DEF ServerReady, SendMessage, connVars, clientVars, pollerVars,
           ctxVars, fileVars
<1>f. /\ spc = "reply" /\ swc = c /\ sctx[c] = "live"
      /\ sposted' = [sposted EXCEPT ![c] = sposted[c] + 1]
      /\ smsg' = [smsg EXCEPT ![c] = "READY"]
      /\ sends' = [sends EXCEPT ![c] = 1] /\ spc' = "idle"
  BY <1>h, OneEntry DEF ServerReady, SendMessage
<1>p. /\ sposted'[c] = sposted[c] + 1 /\ smsg'[c] = "READY" /\ sends'[c] = 1
  BY <1>f, <1>g DEF TypeOK
<1>t. TypeOK'
  <2>1. sposted' \in [Clients -> Nat]
    BY <1>f, <1>g DEF TypeOK, Given
  <2>2. smsg' \in [Clients -> Messages]
    BY <1>f, <1>g DEF TypeOK, Messages
  <2>3. sends' \in [Clients -> Nat]
    BY <1>f, <1>g DEF TypeOK
  <2>4. spc' \in {"none", "idle", "handle", "reply", "failed", "died", "fault"}
    BY <1>f, <1>g DEF TypeOK
  <2> QED BY <2>1, <2>2, <2>3, <2>4, <1>u, <1>g DEF TypeOK
<1>e. Elsewhere(c)
  BY <1>f, <1>u, <1>g
       DEF TypeOK, Elsewhere, Kept, Same, InHand, ServerHandles, ServerUp
<1>1. TokenOK(c)' /\ HandOK'
  BY <1>f, <1>h, <1>p, <1>u, <1>g, Entries
       DEF Given, TokenOK, InHand, Early, HandOK, ServerHandles
<1>2. ContextOK(c)' /\ ReceiveOK(c)'
  BY <1>f, <1>h, <1>p, <1>u, <1>g, Entries
       DEF Given, TokenOK, ContextOK, ReceiveOK, InHand, Early, Holds, ServerUp
<1>s. (Spoiled => Spoiled') /\ (Sound' => Sound)
  <2>1. Spoils(c) => Spoils(c)'
    BY <1>f, <1>h, <1>p, <1>u, <1>g DEF Spoils, Given, ContextOK
  <2> QED BY <2>1, <1>g, <1>e, StaysSpoiled
<1>3. Sound' => DataOK(c)'
  BY <1>s, <1>f, <1>h, <1>p, <1>u, <1>g, Entries
       DEF Given, TokenOK, DataOK, Says, Carries, Brought, AtEnd,
           Naming, Upto, Holds, InHand, Early, ServerHandles, ServerUp
<1>4. ServerUp' => EndOK(c)'
  BY <1>f, <1>h, <1>p, <1>u, <1>g, Entries
       DEF Given, TokenOK, ContextOK, ReceiveOK, EndOK, InHand, Early, Late,
           CmStates, Holds, Unresolved, Flushed, ServerUp
<1>5. FilesOK' /\ \A d \in Clients \ {c} : FilesKept(d)
  BY <1>u, <1>g, FilesStay DEF Given, fileVars
<1>6. /\ cst[c] = "crashed" => cst'[c] = "crashed"
      /\ spc' = "died" => spc = "died" \/ cst[c] = "crashed"
  BY <1>f, <1>h, <1>p, <1>u, <1>g, Entries
       DEF Given, EndOK, Holds, ServerUp
<1> QED BY <1>g, <1>t, <1>e, <1>s, <1>1, <1>2, <1>3, <1>4, <1>5, <1>6, Together
     DEF Own

(* The token becomes DONE when the file has everything.                    *)
LEMMA ServerOnEofOK ==
  ASSUME IInv, NEW c \in Clients, ServerOnEof(c)
  PROVE  IInv' /\ (Spoiled => Spoiled')
<1>g. TypeOK /\ Given(c)
  BY GivenOK
<1>h. sends[c] = 0
  BY <1>g DEF Given, TokenOK, ReceiveOK, Holds, InHand, Early, ServerOnEof,
           SendMessage, ServerHandles
<1>u. /\ cm' = cm /\ writes' = writes /\ placed' = placed /\ cst' = cst
      /\ cpc' = cpc /\ ccq' = ccq /\ cack' = cack /\ cposted' = cposted
      /\ cmsg' = cmsg /\ sent' = sent /\ scq' = scq /\ sack' = sack
      /\ sposted' = sposted /\ sctx' = sctx /\ buffer' = buffer
      /\ fname' = fname /\ fd' = fd /\ arg' = arg /\ swc' = swc
      /\ sop' = sop /\ fds' = fds /\ owner' = owner /\ data' = data
  BY <1>h DEF ServerOnEof, SendMessage, ServerHandles, connVars, clientVars,
           pollerVars, ctxVars, fileVars
<1>f. /\ spc = "handle" /\ swc = c /\ sop = "eof" /\ sctx[c] = "live"
      /\ smsg' = [smsg EXCEPT ![c] = "DONE"]
      /\ sends' = [sends EXCEPT ![c] = 1] /\ spc' = "idle"
  BY <1>h, OneEntry DEF ServerOnEof, SendMessage, ServerHandles
<1>p. /\ smsg'[c] = "DONE" /\ sends'[c] = 1
  BY <1>f, <1>g DEF TypeOK
<1>t. TypeOK'
  <2>1. smsg' \in [Clients -> Messages]
    BY <1>f, <1>g DEF TypeOK, Messages
  <2>2. sends' \in [Clients -> Nat]
    BY <1>f, <1>g DEF TypeOK
  <2>3. spc' \in {"none", "idle", "handle", "reply", "failed", "died", "fault"}
    BY <1>f, <1>g DEF TypeOK
  <2> QED BY <2>1, <2>2, <2>3, <1>u, <1>g DEF TypeOK
<1>e. Elsewhere(c)
  BY <1>f, <1>u, <1>g
       DEF TypeOK, Elsewhere, Kept, Same, InHand, ServerHandles, ServerUp
<1>1. TokenOK(c)' /\ HandOK'
  BY <1>f, <1>h, <1>p, <1>u, <1>g, Entries
       DEF Given, TokenOK, InHand, Early, HandOK, ServerHandles
<1>2. ContextOK(c)' /\ ReceiveOK(c)'
  BY <1>f, <1>h, <1>p, <1>u, <1>g, Entries
       DEF Given, TokenOK, ContextOK, ReceiveOK, InHand, Early, Holds, ServerUp
<1>s. (Spoiled => Spoiled') /\ (Sound' => Sound)
  <2>1. Spoils(c) => Spoils(c)'
    BY <1>f, <1>h, <1>p, <1>u, <1>g DEF Spoils, Given, ContextOK
  <2> QED BY <2>1, <1>g, <1>e, StaysSpoiled
<1>3. Sound' => DataOK(c)'
  BY <1>s, <1>f, <1>h, <1>p, <1>u, <1>g, Entries
       DEF Given, TokenOK, DataOK, Says, Carries, Brought, AtEnd,
           Naming, Upto, Holds, InHand, Early, ServerHandles, ServerUp
<1>4. ServerUp' => EndOK(c)'
  BY <1>f, <1>h, <1>p, <1>u, <1>g, Entries
       DEF Given, TokenOK, ContextOK, ReceiveOK, EndOK, InHand, Early, Late,
           CmStates, Holds, Unresolved, Flushed, ServerUp
<1>5. FilesOK' /\ \A d \in Clients \ {c} : FilesKept(d)
  BY <1>u, <1>g, FilesStay DEF Given, fileVars
<1>6. /\ cst[c] = "crashed" => cst'[c] = "crashed"
      /\ spc' = "died" => spc = "died" \/ cst[c] = "crashed"
  BY <1>f, <1>h, <1>p, <1>u, <1>g, Entries
       DEF Given, EndOK, Holds, ServerUp
<1> QED BY <1>g, <1>t, <1>e, <1>s, <1>1, <1>2, <1>3, <1>4, <1>5, <1>6, Together
     DEF Own

(* The handler of such a completion does nothing.                          *)
LEMMA ServerOnSentOK ==
  ASSUME IInv, NEW c \in Clients, ServerOnSent(c)
  PROVE  IInv' /\ (Spoiled => Spoiled')
<1>g. TypeOK /\ Given(c)
  BY GivenOK
<1>u. /\ cm' = cm /\ writes' = writes /\ placed' = placed /\ sends' = sends
      /\ cst' = cst /\ cpc' = cpc /\ ccq' = ccq /\ cack' = cack
      /\ cposted' = cposted /\ cmsg' = cmsg /\ sent' = sent /\ scq' = scq
      /\ sack' = sack /\ sposted' = sposted /\ sctx' = sctx
      /\ buffer' = buffer /\ smsg' = smsg /\ fname' = fname /\ fd' = fd
      /\ arg' = arg /\ swc' = swc /\ sop' = sop /\ fds' = fds
      /\ owner' = owner /\ data' = data
  BY DEF ServerOnSent, ServerHandles, connVars, clientVars, pollerVars, ctxVars, fileVars
<1>f. spc = "handle" /\ spc' = "idle" /\ swc = c /\ sop = "sent"
  BY DEF ServerOnSent, ServerHandles
<1>t. TypeOK'
  BY <1>f, <1>u, <1>g DEF TypeOK, Given, CmStates, Messages
<1>e. Elsewhere(c)
  BY <1>f, <1>u, <1>g
       DEF TypeOK, Elsewhere, Kept, Same, InHand, ServerHandles, ServerUp
<1>1. TokenOK(c)' /\ HandOK'
  BY <1>f, <1>u, <1>g, Entries
       DEF Given, TokenOK, InHand, Early, HandOK, ServerHandles
<1>2. ContextOK(c)' /\ ReceiveOK(c)'
  BY <1>f, <1>u, <1>g, Entries
       DEF Given, TokenOK, ContextOK, ReceiveOK, InHand, Early, Holds, ServerUp
<1>s. (Spoiled => Spoiled') /\ (Sound' => Sound)
  <2>1. Spoils(c) => Spoils(c)'
    BY <1>f, <1>u, <1>g DEF Spoils, Given, ContextOK
  <2> QED BY <2>1, <1>g, <1>e, StaysSpoiled
<1>3. Sound' => DataOK(c)'
  BY <1>s, <1>f, <1>u, <1>g, Entries
       DEF Given, TokenOK, DataOK, Says, Carries, Brought, AtEnd, Naming, Upto,
           Holds, InHand, Early, ServerHandles, ServerUp
<1>4. ServerUp' => EndOK(c)'
  BY <1>f, <1>u, <1>g, Entries
       DEF Given, TokenOK, ContextOK, ReceiveOK, EndOK, InHand, Early, Late,
           CmStates, Holds, Unresolved, Flushed, ServerUp
<1>5. FilesOK' /\ \A d \in Clients \ {c} : FilesKept(d)
  BY <1>u, <1>g, FilesStay DEF Given, fileVars
<1>6. /\ cst[c] = "crashed" => cst'[c] = "crashed"
      /\ spc' = "died" => spc = "died" \/ cst[c] = "crashed"
  BY <1>f, <1>u, <1>g, Entries DEF Given, EndOK, Holds, ServerUp
<1> QED BY <1>g, <1>t, <1>e, <1>s, <1>1, <1>2, <1>3, <1>4, <1>5, <1>6, Together
     DEF Own

(* The server is caught out by a freed context only after a crash, and it  *)
(* breaks the promise by it; by a freed id it may end.                     *)
LEMMA ServerOnFreedOK ==
  ASSUME IInv, NEW c \in Clients, ServerOnFreed(c)
  PROVE  IInv' /\ (Spoiled => Spoiled')
<1>g. TypeOK /\ Given(c)
  BY GivenOK
<1>u. /\ cm' = cm /\ writes' = writes /\ placed' = placed /\ sends' = sends
      /\ cst' = cst /\ cpc' = cpc /\ ccq' = ccq /\ cack' = cack
      /\ cposted' = cposted /\ cmsg' = cmsg /\ sent' = sent /\ scq' = scq
      /\ sack' = sack /\ sposted' = sposted /\ buffer' = buffer
      /\ smsg' = smsg /\ fname' = fname /\ fd' = fd /\ arg' = arg
      /\ swc' = swc /\ sop' = sop /\ fds' = fds /\ owner' = owner
  BY DEF ServerOnFreed, ServerDies, connVars, clientVars, pollerVars, ctxVars, fileVars
<1>f. /\ spc \in {"handle", "reply"} /\ swc = c /\ sctx[c] # "live"
      /\ spc' \in {"fault", "idle"}
      /\ \/ /\ ServerHandles(c, "sent") /\ sctx' = sctx /\ data' = data
         \/ InHand(c) /\ sctx' = [sctx EXCEPT ![c] = "used"]
      /\ data' = data \/ \E g \in Fds : WriteTo(g, buffer[c])
  BY DEF ServerOnFreed, ServerDies, ServerHandles, InHand
<1>t. TypeOK'
  <2>1. sctx' \in [Clients -> {"none", "live", "freed", "used"}]
    BY <1>f, <1>g DEF TypeOK
  <2>2. data' \in [Names -> Seq((Clients \X (0..MaxChunks)) \cup {None})]
    <3>1. data \in [Names -> Seq((Clients \X (0..MaxChunks)) \cup {None})]
      BY <1>g DEF TypeOK
    <3>2. CASE data' = data
      BY <3>1, <3>2
    <3>3. ASSUME NEW g \in Fds, WriteTo(g, buffer[c])
          PROVE  data' \in [Names -> Seq((Clients \X (0..MaxChunks)) \cup {None})]
      <4>1. PICK n \in Names : data' = [data EXCEPT ![n] = Append(data[n], buffer[c])]
        BY <3>3, <1>g DEF WriteTo, TypeOK
      <4>2. Append(data[n], buffer[c]) \in Seq((Clients \X (0..MaxChunks)) \cup {None})
        BY <3>1, <1>g, AppendProperties DEF TypeOK
      <4> QED BY <3>1, <4>1, <4>2
    <3> QED BY <3>2, <3>3, <1>f
  <2>3. spc' \in {"none", "idle", "handle", "reply", "failed", "died", "fault"}
    BY <1>f
  <2> QED BY <2>1, <2>2, <2>3, <1>u, <1>g DEF TypeOK
<1>e. Elsewhere(c)
  <2>1. \A d \in Clients \ {c} : sctx'[d] = sctx[d]
    BY <1>f, <1>g DEF TypeOK
  <2> QED BY <2>1, <1>f, <1>u
       DEF Elsewhere, Kept, Same, InHand, ServerHandles, ServerUp
<1>1. TokenOK(c)' /\ HandOK'
  BY <1>f, <1>u, <1>g, Entries
       DEF Given, TokenOK, InHand, Early, HandOK, ServerHandles
<1>2. ContextOK(c)' /\ ReceiveOK(c)'
  <2>1. ReceiveOK(c)'
    BY <1>u, <1>g DEF Given, ReceiveOK, Holds
  <2>2. cm[c] = "disconnected"
    BY <1>f, <1>g DEF Given, TokenOK, ContextOK, Early, CmStates
  <2>3. sctx'[c] \in {"freed", "used"}
    BY <2>2, <1>f, <1>g DEF Given, ContextOK, TypeOK
  <2> QED BY <2>1, <2>2, <2>3, <1>u DEF ContextOK
<1>s. (Spoiled => Spoiled') /\ (Sound' => Sound)
  <2>1. Spoils(c) => Spoils(c)'
    BY <1>f, <1>u, <1>g DEF Spoils, TypeOK
  <2> QED BY <2>1, <1>g, <1>e, StaysSpoiled
<1>x. Sound' => ServerHandles(c, "sent") /\ sctx' = sctx /\ data' = data
  <2> SUFFICES ASSUME Sound', InHand(c), sctx' = [sctx EXCEPT ![c] = "used"]
               PROVE  FALSE
    BY <1>f
  <2>1. EndOK(c) /\ cmsg[c] # "DONE" /\ cm[c] = "disconnected"
    BY <1>f, <1>s, <1>g DEF Given, TokenOK, ContextOK, Early, CmStates, Sound
  <2>2. cst'[c] = "crashed" /\ sctx'[c] = "used"
    BY <2>1, <1>u, <1>g DEF EndOK, Late, TypeOK
  <2> QED BY <2>2 DEF Sound, Spoiled, Spoils
<1>3. Sound' => DataOK(c)'
  <2> SUFFICES ASSUME Sound' PROVE DataOK(c)'
    OBVIOUS
  <2>1. DataOK(c)
    BY <1>s, <1>g DEF Given
  <2>2. ServerHandles(c, "sent") /\ sctx' = sctx /\ data' = data
    BY <1>x
  <2>3. \A k : Upto(c, k)' <=> Upto(c, k)
    BY <2>2, <1>u DEF Upto
  <2>4. /\ Naming(c)' <=> Naming(c)
        /\ \A h : Carries(c, h)' <=> Carries(c, h)
        /\ \A m : Says(c, m)' <=> Says(c, m)
        /\ AtEnd(c)' <=> AtEnd(c)
        /\ Brought(c)' <=> Brought(c)
    BY <2>3, <1>u DEF Naming, AtEnd, Carries, Says, Brought
  <2> QED BY <2>1, <2>2, <2>3, <2>4, <1>f, <1>u DEF DataOK, Holds, ServerHandles
<1>4. ServerUp' => EndOK(c)'
  BY <1>f, <1>u, <1>g DEF Given, EndOK, Holds, Unresolved, Flushed, ServerUp
<1>5. FilesOK' /\ (Sound' => \A d \in Clients \ {c} : FilesKept(d))
  <2>1. FilesOK'
    <3>1. ASSUME NEW g \in Fds, WriteTo(g, buffer[c]) PROVE FilesOK'
      <4>1. PICK n \in Names :
              owner[n] # None /\ data' = [data EXCEPT ![n] = Append(data[n], buffer[c])]
        BY <3>1, <1>g DEF WriteTo, TypeOK, FilesOK, Given
      <4>2. \A m \in Names : m # n => data'[m] = data[m]
        BY <4>1, <1>g DEF TypeOK
      <4> QED BY <4>1, <4>2, <1>u, <1>g DEF FilesOK, Given
    <3>2. CASE data' = data
      BY <3>2, <1>u, <1>g DEF FilesOK, Given
    <3> QED BY <3>1, <3>2, <1>f
  <2>2. Sound' => \A d \in Clients \ {c} : FilesKept(d)
    BY <1>x, <1>u DEF FilesKept
  <2> QED BY <2>1, <2>2
<1>6. /\ cst[c] = "crashed" => cst'[c] = "crashed"
      /\ spc' = "died" => spc = "died" \/ cst[c] = "crashed"
  BY <1>f, <1>u
<1> QED BY <1>g, <1>t, <1>e, <1>s, <1>1, <1>2, <1>3, <1>4, <1>5, <1>6, Together
     DEF Own

(* The connection of a client that is gone ends.                           *)
LEMMA CmClientGoneOK ==
  ASSUME IInv, NEW c \in Clients, CmClientGone(c)
  PROVE  IInv' /\ (Spoiled => Spoiled')
<1>g. TypeOK /\ Given(c)
  BY GivenOK
<1>u. /\ writes' = writes /\ placed' = placed /\ sends' = sends
      /\ cst' = cst /\ cpc' = cpc /\ ccq' = ccq /\ cack' = cack
      /\ cposted' = cposted /\ cmsg' = cmsg /\ sent' = sent /\ scq' = scq
      /\ sack' = sack /\ sposted' = sposted /\ sctx' = sctx
      /\ buffer' = buffer /\ smsg' = smsg /\ fname' = fname /\ fd' = fd
      /\ arg' = arg /\ spc' = spc /\ swc' = swc /\ sop' = sop /\ fds' = fds
      /\ owner' = owner /\ data' = data
  BY DEF CmClientGone, Connection, connVars, clientVars, pollerVars, ctxVars,
           fileVars
<1>f. /\ cst[c] \in {"crashed", "died"}
      /\ \/ /\ cm[c] \in {"requested", "accepted"}
            /\ cm' = [cm EXCEPT ![c] = "rejected"]
         \/ cm[c] = "connected" /\ cm' = [cm EXCEPT ![c] = "disconnecting"]
  BY DEF CmClientGone, Connection
<1>p. /\ (\/ cm[c] \in {"requested", "accepted"} /\ cm'[c] = "rejected"
          \/ cm[c] = "connected" /\ cm'[c] = "disconnecting")
  BY <1>f, <1>g DEF TypeOK
<1>t. TypeOK'
  BY <1>f, <1>u, <1>g DEF TypeOK, Given, CmStates, Messages
<1>e. Elsewhere(c)
  BY <1>f, <1>u, <1>g
       DEF TypeOK, Elsewhere, Kept, Same, InHand, ServerHandles, ServerUp
<1>1. TokenOK(c)' /\ HandOK'
  BY <1>f, <1>p, <1>u, <1>g, Entries DEF Given, TokenOK, InHand, Early, HandOK, ServerHandles
<1>2. ContextOK(c)' /\ ReceiveOK(c)'
  BY <1>f, <1>p, <1>u, <1>g, Entries
       DEF Given, TokenOK, ContextOK, ReceiveOK, InHand, Early, Holds, ServerUp
<1>s. (Spoiled => Spoiled') /\ (Sound' => Sound)
  <2>1. Spoils(c) => Spoils(c)'
    BY <1>f, <1>p, <1>u, <1>g DEF Spoils, Given, ContextOK
  <2> QED BY <2>1, <1>g, <1>e, StaysSpoiled
<1>3. Sound' => DataOK(c)'
  BY <1>s, <1>f, <1>p, <1>u, <1>g, Entries
       DEF Given, TokenOK, DataOK, Says, Carries, Brought, AtEnd,
           Naming, Upto, Holds, InHand, Early, ServerHandles, ServerUp
<1>4. ServerUp' => EndOK(c)'
  BY <1>f, <1>p, <1>u, <1>g, Entries
       DEF Given, TokenOK, ContextOK, ReceiveOK, EndOK, InHand, Early, Late,
           CmStates, Holds, Unresolved, Flushed, ServerUp
<1>5. FilesOK' /\ \A d \in Clients \ {c} : FilesKept(d)
  BY <1>u, <1>g, FilesStay DEF Given, fileVars
<1>6. /\ cst[c] = "crashed" => cst'[c] = "crashed"
      /\ spc' = "died" => spc = "died" \/ cst[c] = "crashed"
  BY <1>f, <1>p, <1>u, <1>g, Entries
       DEF Given, EndOK, Holds, ServerUp
<1> QED BY <1>g, <1>t, <1>e, <1>s, <1>1, <1>2, <1>3, <1>4, <1>5, <1>6, Together
     DEF Own

(* Nothing waits in the buffer that a write is placed into.                *)
LEMMA PlaceWriteOK ==
  ASSUME IInv, NEW c \in Clients, PlaceWrite(c)
  PROVE  IInv' /\ (Spoiled => Spoiled')
<1>g. TypeOK /\ Given(c)
  BY GivenOK
<1>h. PICK h \in 0..MaxChunks + 1 : writes[c] = <<h>>
  BY <1>g DEF Given, TokenOK, PlaceWrite
<1>u. /\ cm' = cm /\ writes' = writes /\ sends' = sends /\ cst' = cst
      /\ cpc' = cpc /\ ccq' = ccq /\ cack' = cack /\ cposted' = cposted
      /\ cmsg' = cmsg /\ sent' = sent /\ scq' = scq /\ sack' = sack
      /\ sposted' = sposted /\ sctx' = sctx /\ smsg' = smsg
      /\ fname' = fname /\ fd' = fd /\ arg' = arg /\ spc' = spc
      /\ swc' = swc /\ sop' = sop /\ fds' = fds /\ owner' = owner
      /\ data' = data
  BY <1>h DEF PlaceWrite, QpsLive, Running, connVars, clientVars, pollerVars,
           ctxVars, fileVars
<1>f. /\ ServerUp /\ cst[c] = "running" /\ sctx[c] = "live"
      /\ writes[c] # << >> /\ placed' = [placed EXCEPT ![c] = TRUE]
      /\ buffer' = IF h > arg[c].size THEN buffer ELSE [buffer EXCEPT ![c] = <<c, h>>]
  BY <1>h, OneEntry DEF PlaceWrite, QpsLive, Running
<1>p. /\ placed'[c] = TRUE /\ (h <= arg[c].size => buffer'[c] = <<c, h>>)
      /\ (h > arg[c].size => buffer'[c] = buffer[c])
  BY <1>f, <1>g DEF TypeOK, Given
<1>t. TypeOK'
  <2>1. placed' \in [Clients -> BOOLEAN]
    BY <1>f, <1>g DEF TypeOK
  <2>2. buffer' \in [Clients -> (Clients \X (0..MaxChunks)) \cup {None}]
    <3>1. ~(h > arg[c].size) => <<c, h>> \in Clients \X (0..MaxChunks)
      BY <1>g DEF Given
    <3> QED BY <3>1, <1>f, <1>g DEF TypeOK
  <2> QED BY <2>1, <2>2, <1>u, <1>g DEF TypeOK
<1>e. Elsewhere(c)
  BY <1>f, <1>u, <1>g
       DEF TypeOK, Elsewhere, Kept, Same, InHand, ServerHandles, ServerUp
<1>1. TokenOK(c)' /\ HandOK'
  BY <1>f, <1>h, <1>p, <1>u, <1>g, Entries
       DEF Given, TokenOK, InHand, Early, HandOK, ServerHandles
<1>2. ContextOK(c)' /\ ReceiveOK(c)'
  BY <1>f, <1>h, <1>p, <1>u, <1>g, Entries
       DEF Given, TokenOK, ContextOK, ReceiveOK, InHand, Early, Holds, ServerUp
<1>s. (Spoiled => Spoiled') /\ (Sound' => Sound)
  <2>1. Spoils(c) => Spoils(c)'
    BY <1>f, <1>h, <1>p, <1>u, <1>g DEF Spoils, Given, ContextOK
  <2> QED BY <2>1, <1>g, <1>e, StaysSpoiled
<1>3. Sound' => DataOK(c)'
  <2> SUFFICES ASSUME Sound' PROVE DataOK(c)'
      OBVIOUS
  <2>1. DataOK(c)
    BY <1>s, <1>g DEF Given
  <2>2. /\ sends'[c] = 0 /\ ccq'[c] = << >> /\ cpc'[c] # "handle"
        /\ scq'[c] = << >> /\ ~InHand(c)'
      BY <1>f, <1>h, <1>p, <1>u, <1>g, Entries DEF Given, TokenOK, InHand
  <2>3. \A k : Upto(c, k)' <=> Upto(c, k)
      BY <2>1, <1>f, <1>u DEF Upto
  <2>4. /\ Naming(c)' <=> Naming(c)
        /\ \A i : Carries(c, i)' <=> Carries(c, i)
      BY <2>3, <1>u DEF Naming, AtEnd, Carries
  <2> QED BY <1>h, <1>p, <1>u, <2>1, <2>2, <2>3, <2>4, OneEntry, Entries
           DEF DataOK, Holds, Early, InHand, ServerHandles, Says
<1>4. ServerUp' => EndOK(c)'
  BY <1>f, <1>h, <1>p, <1>u, <1>g, Entries
       DEF Given, TokenOK, ContextOK, ReceiveOK, EndOK, InHand, Early, Late,
           CmStates, Holds, Unresolved, Flushed, ServerUp
<1>5. FilesOK' /\ \A d \in Clients \ {c} : FilesKept(d)
  BY <1>u, <1>g, FilesStay DEF Given, fileVars
<1>6. /\ cst[c] = "crashed" => cst'[c] = "crashed"
      /\ spc' = "died" => spc = "died" \/ cst[c] = "crashed"
  BY <1>f, <1>h, <1>p, <1>u, <1>g, Entries
       DEF Given, EndOK, Holds, ServerUp
<1> QED BY <1>g, <1>t, <1>e, <1>s, <1>1, <1>2, <1>3, <1>4, <1>5, <1>6, Together
     DEF Own

(* The token goes from the write into the queue of the server.             *)
LEMMA DeliverWriteOK ==
  ASSUME IInv, NEW c \in Clients, DeliverWrite(c)
  PROVE  IInv' /\ (Spoiled => Spoiled')
<1>g. TypeOK /\ Given(c)
  BY GivenOK
<1>h. PICK h \in 0..MaxChunks + 1 : writes[c] = <<h>>
  BY <1>g DEF Given, TokenOK, DeliverWrite, QpsLive
<1>i. scq[c] = << >>
  BY <1>h, <1>g, OneEntry DEF Given, TokenOK
<1>u. /\ cm' = cm /\ sends' = sends /\ cst' = cst /\ cpc' = cpc
      /\ ccq' = ccq /\ cposted' = cposted /\ cmsg' = cmsg /\ sent' = sent
      /\ sack' = sack /\ sctx' = sctx /\ buffer' = buffer /\ smsg' = smsg
      /\ fname' = fname /\ fd' = fd /\ arg' = arg /\ spc' = spc
      /\ swc' = swc /\ sop' = sop /\ fds' = fds /\ owner' = owner
      /\ data' = data
  BY <1>h DEF DeliverWrite, QpsLive, Running, connVars, clientVars,
           pollerVars, ctxVars, fileVars
<1>f. /\ ServerUp /\ cst[c] = "running" /\ sctx[c] = "live" /\ placed[c]
      /\ sposted[c] > 0 /\ writes[c] # << >>
      /\ placed' = [placed EXCEPT ![c] = FALSE]
      /\ writes' = [writes EXCEPT ![c] = << >>]
      /\ sposted' = [sposted EXCEPT ![c] = sposted[c] - 1]
      /\ cack' = [cack EXCEPT ![c] = TRUE]
      /\ scq' = [scq EXCEPT ![c] = IF h > arg[c].size THEN <<"eof">> ELSE <<"data">>]
  <2>1. Head(writes[c]) = h /\ Tail(writes[c]) = << >>
    BY <1>h, OneEntry
  <2>2. Append(scq[c], IF h > arg[c].size THEN "eof" ELSE "data")
          = IF h > arg[c].size THEN <<"eof">> ELSE <<"data">>
    BY <1>i, OneEntry
  <2> QED BY <2>1, <2>2, <1>h, <1>i, OneEntry
       DEF DeliverWrite, QpsLive, Running
<1>p. /\ placed'[c] = FALSE /\ writes'[c] = << >>
      /\ sposted'[c] = sposted[c] - 1
      /\ scq'[c] = IF h > arg[c].size THEN <<"eof">> ELSE <<"data">>
  BY <1>f, <1>g DEF TypeOK
<1>t. TypeOK'
  <2>1. writes' \in [Clients -> Seq(0..MaxChunks + 1)]
    BY <1>f, <1>g, EntryTypes DEF TypeOK
  <2>2. placed' \in [Clients -> BOOLEAN] /\ cack' \in [Clients -> BOOLEAN]
    BY <1>f, <1>g DEF TypeOK
  <2>3. sposted' \in [Clients -> Nat]
    <3>1. sposted \in [Clients -> Nat]
      BY <1>g DEF TypeOK
    <3>2. sposted[c] - 1 \in Nat
      BY <3>1, <1>f
    <3> QED BY <3>1, <3>2, <1>f
  <2>4. scq' \in [Clients -> Seq({"data", "eof", "failed"})]
    BY <1>f, <1>g, EntryTypes DEF TypeOK
  <2> QED BY <2>1, <2>2, <2>3, <2>4, <1>u, <1>g DEF TypeOK
<1>e. Elsewhere(c)
  BY <1>f, <1>u, <1>g
       DEF TypeOK, Elsewhere, Kept, Same, InHand, ServerHandles, ServerUp
<1>1. TokenOK(c)' /\ HandOK'
  BY <1>f, <1>h, <1>p, <1>u, <1>g, Entries
       DEF Given, TokenOK, InHand, Early, HandOK, ServerHandles
<1>2. ContextOK(c)' /\ ReceiveOK(c)'
  BY <1>f, <1>h, <1>p, <1>u, <1>g, Entries
       DEF Given, TokenOK, ContextOK, ReceiveOK, InHand, Early, Holds, ServerUp
<1>s. (Spoiled => Spoiled') /\ (Sound' => Sound)
  <2>1. Spoils(c) => Spoils(c)'
    BY <1>f, <1>h, <1>p, <1>u, <1>g DEF Spoils, Given, ContextOK
  <2> QED BY <2>1, <1>g, <1>e, StaysSpoiled
<1>3. Sound' => DataOK(c)'
  BY <1>s, <1>f, <1>h, <1>p, <1>u, <1>g, Entries
       DEF Given, TokenOK, DataOK, Says, Carries, Brought, AtEnd,
           Naming, Upto, Holds, InHand, Early, ServerHandles, ServerUp
<1>4. ServerUp' => EndOK(c)'
  BY <1>f, <1>h, <1>p, <1>u, <1>g, Entries
       DEF Given, TokenOK, ContextOK, ReceiveOK, EndOK, InHand, Early, Late,
           CmStates, Holds, Unresolved, Flushed, ServerUp
<1>5. FilesOK' /\ \A d \in Clients \ {c} : FilesKept(d)
  BY <1>u, <1>g, FilesStay DEF Given, fileVars
<1>6. /\ cst[c] = "crashed" => cst'[c] = "crashed"
      /\ spc' = "died" => spc = "died" \/ cst[c] = "crashed"
  BY <1>f, <1>h, <1>p, <1>u, <1>g, Entries
       DEF Given, EndOK, Holds, ServerUp
<1> QED BY <1>g, <1>t, <1>e, <1>s, <1>1, <1>2, <1>3, <1>4, <1>5, <1>6, Together
     DEF Own

(* A write fails only when the server has ended.                           *)
LEMMA FailWriteOK ==
  ASSUME IInv, NEW c \in Clients, FailWrite(c)
  PROVE  IInv' /\ (Spoiled => Spoiled')
<1>g. TypeOK /\ Given(c)
  BY GivenOK
<1>h. PICK h \in 0..MaxChunks + 1 : writes[c] = <<h>>
  BY <1>g DEF Given, TokenOK, FailWrite
<1>i. ccq[c] = << >>
  BY <1>h, <1>g, OneEntry DEF Given, TokenOK
<1>u. /\ cm' = cm /\ sends' = sends /\ cst' = cst /\ cpc' = cpc
      /\ cack' = cack /\ cposted' = cposted /\ cmsg' = cmsg /\ sent' = sent
      /\ scq' = scq /\ sack' = sack /\ sposted' = sposted /\ sctx' = sctx
      /\ buffer' = buffer /\ smsg' = smsg /\ fname' = fname /\ fd' = fd
      /\ arg' = arg /\ spc' = spc /\ swc' = swc /\ sop' = sop /\ fds' = fds
      /\ owner' = owner /\ data' = data
  BY <1>h DEF FailWrite, Running, connVars, clientVars, pollerVars, ctxVars,
           fileVars
<1>f. /\ cst[c] = "running" /\ ~ServerUp /\ writes[c] # << >>
      /\ placed' = [placed EXCEPT ![c] = FALSE]
      /\ writes' = [writes EXCEPT ![c] = << >>]
      /\ ccq' = [ccq EXCEPT ![c] = <<"failed">>]
  BY <1>h, <1>i, OneEntry DEF FailWrite, Running
<1>p. /\ placed'[c] = FALSE /\ writes'[c] = << >> /\ ccq'[c] = <<"failed">>
  BY <1>f, <1>g DEF TypeOK
<1>t. TypeOK'
  <2>1. writes' \in [Clients -> Seq(0..MaxChunks + 1)]
    BY <1>f, <1>g, EntryTypes DEF TypeOK
  <2>2. placed' \in [Clients -> BOOLEAN]
    BY <1>f, <1>g DEF TypeOK
  <2>3. ccq' \in [Clients -> Seq({"recv", "failed"})]
    BY <1>f, <1>g, EntryTypes DEF TypeOK
  <2> QED BY <2>1, <2>2, <2>3, <1>u, <1>g DEF TypeOK
<1>e. Elsewhere(c)
  BY <1>f, <1>u, <1>g
       DEF TypeOK, Elsewhere, Kept, Same, InHand, ServerHandles, ServerUp
<1>1. TokenOK(c)' /\ HandOK'
  BY <1>f, <1>h, <1>p, <1>u, <1>g, Entries
       DEF Given, TokenOK, InHand, Early, HandOK, ServerHandles
<1>2. ContextOK(c)' /\ ReceiveOK(c)'
  BY <1>f, <1>h, <1>p, <1>u, <1>g, Entries
       DEF Given, TokenOK, ContextOK, ReceiveOK, InHand, Early, Holds, ServerUp
<1>s. (Spoiled => Spoiled') /\ (Sound' => Sound)
  <2>1. Spoils(c) => Spoils(c)'
    BY <1>f, <1>h, <1>p, <1>u, <1>g DEF Spoils, Given, ContextOK
  <2> QED BY <2>1, <1>g, <1>e, StaysSpoiled
<1>3. Sound' => DataOK(c)'
  BY <1>s, <1>f, <1>h, <1>p, <1>u, <1>g, Entries
       DEF Given, TokenOK, DataOK, Says, Carries, Brought, AtEnd,
           Naming, Upto, Holds, InHand, Early, ServerHandles, ServerUp
<1>4. ServerUp' => EndOK(c)'
  BY <1>f, <1>h, <1>p, <1>u, <1>g, Entries
       DEF Given, TokenOK, ContextOK, ReceiveOK, EndOK, InHand, Early, Late,
           CmStates, Holds, Unresolved, Flushed, ServerUp
<1>5. FilesOK' /\ \A d \in Clients \ {c} : FilesKept(d)
  BY <1>u, <1>g, FilesStay DEF Given, fileVars
<1>6. /\ cst[c] = "crashed" => cst'[c] = "crashed"
      /\ spc' = "died" => spc = "died" \/ cst[c] = "crashed"
  BY <1>f, <1>h, <1>p, <1>u, <1>g, Entries
       DEF Given, EndOK, Holds, ServerUp
<1> QED BY <1>g, <1>t, <1>e, <1>s, <1>1, <1>2, <1>3, <1>4, <1>5, <1>6, Together
     DEF Own

(* The token goes from the message into the queue of the client.           *)
LEMMA DeliverMessageOK ==
  ASSUME IInv, NEW c \in Clients, DeliverMessage(c)
  PROVE  IInv' /\ (Spoiled => Spoiled')
<1>g. TypeOK /\ Given(c)
  BY GivenOK
<1>h. sends[c] = 1 /\ cposted[c] = 1 /\ ccq[c] = << >>
  BY <1>g DEF Given, TokenOK, ReceiveOK, Holds, InHand, Early, DeliverMessage,
           QpsLive, Running
<1>u. /\ cm' = cm /\ writes' = writes /\ placed' = placed /\ cst' = cst
      /\ cpc' = cpc /\ cack' = cack /\ sent' = sent /\ scq' = scq
      /\ sposted' = sposted /\ sctx' = sctx /\ buffer' = buffer
      /\ smsg' = smsg /\ fname' = fname /\ fd' = fd /\ arg' = arg
      /\ spc' = spc /\ swc' = swc /\ sop' = sop /\ fds' = fds
      /\ owner' = owner /\ data' = data
  BY <1>h DEF DeliverMessage, QpsLive, Running, connVars, clientVars,
           pollerVars, ctxVars, fileVars
<1>f. /\ ServerUp /\ cst[c] = "running" /\ sctx[c] = "live" /\ sends[c] = 1
      /\ cposted[c] = 1 /\ sends' = [sends EXCEPT ![c] = 0]
      /\ cposted' = [cposted EXCEPT ![c] = 0]
      /\ cmsg' = [cmsg EXCEPT ![c] = smsg[c]]
      /\ sack' = [sack EXCEPT ![c] = TRUE]
      /\ ccq' = [ccq EXCEPT ![c] = <<"recv">>]
  BY <1>h, OneEntry DEF DeliverMessage, QpsLive, Running
<1>p. /\ sends'[c] = 0 /\ cposted'[c] = 0 /\ cmsg'[c] = smsg[c]
      /\ ccq'[c] = <<"recv">>
  BY <1>f, <1>g DEF TypeOK
<1>t. TypeOK'
  <2>1. sends' \in [Clients -> Nat]
    BY <1>f, <1>g DEF TypeOK
  <2>2. cposted' \in [Clients -> Nat]
    BY <1>f, <1>g DEF TypeOK
  <2>3. cmsg' \in [Clients -> Messages]
    BY <1>f, <1>g DEF TypeOK, Messages
  <2>5. sack' \in [Clients -> BOOLEAN]
    BY <1>f, <1>g DEF TypeOK
  <2>4. ccq' \in [Clients -> Seq({"recv", "failed"})]
    BY <1>f, <1>g, EntryTypes DEF TypeOK
  <2> QED BY <2>1, <2>2, <2>3, <2>4, <2>5, <1>u, <1>g DEF TypeOK
<1>e. Elsewhere(c)
  BY <1>f, <1>u, <1>g
       DEF TypeOK, Elsewhere, Kept, Same, InHand, ServerHandles, ServerUp
<1>1. TokenOK(c)' /\ HandOK'
  BY <1>f, <1>h, <1>p, <1>u, <1>g, Entries
       DEF Given, TokenOK, InHand, Early, HandOK, ServerHandles
<1>2. ContextOK(c)' /\ ReceiveOK(c)'
  BY <1>f, <1>h, <1>p, <1>u, <1>g, Entries
       DEF Given, TokenOK, ContextOK, ReceiveOK, InHand, Early, Holds, ServerUp
<1>s. (Spoiled => Spoiled') /\ (Sound' => Sound)
  <2>1. Spoils(c) => Spoils(c)'
    BY <1>f, <1>h, <1>p, <1>u, <1>g DEF Spoils, Given, ContextOK
  <2> QED BY <2>1, <1>g, <1>e, StaysSpoiled
<1>3. Sound' => DataOK(c)'
  <2> SUFFICES ASSUME Sound' PROVE DataOK(c)'
    OBVIOUS
  <2>1. DataOK(c)
    BY <1>s, <1>g DEF Given
  <2>2. writes[c] = << >> /\ scq[c] = << >> /\ ~InHand(c)
    <3>1. TokenOK(c) /\ sends[c] = 1
      BY <1>h, <1>g DEF Given
    <3> QED BY <3>1 DEF TokenOK
  <2>3. \A k : Upto(c, k)' <=> Upto(c, k)
    BY <1>u DEF Upto
  <2>4. Says(c, smsg[c])
    BY <2>1, <1>h DEF DataOK
  <2>5. Says(c, cmsg[c])'
    BY <2>3, <2>4, <1>p, <1>u DEF Says, Naming
  <2>6. cmsg'[c] = "DONE" => fname'[c] # None
    BY <2>4, <1>p, <1>u, <1>g, FileTransferAssumption DEF Says, Upto, Given
  <2>7. ~placed[c] /\ ~ServerHandles(c, "data") /\ ~ServerHandles(c, "eof")
        /\ ~(spc = "reply" /\ swc = c)
    BY <2>2, <1>g DEF Given, TokenOK, InHand, ServerHandles
  <2> QED BY <2>1, <2>2, <2>5, <2>6, <2>7, <1>p, <1>u, Entries
         DEF DataOK, Holds, ServerHandles
<1>4. ServerUp' => EndOK(c)'
  BY <1>f, <1>h, <1>p, <1>u, <1>g, Entries
       DEF Given, TokenOK, ContextOK, ReceiveOK, EndOK, InHand, Early, Late,
           CmStates, Holds, Unresolved, Flushed, ServerUp
<1>5. FilesOK' /\ \A d \in Clients \ {c} : FilesKept(d)
  BY <1>u, <1>g, FilesStay DEF Given, fileVars
<1>6. /\ cst[c] = "crashed" => cst'[c] = "crashed"
      /\ spc' = "died" => spc = "died" \/ cst[c] = "crashed"
  BY <1>f, <1>h, <1>p, <1>u, <1>g, Entries
       DEF Given, EndOK, Holds, ServerUp
<1> QED BY <1>g, <1>t, <1>e, <1>s, <1>1, <1>2, <1>3, <1>4, <1>5, <1>6, Together
     DEF Own

(* A message fails only when its client is gone.                           *)
LEMMA FailMessageOK ==
  ASSUME IInv, NEW c \in Clients, FailMessage(c)
  PROVE  IInv' /\ (Spoiled => Spoiled')
<1>g. TypeOK /\ Given(c)
  BY GivenOK
<1>h. sends[c] = 1 /\ scq[c] = << >>
  BY <1>g DEF Given, TokenOK, ReceiveOK, Holds, InHand, Early, FailMessage
<1>u. /\ cm' = cm /\ writes' = writes /\ placed' = placed /\ cst' = cst
      /\ cpc' = cpc /\ ccq' = ccq /\ cack' = cack /\ cposted' = cposted
      /\ cmsg' = cmsg /\ sent' = sent /\ sack' = sack /\ sposted' = sposted
      /\ sctx' = sctx /\ buffer' = buffer /\ smsg' = smsg /\ fname' = fname
      /\ fd' = fd /\ arg' = arg /\ spc' = spc /\ swc' = swc /\ sop' = sop
      /\ fds' = fds /\ owner' = owner /\ data' = data
  BY <1>h DEF FailMessage, connVars, clientVars, pollerVars, ctxVars, fileVars
<1>f. /\ ServerUp /\ sctx[c] = "live"
      /\ cst[c] \notin {"idle", "running"} /\ sends[c] = 1
      /\ sends' = [sends EXCEPT ![c] = 0]
      /\ scq' = [scq EXCEPT ![c] = <<"failed">>]
  BY <1>h, OneEntry DEF FailMessage
<1>p. /\ sends'[c] = 0 /\ scq'[c] = <<"failed">>
  BY <1>f, <1>g DEF TypeOK
<1>t. TypeOK'
  <2>1. sends' \in [Clients -> Nat]
    BY <1>f, <1>g DEF TypeOK
  <2>2. scq' \in [Clients -> Seq({"data", "eof", "failed"})]
    BY <1>f, <1>g, EntryTypes DEF TypeOK
  <2> QED BY <2>1, <2>2, <1>u, <1>g DEF TypeOK
<1>e. Elsewhere(c)
  BY <1>f, <1>u, <1>g
       DEF TypeOK, Elsewhere, Kept, Same, InHand, ServerHandles, ServerUp
<1>1. TokenOK(c)' /\ HandOK'
  BY <1>f, <1>h, <1>p, <1>u, <1>g, Entries
       DEF Given, TokenOK, InHand, Early, HandOK, ServerHandles
<1>2. ContextOK(c)' /\ ReceiveOK(c)'
  BY <1>f, <1>h, <1>p, <1>u, <1>g, Entries
       DEF Given, TokenOK, ContextOK, ReceiveOK, InHand, Early, Holds, ServerUp
<1>s. (Spoiled => Spoiled') /\ (Sound' => Sound)
  <2>1. Spoils(c) => Spoils(c)'
    BY <1>f, <1>h, <1>p, <1>u, <1>g DEF Spoils, Given, ContextOK
  <2> QED BY <2>1, <1>g, <1>e, StaysSpoiled
<1>3. Sound' => DataOK(c)'
  BY <1>s, <1>f, <1>h, <1>p, <1>u, <1>g, Entries
       DEF Given, TokenOK, DataOK, Says, Carries, Brought, AtEnd,
           Naming, Upto, Holds, InHand, Early, ServerHandles, ServerUp
<1>4. ServerUp' => EndOK(c)'
  <2>1. EndOK(c) /\ cm[c] \notin Early /\ cmsg[c] # "DONE" /\ cm[c] # "disconnected"
    BY <1>f, <1>g DEF Given, TokenOK, ContextOK
  <2>2. cst[c] \in {"exited", "died", "crashed", "fault"}
    BY <1>f, <1>g DEF TypeOK
  <2>3. cst[c] = "crashed"
    BY <2>1, <2>2, <1>f, <1>g
         DEF Given, ContextOK, EndOK, Unresolved, Flushed, Early
  <2> QED BY <2>1, <2>3, <1>p, <1>u DEF EndOK, Holds, Unresolved, Flushed
<1>5. FilesOK' /\ \A d \in Clients \ {c} : FilesKept(d)
  BY <1>u, <1>g, FilesStay DEF Given, fileVars
<1>6. /\ cst[c] = "crashed" => cst'[c] = "crashed"
      /\ spc' = "died" => spc = "died" \/ cst[c] = "crashed"
  BY <1>f, <1>h, <1>p, <1>u, <1>g, Entries
       DEF Given, EndOK, Holds, ServerUp
<1> QED BY <1>g, <1>t, <1>e, <1>s, <1>1, <1>2, <1>3, <1>4, <1>5, <1>6, Together
     DEF Own
-----------------------------------------------------------------------------
(* Nobody has a token, a context or a file at the start.                   *)
LEMMA InitInv == Init => IInv
<1> SUFFICES ASSUME Init PROVE IInv
  OBVIOUS
<1> USE FileTransferAssumption
<1>1. TypeOK
  BY DEF Init, TypeOK, CmStates, Messages
<1>2. HandOK /\ DeathOK /\ FilesOK
  BY DEF Init, HandOK, DeathOK, FilesOK
<1>3. ASSUME NEW c \in Clients
      PROVE  TokenOK(c) /\ ContextOK(c) /\ ReceiveOK(c) /\ EndOK(c) /\ DataOK(c)
  <2>1. TokenOK(c) /\ ContextOK(c) /\ ReceiveOK(c) /\ EndOK(c)
    BY Entries DEF Init, TokenOK, ContextOK, ReceiveOK, EndOK, InHand, Early,
             Late, Holds, ServerHandles
  <2>2. arg[c].size \in Nat
    BY DEF Init
  <2>3. DataOK(c)
    BY <2>2, Entries DEF Init, DataOK, Holds, InHand, ServerHandles, Early
  <2> QED BY <2>1, <2>3
<1> QED BY <1>1, <1>2, <1>3 DEF IInv

(* Every step keeps the invariant.                                         *)
LEMMA NextInv == IInv /\ [Next]_vars => IInv' /\ (Spoiled => Spoiled')
<1> SUFFICES ASSUME IInv, [Next]_vars PROVE IInv' /\ (Spoiled => Spoiled')
  OBVIOUS
<1>1. CASE UNCHANGED vars
  <2> USE <1>1 DEF vars, connVars, clientVars, pollerVars, ctxVars, fileVars
  <2>1. /\ arg' = arg /\ (ServerUp' => ServerUp)
        /\ \A d \in Clients : Kept(d) /\ FilesKept(d)
    BY DEF ServerUp, Kept, Same, InHand, ServerHandles, FilesKept
  <2>2. \A d \in Clients : /\ TokenOK(d)' /\ ContextOK(d)' /\ ReceiveOK(d)'
                           /\ EndOK(d) => EndOK(d)'
                           /\ Spoils(d)' = Spoils(d)
                           /\ DataOK(d) => DataOK(d)'
    BY <2>1, KeptOK DEF IInv
  <2>3. TypeOK' /\ HandOK' /\ FilesOK' /\ DeathOK'
    BY DEF IInv, TypeOK, HandOK, FilesOK, DeathOK
  <2>4. Spoiled' = Spoiled /\ (Sound' => Sound)
    BY <2>1, <2>2 DEF Sound, Spoiled
  <2> QED BY <2>1, <2>2, <2>3, <2>4 DEF IInv
<1>2. ASSUME NEW c \in Clients,
             Start(c) \/ ClientCrash(c) \/ ClientStep(c) \/ ServerStep(c) \/ NetStep(c)
      PROVE  IInv' /\ (Spoiled => Spoiled')
  <2>1. CASE Start(c) \/ ClientCrash(c)
    BY <2>1, StartOK, ClientCrashOK
  <2>2. CASE ClientStep(c)
    BY <2>2, ClientOnAddrResolvedOK, ClientOnRouteResolvedOK,
         ClientOnResolveErrorOK, ClientOnDisconnectOK, ClientOnUnknownEventOK,
         ClientPollOK, ClientPollWriteOK, ClientOnMessageOK, ClientOnDoneOK,
         ClientPostReceiveOK DEF ClientStep
  <2>3. CASE ServerStep(c)
    BY <2>3, ServerOnConnectRequestOK, ServerOnEstablishedOK,
         ServerOnDisconnectOK, ServerOnUnknownEventOK, ServerPollOK,
         ServerPollMessageOK, ServerOnDataOK, ServerReadyOK, ServerOnEofOK,
         ServerOnSentOK, ServerOnFreedOK DEF ServerStep
  <2>4. CASE NetStep(c)
    BY <2>4, CmClientGoneOK, PlaceWriteOK, DeliverWriteOK, FailWriteOK,
         DeliverMessageOK, FailMessageOK DEF NetStep
  <2> QED BY <1>2, <2>1, <2>2, <2>3, <2>4
<1> QED BY <1>1, <1>2 DEF Next

(* So it always holds.                                                     *)
LEMMA AlwaysInv == Spec => []IInv
BY InitInv, NextInv, PTL DEF Spec

(* Every variable of the transfer has values of its type: no completion    *)
(* queue, buffer or file gets anything that it is not made for.            *)
THEOREM TypeCorrect == Spec => []TypeOK
<1>1. IInv => TypeOK
  BY DEF IInv
<1> QED BY <1>1, AlwaysInv, PTL

(* No write is placed into a buffer whose data the server has yet to use:  *)
(* the write and what waits are the same token.                            *)
THEOREM BufferKept == Spec => []BufferHeld
<1>1. IInv => BufferHeld
  <2> SUFFICES ASSUME IInv, NEW c \in Clients, DataWaits(c) PROVE writes[c] = << >>
    BY DEF BufferHeld
  <2>1. TokenOK(c) /\ scq[c] \in Seq({"data", "eof", "failed"})
    BY DEF IInv, TypeOK
  <2>2. CASE \E i \in DOMAIN scq[c] : scq[c][i] = "data"
    BY <2>1, <2>2 DEF TokenOK
  <2>3. CASE ServerHandles(c, "data")
    BY <2>1, <2>3 DEF TokenOK, ServerHandles, InHand
  <2> QED BY <2>2, <2>3 DEF DataWaits
<1> QED BY <1>1, AlwaysInv, PTL

(* What the poller has in hand of a connection that the event thread has   *)
(* freed is the completion of DONE's send, unless the client crashed: the  *)
(* token keeps the client connected, and a completion is no part of it.    *)
THEOREM LiveContext == Spec => []HandlesLiveContext
<1>1. IInv => HandlesLiveContext
  <2> SUFFICES ASSUME IInv, spc \in {"handle", "reply"}
               PROVE  \/ sctx[swc] = "live" \/ cst[swc] = "crashed"
                      \/ sop = "sent" /\ cmsg[swc] = "DONE"
    BY DEF HandlesLiveContext
  <2>1. swc \in Clients
    BY DEF IInv, HandOK
  <2>2. TokenOK(swc) /\ ContextOK(swc) /\ EndOK(swc) /\ cm[swc] \in CmStates
    BY <2>1 DEF IInv, TypeOK, ServerUp
  <2>3. cm[swc] \in {"connected", "disconnecting", "disconnected"}
    BY <2>2 DEF TokenOK, InHand, ServerHandles, Early, CmStates
  <2>4. cm[swc] = "disconnected" /\ cst[swc] # "crashed" => cmsg[swc] = "DONE"
    BY <2>2 DEF EndOK, Late
  <2>5. cmsg[swc] = "DONE" => sop = "sent"
    BY <2>2 DEF TokenOK, InHand
  <2> QED BY <2>2, <2>3, <2>4, <2>5 DEF ContextOK
<1> QED BY <1>1, AlwaysInv, PTL

(* As long as no client crashes, no open or write fails and the server has *)
(* not used a freed id, rc_die ends only a client that did not find its    *)
(* server or whose last write was flushed, and never the server.           *)
THEOREM NobodyEnds == Spec => []NobodyDies
<1>1. IInv => NobodyDies
  <2> SUFFICES ASSUME IInv, spc \notin {"failed", "fault"},
                      \A c \in Clients : cst[c] # "crashed"
               PROVE  /\ spc # "died"
                      /\ \A c \in Clients : cst[c] = "died" => Unresolved(c) \/ Flushed(c)
    BY DEF NobodyDies
  <2>1. spc # "died"
    BY DEF IInv, DeathOK
  <2>2. \A c \in Clients : EndOK(c)
    BY <2>1 DEF IInv, ServerUp
  <2> QED BY <2>1, <2>2 DEF EndOK
<1> QED BY <1>1, AlwaysInv, PTL
-----------------------------------------------------------------------------
(* What a step that leaves the files alone is to FileCopy: nothing, or     *)
(* what breaks the promise.                                                *)
Told   == {c \in Clients : cmsg[c] = "DONE"}
Silent == UNCHANGED <<arg, owner, data, Told>>
Still  == UNCHANGED <<arg, owner, data, Told, Spoiled>>

LEMMA SilentOK == ASSUME Silent, Spoiled => Spoiled' PROVE FC!Break \/ Still
<1>1. Spoiled \in BOOLEAN /\ Spoiled' \in BOOLEAN
  BY DEF Spoiled
<1>2. CASE Spoiled'
  BY <1>2 DEF Silent, FC!Break, Told
<1>3. CASE ~Spoiled'
  <2>1. Spoiled' = Spoiled
    BY <1>1, <1>3
  <2> QED BY <2>1 DEF Silent, Still
<1> QED BY <1>2, <1>3

(* A write through a descriptor adds one entry to the file it is open for. *)
LEMMA WriteAdds ==
  ASSUME TypeOK, FilesOK, Spoiled', UNCHANGED <<arg, owner, Told>>,
         NEW f \in Fds, NEW x \in (Clients \X (0..MaxChunks)) \cup {None},
         WriteTo(f, x)
  PROVE  \E n \in Names : FC!Spoil(n)
<1>1. PICK n \in Names : n = fds[f] /\ owner[n] # None
  BY DEF TypeOK, FilesOK, WriteTo
<1>2. data[n] \in Seq((Clients \X (0..MaxChunks)) \cup {None})
  BY DEF TypeOK
<1>3. data' = [data EXCEPT ![n] = Append(data[n], x)] /\ data'[n] = Append(data[n], x)
  BY <1>1 DEF WriteTo, TypeOK
<1>4. Len(data'[n]) = Len(data[n]) + 1 /\ data'[n][Len(data[n]) + 1] = x
  BY <1>2, <1>3
<1>5. data' = [data EXCEPT ![n] = Append(data[n], data'[n][Len(data[n]) + 1])]
  BY <1>3, <1>4
<1> QED BY <1>1, <1>4, <1>5 DEF FC!Spoil, Told

(* The poller makes the file, adds the next chunk to it, or ends; once the *)
(* promise is broken, the chunk may go to any file.                        *)
LEMMA DataStep ==
  ASSUME IInv, NEW c \in Clients, ServerOnData(c), Spoiled => Spoiled'
  PROVE  FC!Create(c) \/ FC!Extend(c) \/ (\E n \in Names : FC!Spoil(n)) \/ Still
<1>g. TypeOK /\ Given(c)
  BY GivenOK
<1>1. /\ arg' = arg /\ Told' = Told /\ ServerHandles(c, "data") /\ ServerUp
      /\ cst' = cst /\ sctx' = sctx /\ sctx[c] = "live"
  BY DEF ServerOnData, clientVars, ServerHandles, ServerUp, Told
<1>2. CASE fname[c] = None
  <2>1. \A d \in Clients \ {c} : fname'[d] = fname[d] /\ fd'[d] = fd[d]
    BY <1>2, <1>g DEF ServerOnData, OpenFile, TypeOK
  <2>2. \A d \in Clients : Spoils(d)' = Spoils(d)
    BY <1>1, <2>1 DEF Spoils
  <2>3. Spoiled' = Spoiled
    BY <2>2 DEF Spoiled
  <2> QED BY <1>1, <1>2, <2>3
       DEF ServerOnData, OpenFile, FC!Create, Still, Told
<1>3. CASE fname[c] # None
  <2>1. owner' = owner /\ fname' = fname /\ fd' = fd /\ Spoiled' = Spoiled
    BY <1>1, <1>3 DEF ServerOnData, WriteChunk, Spoiled, Spoils
  <2>2. data' = data \/ WriteTo(fd[c], buffer[c])
    BY <1>3 DEF ServerOnData, WriteChunk
  <2>3. CASE data' = data
    BY <1>1, <2>1, <2>3 DEF Still
  <2>4. CASE WriteTo(fd[c], buffer[c]) /\ Spoiled
    <3>1. fd[c] \in Fds /\ buffer[c] \in (Clients \X (0..MaxChunks)) \cup {None}
      BY <2>4, <1>g DEF WriteTo, TypeOK
    <3> QED BY <3>1, <1>1, <2>1, <2>4, <1>g, WriteAdds DEF Given
  <2>5. CASE WriteTo(fd[c], buffer[c]) /\ ~Spoiled
    <3> DEFINE n == arg[c].name
    <3>1. DataOK(c) /\ fname[c] = n /\ n \in Names /\ fds[fd[c]] = n
      BY <1>1, <1>3, <2>5, <1>g DEF Given, DataOK, Sound
    <3>2. sent[c] > 0 /\ Upto(c, sent[c] - 1) /\ buffer[c] = <<c, sent[c]>>
      BY <1>1, <1>3, <3>1 DEF DataOK, Brought, Naming
    <3>3. /\ owner[n] = c /\ Len(data[n]) = sent[c] - 1 /\ Len(data[n]) + 1 = sent[c]
          /\ Len(data[n]) < arg[c].size
      BY <3>1, <3>2, <1>g DEF Upto, DataOK, Given
    <3>4. data' = [data EXCEPT ![n] = Append(data[n], <<c, Len(data[n]) + 1>>)]
      BY <2>5, <3>1, <3>2, <3>3 DEF WriteTo
    <3> QED BY <1>1, <2>1, <3>3, <3>4 DEF FC!Extend, Told
  <2> QED BY <2>2, <2>3, <2>4, <2>5
<1> QED BY <1>2, <1>3

(* A freed context leads to a file only when its client has crashed, which *)
(* breaks the promise.                                                     *)
LEMMA FreedStep ==
  ASSUME IInv, NEW c \in Clients, ServerOnFreed(c)
  PROVE  (\E n \in Names : FC!Spoil(n)) \/ Silent
<1>g. TypeOK /\ Given(c)
  BY GivenOK
<1>1. arg' = arg /\ Told' = Told /\ owner' = owner /\ cst' = cst
  BY DEF ServerOnFreed, clientVars, Told
<1>2. CASE data' = data
  BY <1>1, <1>2 DEF Silent
<1>3. CASE data' # data
  <2>1. PICK f \in Fds : ServerHandles(c, "data") /\ WriteTo(f, buffer[c])
    BY <1>3 DEF ServerOnFreed
  <2>2. sctx'[c] = "used" /\ sctx[c] # "live"
    BY <2>1, <1>g DEF ServerOnFreed, ServerHandles, TypeOK
  <2>3. cm[c] \notin Early /\ cmsg[c] # "DONE" /\ EndOK(c)
    BY <2>1, <1>g DEF Given, TokenOK, InHand, ServerHandles, ServerUp
  <2>4. cst[c] = "crashed"
    BY <2>2, <2>3, <1>g DEF Given, ContextOK, EndOK, Early, Late, CmStates
  <2>5. Spoiled'
    BY <1>1, <2>2, <2>4 DEF Spoiled, Spoils
  <2>6. buffer[c] \in (Clients \X (0..MaxChunks)) \cup {None}
    BY <1>g DEF TypeOK
  <2> QED BY <1>1, <2>1, <2>5, <2>6, <1>g, WriteAdds DEF Given
<1> QED BY <1>2, <1>3

(* DONE is received for a complete file, and nothing takes it back.        *)
LEMMA MessageStep ==
  ASSUME IInv, NEW c \in Clients, DeliverMessage(c)
  PROVE  FC!Tell(c) \/ FC!Mislead(c) \/ Still
<1>g. TypeOK /\ Given(c)
  BY GivenOK
<1>1. /\ arg' = arg /\ owner' = owner /\ data' = data /\ ServerUp /\ sends[c] > 0
      /\ cmsg' = [cmsg EXCEPT ![c] = smsg[c]] /\ cmsg \in [Clients -> Messages]
      /\ cmsg[c] # "DONE"
  BY <1>g DEF DeliverMessage, QpsLive, fileVars, Given, TypeOK, TokenOK
<1>2. Spoiled' = Spoiled
  BY DEF DeliverMessage, Spoiled, Spoils
<1>3. CASE smsg[c] # "DONE"
  <2>1. Told' = Told
    BY <1>1, <1>3 DEF Told
  <2> QED BY <1>1, <1>2, <2>1 DEF Still
<1>4. CASE smsg[c] = "DONE"
  <2>1. Told' = Told \cup {c}
    BY <1>1, <1>4 DEF Told
  <2>2. CASE Spoiled
    BY <1>1, <1>2, <2>1, <2>2 DEF FC!Mislead, Told
  <2>3. CASE ~Spoiled
    <3>1. Upto(c, arg[c].size)
      BY <1>1, <1>4, <2>3, <1>g DEF Given, Sound, DataOK, Says
    <3> QED BY <1>1, <1>2, <2>1, <3>1 DEF FC!Tell, Told, Upto
  <2> QED BY <2>2, <2>3
<1> QED BY <1>3, <1>4

(* Every other step leaves the files and what the clients are told.        *)
LEMMA SilentStep ==
  ASSUME NEW c \in Clients,
         \/ Start(c) \/ ClientCrash(c) \/ ClientStep(c) \/ ServerStep(c) \/ NetStep(c)
  PROVE  ServerOnData(c) \/ ServerOnFreed(c) \/ DeliverMessage(c) \/ Silent
<1> USE DEF Silent, Told, connVars, clientVars, pollerVars, ctxVars, fileVars
<1>1. CASE Start(c) \/ ClientCrash(c)
  BY <1>1 DEF Start, ClientCrash
<1>2. CASE ClientStep(c)
  BY <1>2 DEF ClientStep, ClientOnAddrResolved, ClientOnRouteResolved,
           ClientOnResolveError, ClientOnDisconnect, ClientOnUnknownEvent,
           ClientPoll, ClientPollWrite, ClientOnMessage, ClientOnDone,
           ClientPostReceive
<1>3. CASE ServerStep(c)
  BY <1>3 DEF ServerStep, ServerOnConnectRequest, ServerOnEstablished,
           ServerOnDisconnect, ServerOnUnknownEvent, ServerPoll,
           ServerPollMessage, ServerReady, ServerOnEof, ServerOnSent
<1>4. CASE NetStep(c)
  BY <1>4 DEF NetStep, CmClientGone, PlaceWrite, DeliverWrite, FailWrite,
           FailMessage
<1> QED BY <1>1, <1>2, <1>3, <1>4

(* The transfer implements FileCopy: a file has one creator, grows chunk   *)
(* by chunk in order, and DONE is received only for a complete file, in    *)
(* spite of the threads, the network and the failures; and what a crash    *)
(* can do to that through the freed context or the descriptor that was     *)
(* never set is to break the promise of what is in the files, no more.     *)
THEOREM Implements == Spec => ImplementsFileCopy
<1>1. Init => FC!Init
  BY FileTransferAssumption DEF Init, FC!Init, Spoiled, Spoils
<1>2. IInv /\ [Next]_vars => [FC!Next]_<<arg, owner, data, Told, Spoiled>>
  <2> SUFFICES ASSUME IInv, [Next]_vars PROVE FC!Next \/ Still
    BY DEF Still
  <2>1. Spoiled => Spoiled'
    BY NextInv
  <2>2. CASE UNCHANGED vars
    <3>1. Silent
      BY <2>2 DEF Silent, Told, vars, clientVars, fileVars
    <3> QED BY <2>1, <3>1, SilentOK DEF FC!Next
  <2>3. CASE Next
    <3>1. PICK c \in Clients :
            \/ Start(c) \/ ClientCrash(c) \/ ClientStep(c) \/ ServerStep(c) \/ NetStep(c)
      BY <2>3 DEF Next
    <3>2. \/ FC!Create(c) \/ FC!Extend(c) \/ FC!Tell(c) \/ FC!Mislead(c)
          \/ FC!Break \/ (\E n \in Names : FC!Spoil(n)) \/ Still
      BY <2>1, <3>1, SilentStep, SilentOK, DataStep, FreedStep, MessageStep
    <3> QED BY <3>2 DEF FC!Next
  <2> QED BY <2>2, <2>3
<1> QED BY <1>1, <1>2, AlwaysInv, PTL
     DEF Spec, ImplementsFileCopy, FC!Spec, FC!vars, Told
=============================================================================
