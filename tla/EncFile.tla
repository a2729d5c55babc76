------------------------------ MODULE EncFile ------------------------------
(***************************************************************************)
(* The encryption service of LA3: a client sends a key, a file and an end  *)
(* marker, the child the server has forked for it stores the file,         *)
(* encrypts it and sends the result and an end marker back, and the client *)
(* says whether another file follows.  All this travels on one TCP         *)
(* connection, which keeps no boundaries: a recv returns any number of the *)
(* pieces that were sent, and a marker or an answer is looked for only at  *)
(* the beginning of what it returned.  Connections do not share state, so  *)
(* one client and its child are modelled.                                  *)
(***************************************************************************)
EXTENDS Integers, Sequences, SequencesExt

CONSTANTS
  Keys,       \* keys of 26 letters
  Texts,      \* pieces of text
  MaxPieces,  \* bound on the length of all files together
  MaxFiles    \* bound on the files the client sends

ASSUME BoundsAssumption == MaxPieces \in Nat /\ MaxFiles \in Nat

(* What is sent.  END is the text END_OF_FILE, wherever it comes from;     *)
(* Preimage(k) is the text that key k turns into it.                       *)
Key(k)      == [type |-> "key", key |-> k]
Data(x)     == [type |-> "data", text |-> x]
Preimage(k) == [type |-> "preimage", key |-> k]
END         == [type |-> "END"]
Choice(a)   == [type |-> "choice", answer |-> a]
Junk        == [type |-> "junk"]           \* the rest of something cut in two

Pieces == {Data(x) : x \in Texts} \union {END} \union {Preimage(k) : k \in Keys}

encrypt(x, k) == IF k.type = "key" /\ x = Preimage(k.key)
                   THEN END
                   ELSE [type |-> "encrypted", of |-> x, with |-> k]

VARIABLES
  c2s, s2c,       \* the two directions of the connection
  cpc,            \* client: control point
  file, key,      \* client: the file it sends and its key
  sent,           \* client: number of pieces sent
  saved,          \* client: the file it has saved
  ended,          \* client: the marker, and not the end of the connection, ended it
  files, pieces,  \* counts of the files and of their pieces, for the bounds
  spc,            \* child: control point
  encryption_key, \* child: what it took for the key
  temp,           \* child: its temporary file
  pos,            \* child: pieces of the encrypted file sent back
  trouble         \* history: what has happened that the protocol does not survive

client == <<cpc, file, key, sent, saved, ended, files, pieces>>
server == <<spc, encryption_key, temp, pos>>
vars   == <<c2s, s2c, client, server, trouble>>

Init ==
  /\ c2s = <<>> /\ s2c = <<>>
  /\ cpc = "start" /\ file = <<>> /\ key \in Keys /\ sent = 0
  /\ saved = <<>> /\ ended = FALSE /\ files = 0 /\ pieces = 0
  /\ spc = "none" /\ encryption_key = Junk /\ temp = <<>> /\ pos = 0
  /\ trouble = {}

First(k, s) == SubSeq(s, 1, k)
After(k, s) == SubSeq(s, k + 1, Len(s))

(* What is left when a recv with a full buffer has taken k pieces or has   *)
(* cut the last of them.                                                   *)
Cut(k, s) == {After(k, s), <<Junk>> \o After(k, s)}

Troubled(e, condition) == trouble' = IF condition THEN trouble \union {e} ELSE trouble
-----------------------------------------------------------------------------
(* The client. *)

(* A file that contains the marker, or text that its key turns into the    *)
(* marker, ends where the marker begins.                                   *)
Misleading(f, k) == \E i \in 1..Len(f) : f[i] \in {END, Preimage(k)}

PicksFile ==
  /\ cpc = "start" /\ files < MaxFiles
  /\ \E n \in 0..(MaxPieces - pieces) :
       file' \in [1..n -> Pieces] /\ pieces' = pieces + n
  /\ key' \in Keys
  /\ c2s' = Append(c2s, Key(key'))
  /\ sent' = 0 /\ saved' = <<>> /\ ended' = FALSE
  /\ files' = files + 1
  /\ cpc' = "send"
  /\ Troubled("marker", Misleading(file', key'))
  /\ UNCHANGED <<s2c, server>>

SendsChunk ==
  /\ cpc = "send" /\ sent < Len(file)
  /\ sent' = sent + 1
  /\ c2s' = Append(c2s, file[sent + 1])
  /\ UNCHANGED <<s2c, cpc, file, key, saved, ended, files, pieces, server, trouble>>

SendsEndIfAny ==                           \* mutant: none after an empty file
  /\ cpc = "send" /\ sent = Len(file)
  /\ c2s' = IF file = <<>> THEN c2s ELSE Append(c2s, END)
  /\ cpc' = "recv"
  /\ UNCHANGED <<s2c, file, key, sent, saved, ended, files, pieces, server, trouble>>
SendsEnd ==
  /\ cpc = "send" /\ sent = Len(file)
  /\ c2s' = Append(c2s, END)
  /\ cpc' = "recv"
  /\ UNCHANGED <<s2c, file, key, sent, saved, ended, files, pieces, server, trouble>>

(* A marker that does not begin a buffer is saved like text, in one part   *)
(* or in two.                                                              *)
SavesReply(k) ==
  /\ cpc = "recv" /\ k \in 1..Len(s2c)
  /\ s2c' = After(k, s2c)
  /\ IF Head(s2c) = END
       THEN cpc' = "prompt" /\ ended' = TRUE /\ UNCHANGED saved
       ELSE saved' = saved \o First(k, s2c) /\ UNCHANGED <<cpc, ended>>
  /\ Troubled("together", k > 1 /\ Contains(First(k, s2c), END))
  /\ UNCHANGED <<c2s, file, key, sent, files, pieces, server>>

(* recv returns 0: the client announces success all the same. *)
SeesEof ==
  /\ cpc = "recv" /\ s2c = <<>> /\ spc = "done"
  /\ cpc' = "prompt"
  /\ UNCHANGED <<c2s, s2c, file, key, sent, saved, ended, files, pieces, server, trouble>>

(* The process ends: what it has not read is discarded, its variables are  *)
(* gone.                                                                   *)
Exits ==
  /\ cpc' = "gone"
  /\ s2c' = <<>> /\ file' = <<>> /\ sent' = 0 /\ saved' = <<>> /\ ended' = FALSE

(* The client ignores the case of "No", the server does not; an empty line *)
(* sends nothing.                                                          *)
Answers(a) ==
  /\ cpc = "prompt"
  /\ c2s' = IF a = "" THEN c2s ELSE Append(c2s, Choice(a))
  /\ IF a \in {"No", "no"}
       THEN Exits
       ELSE cpc' = "start" /\ UNCHANGED <<s2c, file, sent, saved, ended>>
  /\ Troubled("empty", a = "")
  /\ UNCHANGED <<key, files, pieces, server>>

(* Killed, or the file for the result cannot be created. *)
Leaves ==
  /\ cpc # "gone"
  /\ Exits
  /\ UNCHANGED <<c2s, key, files, pieces, server, trouble>>

ClientRuns == \/ SendsChunk \/ SendsEnd \/ SeesEof
              \/ \E k \in 1..Len(s2c) : SavesReply(k)
Client == \/ PicksFile \/ ClientRuns \/ Leaves
          \/ \E a \in {"Yes", "No", "no", ""} : Answers(a)
-----------------------------------------------------------------------------
(* The server. *)

Goto(p) == spc' = p
Closed  == c2s = <<>> /\ cpc = "gone"

(* accept and fork; when fork fails the connection is closed. *)
Forks ==
  /\ spc = "none"
  /\ Goto("key") \/ Goto("done")
  /\ UNCHANGED <<c2s, s2c, client, encryption_key, temp, pos, trouble>>

KeepsTemp   == temp' = temp                \* mutant: opened for appending
CreatesTemp == temp' = <<>>

(* recv of up to 26 bytes, whatever they are; a temporary file that cannot *)
(* be created sends the child back to wait for a key.                      *)
TakesKey ==
  /\ spc = "key" /\ c2s # <<>>
  /\ IF Head(c2s).type = "key"
       THEN encryption_key' = Head(c2s) /\ c2s' = Tail(c2s)
       ELSE /\ encryption_key' = Junk
            /\ \E k \in 1..Len(c2s) : c2s' \in Cut(k, c2s)
  /\ \/ CreatesTemp /\ Goto("recv") /\ UNCHANGED trouble
     \/ Troubled("failed", TRUE) /\ UNCHANGED <<spc, temp>>
  /\ UNCHANGED <<s2c, client, pos>>

StoresChunk(k) ==
  /\ spc = "recv" /\ k \in 1..Len(c2s)
  /\ c2s' = After(k, c2s)
  /\ IF Head(c2s) = END
       THEN Goto("encrypt") /\ UNCHANGED temp
       ELSE temp' = temp \o First(k, c2s) /\ UNCHANGED spc
  /\ Troubled("together", k > 1 /\ Contains(First(k, c2s), END))
  /\ UNCHANGED <<s2c, client, encryption_key, pos>>

SpinsAtEof ==                              \* mutant: recv < 0 in place of <= 0
  /\ spc = "recv" /\ Closed
  /\ UNCHANGED vars
ContentEnds ==
  /\ spc = "recv" /\ Closed
  /\ Goto("encrypt")
  /\ UNCHANGED <<c2s, s2c, client, encryption_key, temp, pos, trouble>>

FromPosition  == UNCHANGED pos             \* mutant: the file is not read from its start
FromBeginning == pos' = 0

(* The results of fprintf, fputc and fclose are ignored: on a full disk    *)
(* the end of the text, from some place on, is in neither file.            *)
LosesText == \E k \in 0..(Len(temp) - 1) :
               temp' \in {First(k, temp), Append(First(k, temp), Junk)}

Encrypts ==
  /\ spc = "encrypt"
  /\ \/ Goto("reply") /\ FromBeginning /\ UNCHANGED <<temp, trouble>>
     \/ Goto("reply") /\ FromBeginning /\ LosesText /\ Troubled("disk", TRUE)
     \/ Goto("key") /\ Troubled("failed", TRUE) /\ UNCHANGED <<pos, temp>>
  /\ UNCHANGED <<c2s, s2c, client, encryption_key>>

Sends(m) == s2c' = IF cpc = "gone" THEN s2c ELSE Append(s2c, m)

SendsBack ==
  /\ spc = "reply" /\ pos < Len(temp)
  /\ Sends(encrypt(temp[pos + 1], encryption_key))
  /\ pos' = pos + 1
  /\ UNCHANGED <<c2s, client, spc, encryption_key, temp, trouble>>

SendsBackEnd ==
  /\ spc = "reply" /\ pos = Len(temp)
  /\ Sends(END)
  /\ Goto("choice")
  /\ UNCHANGED <<c2s, client, encryption_key, temp, pos, trouble>>

(* A send to a client that is gone may raise SIGPIPE. *)
Dies ==
  /\ spc = "reply" /\ cpc = "gone"
  /\ Goto("done")
  /\ UNCHANGED <<c2s, s2c, client, encryption_key, temp, pos, trouble>>

(* Whatever has arrived is taken for the answer. *)
TakesChoice(k) ==
  /\ spc = "choice" /\ k \in 1..Len(c2s)
  /\ c2s' \in Cut(k, c2s)
  /\ Goto(IF First(k, c2s) = <<Choice("No")>> THEN "done" ELSE "key")
  /\ Troubled("together", k > 1 \/ c2s' # After(k, c2s))
  /\ UNCHANGED <<s2c, client, encryption_key, temp, pos>>

Disconnected ==
  /\ spc \in {"key", "choice"} /\ Closed
  /\ Goto("done")
  /\ UNCHANGED <<c2s, s2c, client, encryption_key, temp, pos, trouble>>

Server == \/ Forks \/ TakesKey \/ ContentEnds \/ Encrypts
          \/ SendsBack \/ SendsBackEnd \/ Dies \/ Disconnected
          \/ \E k \in 1..Len(c2s) : StoresChunk(k) \/ TakesChoice(k)
-----------------------------------------------------------------------------
Next == Client \/ Server

Spec == Init /\ [][Next]_vars

(* The child and the client program run on; the user may do nothing. *)
FairSpec == Spec /\ WF_vars(Server) /\ WF_vars(ClientRuns)
-----------------------------------------------------------------------------
(* Every variable keeps its type. *)
TypeOK ==
  /\ cpc \in {"start", "send", "recv", "prompt", "gone"}
  /\ file \in Seq(Pieces) /\ key \in Keys /\ sent \in 0..Len(file)
  /\ ended \in BOOLEAN /\ files \in 0..MaxFiles /\ pieces \in 0..MaxPieces
  /\ spc \in {"none", "key", "recv", "encrypt", "reply", "choice", "done"}
  /\ encryption_key \in {Key(k) : k \in Keys} \union {Junk}
  /\ spc = "reply" => pos \in 0..Len(temp)
  /\ trouble \subseteq {"marker", "together", "empty", "failed", "disk"}

Result == [i \in 1..Len(file) |-> encrypt(file[i], Key(key))]

(* What the client saves is its own file under its own key, piece by piece *)
(* and complete when the marker has come, in every one of its files and    *)
(* however TCP groups the text.  Only five things spoil it: a file that    *)
(* holds the marker or encrypts to it, a marker or an answer received      *)
(* together with something else, an empty answer, a temporary file that    *)
(* cannot be opened, and one that cannot be written                        *)
(* (doencfileserver.c:65-154, retrieveencfileclient.c:96-156).             *)
SavedIsEncrypted ==
  trouble = {} => /\ IsPrefix(saved, Result)
                  /\ ended => saved = Result

(* A client that waits for its result gets it or the end of the            *)
(* connection, unless one of the five has happened (doencfileserver.c:86-  *)
(* 144, retrieveencfileclient.c:128-139).                                  *)
Answered == cpc = "recv" ~> cpc # "recv" \/ trouble # {}

(* The client and the child never wait for each other: one that waits for  *)
(* the reply, and one that waits for a key, a file or an answer, have      *)
(* something on its way to one of them, unless one of the five has         *)
(* happened (doencfileserver.c:65-154, retrieveencfileclient.c:128-139).   *)
NeverBothWait ==
  trouble = {} => ~ (/\ cpc = "recv" /\ s2c = <<>>
                     /\ spc \in {"key", "recv", "choice"} /\ c2s = <<>>)

(* The child of a client that has left ends, whatever it was waiting for   *)
(* and whatever it took for a key, a file or an answer: no child stays     *)
(* behind (doencfileserver.c:67-69, 88-89, 150-153).                       *)
ChildEnds == cpc = "gone" ~> spc = "done"
=============================================================================
