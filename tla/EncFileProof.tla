---------------------------- MODULE EncFileProof ----------------------------
(***************************************************************************)
(* Proofs about EncFile for any keys and texts, any number of files and    *)
(* files of any length.                                                    *)
(***************************************************************************)
EXTENDS EncFile, SequenceTheorems, TLAPS

(* What travels, and what the child makes of it. *)
Sent    == Pieces \union {Key(k) : k \in Keys} \union {Choice(a) : a \in {"Yes", "No", "no"}}
             \union {Junk}
KeysTaken == {Key(k) : k \in Keys} \union {Junk}
Back    == {END} \union [type : {"encrypted"}, of : Sent, with : KeysTaken]

StreamTypes ==
  /\ c2s \in Seq(Sent) /\ temp \in Seq(Sent)
  /\ s2c \in Seq(Back) /\ saved \in Seq(Back)

(* The part of the file and its marker that the client has sent, and all   *)
(* it has sent since it picked the file.                                   *)
Body   == IF cpc = "send" THEN First(sent, file) ELSE Append(file, END)
Upload == IF cpc = "start" THEN <<>> ELSE <<Key(key)>> \o Body

Fresh  == saved = <<>> /\ ~ended

(* Where the file is while all is well, by where the child is: before it   *)
(* or on the way to it, in its temporary file, on the way back, saved.     *)
Unread    == /\ cpc \in {"start", "send", "recv"} /\ s2c = <<>>
             /\ cpc # "start" => Fresh
Expected  == cpc \in {"send", "recv"} /\ s2c = <<>> /\ Fresh /\ encryption_key = Key(key)
Held      == cpc = "recv" /\ c2s = <<>> /\ ~ended /\ encryption_key = Key(key) /\ temp = file

AtKey     == spc \in {"none", "key"} => Unread /\ c2s = Upload /\ (spc = "none" => Fresh)
AtRecv    == spc = "recv" => Expected /\ temp \o c2s = Body /\ IsPrefix(temp, file)
AtEncrypt == spc = "encrypt" => Held /\ s2c = <<>> /\ Fresh
AtReply   == spc = "reply" => Held /\ saved \o s2c = First(pos, Result)
AtChoice  == spc = "choice" =>
               \/ cpc = "recv" /\ c2s = <<>> /\ ~ended /\ saved \o s2c = Append(Result, END)
               \/ cpc = "prompt" /\ c2s = <<>> /\ s2c = <<>>
               \/ Unread /\ c2s = <<Choice("Yes")>> \o Upload
AtDone    == spc = "done" => s2c = <<>> /\ Fresh      \* fork failed

Plain == \A i \in 1..Len(file) : file[i] \notin {END, Preimage(key)}
Saved == IsPrefix(saved, Result) /\ (ended => saved = Result)

Undisturbed ==
  /\ Plain /\ Saved
  /\ AtKey /\ AtRecv /\ AtEncrypt /\ AtReply /\ AtChoice /\ AtDone

StreamInv == trouble = {} /\ cpc # "gone" => Undisturbed
GoneInv   == cpc = "gone" => file = <<>> /\ Fresh

IInv == TypeOK /\ StreamTypes /\ StreamInv /\ GoneInv
-----------------------------------------------------------------------------
(* Pieces of the stream are told apart by their type. *)
LEMMA PieceFacts ==
  /\ Pieces \subseteq Sent /\ END \in Pieces /\ END \in Back
  /\ Junk \in Sent /\ Junk \in KeysTaken
  /\ \A k \in Keys : Key(k) \in Sent /\ Key(k) \in KeysTaken /\ Key(k).type = "key"
  /\ \A a \in {"Yes", "No", "no"} : Choice(a) \in Sent
  /\ Choice("Yes") # Choice("No")
BY DEF Pieces, Sent, KeysTaken, Back, END, Junk, Key, Choice

LEMMA EncryptFacts ==
  ASSUME NEW y \in Sent
  PROVE  /\ \A k \in KeysTaken : encrypt(y, k) \in Back
         /\ \A k \in Keys : y # Preimage(k) => encrypt(y, Key(k)) # END
BY DEF encrypt, Back, Key, END

(* A piece that arrives joins the stream at its end; bytes that are read   *)
(* move from the stream to the reader and stay in order.                   *)
LEMMA Appended ==
  ASSUME NEW S, NEW s \in Seq(S), NEW e \in S
  PROVE  Append(s, e) \in Seq(S)
OBVIOUS

LEMMA OnePiece ==
  ASSUME NEW S, NEW e \in S
  PROVE  /\ <<e>> \in Seq(S) /\ Append(<<>>, e) = <<e>>
         /\ <<e>> \o <<>> = <<e>> /\ <<>> \o <<e>> = <<e>>
OBVIOUS

LEMMA Joins ==
  ASSUME NEW S, NEW s \in Seq(S), NEW t \in Seq(S), NEW e \in S
  PROVE  s \o Append(t, e) = Append(s \o t, e)
<1>1. s \o Append(t, e) \in Seq(S) /\ Append(s \o t, e) \in Seq(S)
  OBVIOUS
<1>2. Len(s \o Append(t, e)) = Len(Append(s \o t, e))
  OBVIOUS
<1>3. \A i \in 1..Len(s \o Append(t, e)) : (s \o Append(t, e))[i] = Append(s \o t, e)[i]
  OBVIOUS
<1> QED BY <1>1, <1>2, <1>3, SeqEqual

LEMMA Splits ==
  ASSUME NEW S, NEW t \in Seq(S), NEW k \in 0..Len(t)
  PROVE  /\ First(k, t) \in Seq(S) /\ Len(First(k, t)) = k
         /\ \A i \in 1..k : First(k, t)[i] = t[i]
         /\ After(k, t) \in Seq(S) /\ Len(After(k, t)) = Len(t) - k
         /\ First(k, t) \o After(k, t) = t
<1>1. k \in Int /\ Len(t) \in Nat /\ k <= Len(t)
  OBVIOUS
<1>2. /\ First(k, t) \in Seq(S) /\ Len(First(k, t)) = k
      /\ \A i \in 1..k : First(k, t)[i] = t[i]
  <2>1. \A i \in 1..k : t[i] \in S
    BY <1>1, ElementOfSeq
  <2> QED BY <1>1, <2>1, SubSeqProperties DEF First
<1>3. After(k, t) \in Seq(S) /\ Len(After(k, t)) = Len(t) - k
  <2>1. \A i \in (k + 1)..Len(t) : t[i] \in S
    BY <1>1, ElementOfSeq
  <2> QED BY <1>1, <2>1, SubSeqProperties DEF After
<1>4. First(k, t) \o After(k, t) = t
  <2>1. 1 \in 1..(Len(t) + 1) /\ k \in (1 - 1)..Len(t) /\ Len(t) \in k..Len(t)
    BY <1>1
  <2>2. SubSeq(t, 1, k) \o SubSeq(t, k + 1, Len(t)) = SubSeq(t, 1, Len(t))
    BY <2>1, ConcatAdjacentSubSeq
  <2> QED BY <2>2, SubSeqFull DEF First, After
<1> QED BY <1>2, <1>3, <1>4

LEMMA FirstGrows ==
  ASSUME NEW S, NEW f \in Seq(S), NEW n \in 0..Len(f), n < Len(f)
  PROVE  First(n + 1, f) = Append(First(n, f), f[n + 1])
<1> DEFINE a == First(n, f)
           b == First(n + 1, f)
<1>1. n + 1 \in 0..Len(f) /\ f[n + 1] \in S /\ n \in Nat
  OBVIOUS
<1>2. a \in Seq(S) /\ Len(a) = n /\ \A i \in 1..n : a[i] = f[i]
  BY Splits
<1>3. b \in Seq(S) /\ Len(b) = n + 1 /\ \A i \in 1..(n + 1) : b[i] = f[i]
  BY <1>1, Splits
<1> HIDE DEF a, b
<1>4. Append(a, f[n + 1]) \in Seq(S) /\ Len(Append(a, f[n + 1])) = n + 1
  BY <1>1, <1>2
<1>5. \A i \in 1..(n + 1) : Append(a, f[n + 1])[i] = b[i]
  BY <1>1, <1>2, <1>3
<1>6. b = Append(a, f[n + 1])
  BY <1>3, <1>4, <1>5, SeqEqual
<1> QED BY <1>6 DEF a, b

LEMMA Moves ==
  ASSUME NEW S, NEW s \in Seq(S), NEW t \in Seq(S), NEW k \in 0..Len(t)
  PROVE  (s \o First(k, t)) \o After(k, t) = s \o t
<1>1. First(k, t) \in Seq(S) /\ After(k, t) \in Seq(S) /\ First(k, t) \o After(k, t) = t
  BY Splits
<1>2. \A a, b \in Seq(S) : (s \o a) \o b = s \o (a \o b)
  BY ConcatAssociative
<1>3. (s \o First(k, t)) \o After(k, t) = s \o (First(k, t) \o After(k, t))
  BY <1>1, <1>2, Zenon
<1> QED BY <1>1, <1>3

LEMMA FirstPiece ==
  ASSUME NEW S, NEW e \in S, NEW s \in Seq(S)
  PROVE  LET w == <<e>> \o s
         IN  /\ w # <<>> /\ Head(w) = e /\ Tail(w) = s
             /\ First(1, w) = <<e>> /\ After(1, w) = s
<1> DEFINE w == <<e>> \o s
<1>1. /\ w \in Seq(S) /\ Len(w) = Len(s) + 1 /\ w[1] = e /\ w # <<>>
      /\ \A i \in 1..Len(s) : w[i + 1] = s[i]
  OBVIOUS
<1> HIDE DEF w
<1>2. /\ Head(w) = e /\ Tail(w) \in Seq(S) /\ Len(Tail(w)) = Len(s)
      /\ \A i \in 1..Len(s) : Tail(w)[i] = w[i + 1]
  BY <1>1, HeadTailProperties
<1>3. Tail(w) = s
  BY <1>1, <1>2, SeqEqual
<1>4. After(1, w) = s
  BY <1>1, <1>3, TailIsSubSeq DEF After
<1>5. 1 \in 0..Len(w)
  BY <1>1
<1>6. /\ First(1, w) \in Seq(S) /\ Len(First(1, w)) = 1
      /\ \A i \in 1..1 : First(1, w)[i] = w[i]
  BY <1>1, <1>5, Splits
<1>7. First(1, w) = <<e>>
  BY <1>1, <1>6
<1> QED BY <1>1, <1>2, <1>3, <1>4, <1>7 DEF w

LEMMA PrefixByElements ==
  ASSUME NEW S, NEW s \in Seq(S), NEW f \in Seq(S), Len(s) <= Len(f),
         \A i \in 1..Len(s) : s[i] = f[i]
  PROVE  IsPrefix(s, f)
<1>1. Len(s) \in 0..Len(f)
  OBVIOUS
<1>2. First(Len(s), f) \in Seq(S) /\ Len(First(Len(s), f)) = Len(s)
      /\ \A i \in 1..Len(s) : First(Len(s), f)[i] = f[i]
  BY <1>1, Splits
<1>3. First(Len(s), f) = s
  BY <1>2, SeqEqual
<1>4. SubSeq(s, 1, Len(s)) = s
  BY SubSeqFull
<1> QED BY <1>1, <1>3, <1>4 DEF IsPrefix, First

(* The reader of a file f that ends with a marker e, with s read and t     *)
(* under way.  The marker at the beginning of t means that all of f has    *)
(* been read; text in which there is no marker is text of f.               *)
Carries(w, f, e) ==
  /\ Len(w) <= Len(f) + 1
  /\ \A i \in 1..Len(w) : w[i] = IF i <= Len(f) THEN f[i] ELSE e

LEMMA MarkerEnds ==
  ASSUME NEW S, NEW s \in Seq(S), NEW t \in Seq(S), NEW f \in Seq(S), NEW e \in S,
         Carries(s \o t, f, e), \A i \in 1..Len(f) : f[i] # e,
         t # <<>>, Head(t) = e
  PROVE  s = f /\ t = <<e>> /\ Len(s \o t) = Len(f) + 1
<1>1. Len(s) \in Nat /\ Len(t) \in Nat \ {0} /\ Len(f) \in Nat /\ Len(s \o t) = Len(s) + Len(t)
  OBVIOUS
<1>2. (s \o t)[Len(s) + 1] = e
  BY <1>1
<1>3. Len(s) = Len(f) /\ Len(t) = 1
  <2>1. Len(s) + 1 \in 1..Len(s \o t) /\ Len(s \o t) <= Len(f) + 1
    BY <1>1 DEF Carries
  <2>2. Len(s) + 1 <= Len(f) => f[Len(s) + 1] = e
    BY <1>2, <2>1 DEF Carries
  <2>3. ~ (Len(s) + 1 <= Len(f))
    BY <1>1, <2>2
  <2> QED BY <1>1, <2>1, <2>3
<1>4. \A i \in 1..Len(s) : s[i] = f[i]
  <2> TAKE i \in 1..Len(s)
  <2>1. (s \o t)[i] = s[i] /\ i \in 1..Len(s \o t) /\ i <= Len(f)
    BY <1>1, <1>3
  <2> QED BY <2>1 DEF Carries
<1>5. s = f
  BY <1>3, <1>4, SeqEqual
<1>6. t = <<e>>
  BY <1>3
<1> QED BY <1>1, <1>3, <1>5, <1>6

LEMMA TextIsOfTheFile ==
  ASSUME NEW S, NEW s \in Seq(S), NEW t \in Seq(S), NEW f \in Seq(S), NEW e \in S,
         Carries(s \o t, f, e), IsPrefix(s, f),
         NEW k \in 1..Len(t), \A i \in 1..k : t[i] # e
  PROVE  IsPrefix(s \o First(k, t), f)
<1>1. /\ Len(s) \in Nat /\ Len(t) \in Nat /\ Len(f) \in Nat /\ k \in 1..Len(t)
      /\ Len(s \o t) = Len(s) + Len(t)
      /\ \A i \in 1..Len(t) : (s \o t)[Len(s) + i] = t[i]
      /\ \A i \in 1..Len(s) : (s \o t)[i] = s[i]
  OBVIOUS
<1>2. First(k, t) \in Seq(S) /\ Len(First(k, t)) = k /\ \A i \in 1..k : First(k, t)[i] = t[i]
  BY Splits
<1> DEFINE r == s \o First(k, t)
<1>3. r \in Seq(S) /\ Len(r) = Len(s) + k
  BY <1>2
<1>4. \A i \in 1..Len(r) : r[i] = (s \o t)[i]
  <2> TAKE i \in 1..Len(r)
  <2>1. CASE i <= Len(s)
    BY <1>1, <1>2, <1>3, <2>1
  <2>2. CASE i > Len(s)
    <3>1. r[i] = First(k, t)[i - Len(s)] /\ i - Len(s) \in 1..k
      BY <1>1, <1>2, <1>3, <2>2
    <3>2. (s \o t)[i] = t[i - Len(s)]
      BY <1>1, <1>3, <2>2
    <3> QED BY <3>1, <3>2, <1>2
  <2>3. i <= Len(s) \/ i > Len(s)
    BY <1>1, <1>3
  <2> QED BY <2>1, <2>2, <2>3, Zenon
<1>5. Len(s) + k <= Len(f)
  <2>1. (s \o t)[Len(s) + k] # e /\ Len(s) + k \in 1..Len(s \o t)
    BY <1>1
  <2> QED BY <1>1, <2>1 DEF Carries
<1>6. \A i \in 1..Len(r) : r[i] = f[i]
  <2> TAKE i \in 1..Len(r)
  <2>1. i \in 1..Len(s \o t) /\ i <= Len(f)
    BY <1>1, <1>3, <1>5
  <2> QED BY <1>4, <2>1 DEF Carries
<1> HIDE DEF r
<1>7. IsPrefix(r, f)
  BY <1>3, <1>5, <1>6, PrefixByElements
<1> QED BY <1>7 DEF r
-----------------------------------------------------------------------------
(* The types, by who has the variables. *)
ClientTypes ==
  /\ cpc \in {"start", "send", "recv", "prompt", "gone"}
  /\ file \in Seq(Pieces) /\ key \in Keys /\ sent \in 0..Len(file)
  /\ ended \in BOOLEAN /\ files \in 0..MaxFiles /\ pieces \in 0..MaxPieces
ServerTypes ==
  /\ spc \in {"none", "key", "recv", "encrypt", "reply", "choice", "done"}
  /\ encryption_key \in KeysTaken
  /\ spc = "reply" => pos \in 0..Len(temp)

LEMMA TypeParts ==
  TypeOK <=> /\ ClientTypes /\ ServerTypes
             /\ trouble \subseteq {"marker", "together", "empty", "failed", "disk"}
BY DEF TypeOK, ClientTypes, ServerTypes, KeysTaken

LEMMA TypePartsNext ==
  TypeOK' <=> /\ ClientTypes' /\ ServerTypes'
              /\ trouble' \subseteq {"marker", "together", "empty", "failed", "disk"}
BY DEF TypeOK, ClientTypes, ServerTypes, KeysTaken

LEMMA TroubledTypes ==
  ASSUME TypeOK, NEW e \in {"marker", "together", "empty", "failed", "disk"}, NEW b, Troubled(e, b)
  PROVE  trouble' \subseteq {"marker", "together", "empty", "failed", "disk"}
BY DEF TypeOK, Troubled

(* Nothing undoes a trouble. *)
LEMMA TroubledStays ==
  ASSUME NEW e, NEW b, Troubled(e, b), trouble' = {}
  PROVE  trouble = {} /\ ~b
BY DEF Troubled

LEMMA ExitTypes ==
  ASSUME ClientTypes, StreamTypes, Exits, UNCHANGED <<key, files, pieces>>
  PROVE  ClientTypes' /\ s2c' \in Seq(Back) /\ saved' \in Seq(Back) /\ GoneInv'
<1>1. /\ cpc' = "gone" /\ s2c' = <<>> /\ file' = <<>> /\ sent' = 0 /\ saved' = <<>>
      /\ ended' = FALSE
  BY DEF Exits
<1>2. sent' \in 0..Len(file') /\ file' \in Seq(Pieces)
  BY <1>1
<1>3. ClientTypes'
  BY <1>1, <1>2 DEF ClientTypes
<1>4. GoneInv'
  BY <1>1 DEF GoneInv, Fresh
<1> QED BY <1>1, <1>3, <1>4

LEMMA ClientStepTypes ==
  ASSUME IInv, Client
  PROVE  TypeOK' /\ StreamTypes' /\ GoneInv'
<1>0. /\ ClientTypes /\ ServerTypes /\ StreamTypes /\ GoneInv
      /\ trouble \subseteq {"marker", "together", "empty", "failed", "disk"}
  BY TypeParts DEF IInv
<1>1. CASE PicksFile
  <2>1. PICK n \in 0..(MaxPieces - pieces) : file' \in [1..n -> Pieces] /\ pieces' = pieces + n
    BY <1>1 DEF PicksFile
  <2>2. /\ cpc = "start" /\ files < MaxFiles /\ key' \in Keys /\ c2s' = Append(c2s, Key(key'))
        /\ sent' = 0 /\ saved' = <<>> /\ ended' = FALSE /\ files' = files + 1 /\ cpc' = "send"
        /\ Troubled("marker", Misleading(file', key'))
        /\ UNCHANGED <<s2c, server>>
    BY <1>1 DEF PicksFile
  <2>3. n \in Nat /\ n <= MaxPieces - pieces /\ pieces \in Nat /\ MaxPieces \in Nat
    BY <1>0, BoundsAssumption DEF ClientTypes
  <2>4. file' \in Seq(Pieces) /\ Len(file') = n
    BY <2>1, <2>3
  <2>5. ClientTypes'
    <3>1. sent' \in 0..Len(file')
      BY <2>2, <2>3, <2>4
    <3>2. pieces' \in 0..MaxPieces /\ files' \in 0..MaxFiles
      BY <1>0, <2>1, <2>2, <2>3, BoundsAssumption DEF ClientTypes
    <3> QED BY <2>2, <2>4, <3>1, <3>2 DEF ClientTypes
  <2>6. StreamTypes'
    BY <1>0, <2>2, PieceFacts DEF StreamTypes, server
  <2>7. ServerTypes' /\ GoneInv'
    BY <1>0, <2>2 DEF ServerTypes, server, GoneInv
  <2> QED BY <2>2, <2>5, <2>6, <2>7, TroubledTypes, TypePartsNext DEF IInv
<1>2. CASE SendsChunk
  <2>1. /\ cpc = "send" /\ sent < Len(file) /\ sent' = sent + 1
        /\ c2s' = Append(c2s, file[sent + 1])
        /\ UNCHANGED <<s2c, cpc, file, key, saved, ended, files, pieces, server, trouble>>
    BY <1>2 DEF SendsChunk
  <2>2. sent' \in 0..Len(file) /\ file[sent + 1] \in Pieces
    BY <1>0, <2>1 DEF ClientTypes
  <2>3. ClientTypes' /\ ServerTypes' /\ GoneInv'
    BY <1>0, <2>1, <2>2 DEF ClientTypes, ServerTypes, server, GoneInv, Fresh
  <2>4. StreamTypes'
    BY <1>0, <2>1, <2>2, PieceFacts DEF StreamTypes, server
  <2> QED BY <1>0, <2>1, <2>3, <2>4, TypePartsNext
<1>3. CASE SendsEnd
  <2>1. ClientTypes' /\ ServerTypes' /\ GoneInv'
    BY <1>0, <1>3 DEF SendsEnd, ClientTypes, ServerTypes, server, GoneInv
  <2>2. StreamTypes'
    BY <1>0, <1>3, PieceFacts DEF SendsEnd, StreamTypes, server
  <2> QED BY <1>0, <1>3, <2>1, <2>2, TypePartsNext DEF SendsEnd
<1>4. CASE SeesEof
  <2>1. ClientTypes' /\ ServerTypes' /\ GoneInv' /\ StreamTypes'
    BY <1>0, <1>4 DEF SeesEof, ClientTypes, ServerTypes, server, GoneInv, StreamTypes
  <2> QED BY <1>0, <1>4, <2>1, TypePartsNext DEF SeesEof
<1>5. ASSUME NEW k \in 1..Len(s2c), SavesReply(k) PROVE TypeOK' /\ StreamTypes' /\ GoneInv'
  <2>1. /\ cpc = "recv" /\ s2c' = After(k, s2c)
        /\ \/ cpc' = "prompt" /\ ended' = TRUE /\ UNCHANGED saved
           \/ saved' = saved \o First(k, s2c) /\ UNCHANGED <<cpc, ended>>
        /\ Troubled("together", k > 1 /\ Contains(First(k, s2c), END))
        /\ UNCHANGED <<c2s, file, key, sent, files, pieces, server>>
    BY <1>5 DEF SavesReply
  <2>2. First(k, s2c) \in Seq(Back) /\ After(k, s2c) \in Seq(Back)
    BY <1>0, Splits DEF StreamTypes
  <2>3. saved' \in Seq(Back)
    <3>1. saved \o First(k, s2c) \in Seq(Back)
      BY <1>0, <2>2, ConcatProperties DEF StreamTypes
    <3> QED BY <1>0, <2>1, <3>1 DEF StreamTypes
  <2>4. ClientTypes' /\ ServerTypes' /\ GoneInv' /\ StreamTypes'
    BY <1>0, <2>1, <2>2, <2>3 DEF ClientTypes, ServerTypes, server, GoneInv, StreamTypes
  <2> QED BY <2>1, <2>4, TroubledTypes, TypePartsNext DEF IInv
<1>6. ASSUME NEW a \in {"Yes", "No", "no", ""}, Answers(a)
      PROVE  TypeOK' /\ StreamTypes' /\ GoneInv'
  <2>1. /\ cpc = "prompt" /\ c2s' = IF a = "" THEN c2s ELSE Append(c2s, Choice(a))
        /\ \/ Exits
           \/ cpc' = "start" /\ UNCHANGED <<s2c, file, sent, saved, ended>>
        /\ Troubled("empty", a = "")
        /\ UNCHANGED <<key, files, pieces, server>>
    BY <1>6 DEF Answers
  <2>2. c2s' \in Seq(Sent)
    <3>1. CASE a = ""
      BY <1>0, <2>1, <3>1 DEF StreamTypes
    <3>2. CASE a # ""
      <4>1. Choice(a) \in Sent
        BY <3>2, PieceFacts
      <4>2. c2s' = Append(c2s, Choice(a))
        BY <2>1, <3>2
      <4>3. \A e \in Sent : Append(c2s, e) \in Seq(Sent)
        BY <1>0, Appended DEF StreamTypes
      <4> QED BY <4>1, <4>2, <4>3, Zenon
    <3> QED BY <3>1, <3>2
  <2>3. ClientTypes' /\ s2c' \in Seq(Back) /\ saved' \in Seq(Back) /\ GoneInv'
    <3>1. CASE Exits
      BY <1>0, <2>1, <3>1, ExitTypes
    <3>2. CASE cpc' = "start" /\ UNCHANGED <<s2c, file, sent, saved, ended>>
      BY <1>0, <2>1, <3>2 DEF ClientTypes, StreamTypes, GoneInv
    <3> QED BY <2>1, <3>1, <3>2
  <2>4. ServerTypes' /\ StreamTypes'
    BY <1>0, <2>1, <2>2, <2>3 DEF ServerTypes, StreamTypes, server
  <2> QED BY <2>1, <2>3, <2>4, TroubledTypes, TypePartsNext DEF IInv
<1>7. CASE Leaves
  <2>1. Exits /\ UNCHANGED <<c2s, key, files, pieces, server, trouble>>
    BY <1>7 DEF Leaves
  <2>2. ClientTypes' /\ s2c' \in Seq(Back) /\ saved' \in Seq(Back) /\ GoneInv'
    BY <1>0, <2>1, ExitTypes
  <2>3. ServerTypes' /\ StreamTypes'
    BY <1>0, <2>1, <2>2 DEF ServerTypes, StreamTypes, server
  <2> QED BY <1>0, <2>1, <2>2, <2>3, TypePartsNext
<1> QED BY <1>1, <1>2, <1>3, <1>4, <1>5, <1>6, <1>7 DEF Client, ClientRuns

LEMMA ServerStepTypes ==
  ASSUME IInv, Server
  PROVE  TypeOK' /\ StreamTypes' /\ GoneInv' /\ UNCHANGED client
<1>0. /\ ClientTypes /\ ServerTypes /\ StreamTypes /\ GoneInv
      /\ trouble \subseteq {"marker", "together", "empty", "failed", "disk"}
  BY TypeParts DEF IInv
<1>c. UNCHANGED client => ClientTypes' /\ GoneInv' /\ saved' \in Seq(Back)
  BY <1>0 DEF ClientTypes, GoneInv, Fresh, StreamTypes, client
<1>d. \A k \in 1..Len(c2s) : Cut(k, c2s) \subseteq Seq(Sent)
  <2> TAKE k \in 1..Len(c2s)
  <2>1. After(k, c2s) \in Seq(Sent)
    BY <1>0, Splits DEF StreamTypes
  <2> QED BY <2>1, PieceFacts DEF Cut
<1>1. CASE Forks \/ ContentEnds \/ Dies \/ Disconnected
  BY <1>0, <1>c, <1>1, TypePartsNext
     DEF Forks, ContentEnds, Dies, Disconnected, Goto, ServerTypes, StreamTypes
<1>2. CASE TakesKey
  <2>1. /\ c2s # <<>>
        /\ \/ Head(c2s).type = "key" /\ encryption_key' = Head(c2s) /\ c2s' = Tail(c2s)
           \/ encryption_key' = Junk /\ \E k \in 1..Len(c2s) : c2s' \in Cut(k, c2s)
        /\ \/ temp' = <<>> /\ spc' = "recv" /\ UNCHANGED trouble
           \/ Troubled("failed", TRUE) /\ UNCHANGED <<spc, temp>>
        /\ spc = "key" /\ UNCHANGED <<s2c, client, pos>>
    BY <1>2 DEF TakesKey, CreatesTemp, Goto
  <2>2. c2s' \in Seq(Sent)
    <3>1. Tail(c2s) \in Seq(Sent)
      BY <1>0, <2>1 DEF StreamTypes
    <3> QED BY <1>d, <2>1, <3>1
  <2>3. encryption_key' \in KeysTaken
    <3>1. Head(c2s) \in Sent
      BY <1>0, <2>1 DEF StreamTypes
    <3>2. \A y \in Sent : y.type = "key" => y \in KeysTaken
      BY DEF Sent, Pieces, KeysTaken, Data, END, Preimage, Choice, Junk, Key
    <3> QED BY <2>1, <3>1, <3>2, PieceFacts
  <2>4. ServerTypes' /\ StreamTypes'
    <3>0. temp' = <<>> \/ temp' = temp
      BY <2>1
    <3>1. temp' \in Seq(Sent)
      <4>1. temp \in Seq(Sent) /\ <<>> \in Seq(Sent)
        BY <1>0 DEF StreamTypes
      <4> QED BY <3>0, <4>1, Zenon
    <3>2. StreamTypes'
      BY <1>0, <1>c, <2>1, <2>2, <3>1 DEF StreamTypes
    <3>3. spc' \in {"recv", "key"}
      BY <2>1
    <3>4. ServerTypes'
      BY <2>3, <3>3 DEF ServerTypes
    <3> QED BY <3>2, <3>4
  <2>5. trouble' \subseteq {"marker", "together", "empty", "failed", "disk"}
    BY <1>0, <2>1, TroubledTypes DEF IInv
  <2> QED BY <1>c, <2>1, <2>4, <2>5, TypePartsNext
<1>3. ASSUME NEW k \in 1..Len(c2s), StoresChunk(k)
      PROVE  TypeOK' /\ StreamTypes' /\ GoneInv' /\ UNCHANGED client
  <2>1. /\ spc = "recv" /\ c2s' = After(k, c2s)
        /\ \/ spc' = "encrypt" /\ UNCHANGED temp
           \/ temp' = temp \o First(k, c2s) /\ UNCHANGED spc
        /\ Troubled("together", k > 1 /\ Contains(First(k, c2s), END))
        /\ UNCHANGED <<s2c, client, encryption_key, pos>>
    BY <1>3 DEF StoresChunk, Goto
  <2>2. First(k, c2s) \in Seq(Sent) /\ After(k, c2s) \in Seq(Sent)
    BY <1>0, Splits DEF StreamTypes
  <2>3. temp' \in Seq(Sent)
    <3>1. temp \o First(k, c2s) \in Seq(Sent)
      BY <1>0, <2>2, ConcatProperties DEF StreamTypes
    <3> QED BY <1>0, <2>1, <3>1 DEF StreamTypes
  <2>4. ServerTypes' /\ StreamTypes'
    BY <1>0, <1>c, <2>1, <2>2, <2>3 DEF ServerTypes, StreamTypes
  <2> QED BY <1>c, <2>1, <2>4, TroubledTypes, TypePartsNext DEF IInv
<1>4. CASE Encrypts
  <2>1. /\ \/ spc' = "reply" /\ pos' = 0 /\ UNCHANGED <<temp, trouble>>
           \/ spc' = "reply" /\ pos' = 0 /\ LosesText /\ Troubled("disk", TRUE)
           \/ spc' = "key" /\ Troubled("failed", TRUE) /\ UNCHANGED <<pos, temp>>
        /\ UNCHANGED <<c2s, s2c, client, encryption_key>>
    BY <1>4 DEF Encrypts, Goto, FromBeginning
  <2>a. LosesText => temp' \in Seq(Sent)
    <3> SUFFICES ASSUME NEW k \in 0..(Len(temp) - 1),
                        temp' \in {First(k, temp), Append(First(k, temp), Junk)}
                 PROVE  temp' \in Seq(Sent)
      BY DEF LosesText
    <3>1. temp \in Seq(Sent) /\ k \in 0..Len(temp)
      BY <1>0 DEF StreamTypes
    <3>2. First(k, temp) \in Seq(Sent)
      BY <3>1, Splits
    <3> QED BY <3>2, PieceFacts
  <2>b. temp' \in Seq(Sent)
    BY <1>0, <2>1, <2>a DEF StreamTypes
  <2>2. Len(temp') \in Nat
    BY <2>b
  <2>3. ServerTypes' /\ StreamTypes'
    <3>1. (spc' = "reply" /\ pos' = 0) \/ spc' = "key"
      BY <2>1
    <3>2. ServerTypes'
      BY <1>0, <2>1, <2>2, <3>1 DEF ServerTypes
    <3> QED BY <1>0, <1>c, <2>1, <2>b, <3>2 DEF StreamTypes
  <2>4. trouble' \subseteq {"marker", "together", "empty", "failed", "disk"}
    BY <1>0, <2>1, TroubledTypes DEF IInv
  <2> QED BY <1>c, <2>1, <2>3, <2>4, TypePartsNext
<1>5. CASE SendsBack
  <2>1. /\ spc = "reply" /\ pos < Len(temp) /\ pos' = pos + 1
        /\ Sends(encrypt(temp[pos + 1], encryption_key))
        /\ UNCHANGED <<c2s, client, spc, encryption_key, temp, trouble>>
    BY <1>5 DEF SendsBack
  <2>2. pos \in 0..Len(temp) /\ Len(temp) \in Nat /\ temp[pos + 1] \in Sent
    BY <1>0, <2>1 DEF ServerTypes, StreamTypes
  <2>3. encrypt(temp[pos + 1], encryption_key) \in Back
    BY <1>0, <2>2, EncryptFacts DEF ServerTypes
  <2>4. s2c' \in Seq(Back)
    BY <1>0, <2>1, <2>3 DEF Sends, StreamTypes
  <2>5. ServerTypes' /\ StreamTypes'
    BY <1>0, <1>c, <2>1, <2>2, <2>4 DEF ServerTypes, StreamTypes
  <2> QED BY <1>0, <1>c, <2>1, <2>5, TypePartsNext
<1>6. CASE SendsBackEnd
  <2>1. s2c' \in Seq(Back)
    BY <1>0, <1>6, PieceFacts DEF SendsBackEnd, Sends, StreamTypes
  <2>2. ServerTypes' /\ StreamTypes'
    BY <1>0, <1>c, <1>6, <2>1 DEF SendsBackEnd, Goto, ServerTypes, StreamTypes
  <2> QED BY <1>0, <1>c, <1>6, <2>2, TypePartsNext DEF SendsBackEnd
<1>7. ASSUME NEW k \in 1..Len(c2s), TakesChoice(k)
      PROVE  TypeOK' /\ StreamTypes' /\ GoneInv' /\ UNCHANGED client
  <2>1. /\ c2s' \in Cut(k, c2s) /\ spc' \in {"done", "key"}
        /\ Troubled("together", k > 1 \/ c2s' # After(k, c2s))
        /\ UNCHANGED <<s2c, client, encryption_key, temp, pos>>
    BY <1>7 DEF TakesChoice, Goto
  <2>2. ServerTypes' /\ StreamTypes'
    BY <1>0, <1>c, <1>d, <2>1 DEF ServerTypes, StreamTypes
  <2> QED BY <1>c, <2>1, <2>2, TroubledTypes, TypePartsNext DEF IInv
<1> QED BY <1>1, <1>2, <1>3, <1>4, <1>5, <1>6, <1>7 DEF Server
-----------------------------------------------------------------------------
LEMMA EncryptedFile ==
  ASSUME NEW f \in Seq(Pieces), NEW k \in Keys
  PROVE  LET e == [i \in 1..Len(f) |-> encrypt(f[i], Key(k))]
         IN  /\ e \in Seq(Back) /\ Len(e) = Len(f)
             /\ \A i \in 1..Len(f) : e[i] = encrypt(f[i], Key(k))
             /\ \A i \in 1..Len(f) : f[i] # Preimage(k) => e[i] # END
<1> DEFINE e == [i \in 1..Len(f) |-> encrypt(f[i], Key(k))]
<1>1. Len(f) \in Nat /\ \A i \in 1..Len(f) : f[i] \in Sent
  BY PieceFacts
<1>2. \A i \in 1..Len(f) : encrypt(f[i], Key(k)) \in Back
  BY <1>1, PieceFacts, EncryptFacts
<1>3. e \in Seq(Back) /\ Len(e) = Len(f)
  BY <1>1, <1>2
<1>4. \A i \in 1..Len(f) : e[i] = encrypt(f[i], Key(k))
  BY <1>1
<1>5. ASSUME NEW i \in 1..Len(f), f[i] # Preimage(k) PROVE e[i] # END
  BY <1>1, <1>4, <1>5, EncryptFacts
<1> QED BY <1>3, <1>4, <1>5

LEMMA ResultFacts ==
  ASSUME ClientTypes
  PROVE  /\ Result \in Seq(Back) /\ Len(Result) = Len(file)
         /\ \A i \in 1..Len(file) : Result[i] = encrypt(file[i], Key(key))
         /\ Plain => \A i \in 1..Len(Result) : Result[i] # END
BY EncryptedFile DEF ClientTypes, Result, Plain

LEMMA BodyFacts ==
  ASSUME ClientTypes
  PROVE  Body \in Seq(Sent) /\ <<Key(key)>> \o Body \in Seq(Sent)
<1>1. file \in Seq(Sent) /\ END \in Sent /\ sent \in 0..Len(file) /\ Key(key) \in Sent
  BY PieceFacts, SeqMonotonic DEF ClientTypes
<1>2. First(sent, file) \in Seq(Sent)
  BY <1>1, Splits
<1>3. Append(file, END) \in Seq(Sent)
  BY <1>1, Appended
<1>4. Body \in Seq(Sent)
  BY <1>2, <1>3 DEF Body
<1>5. <<Key(key)>> \in Seq(Sent)
  BY <1>1
<1> QED BY <1>4, <1>5, ConcatProperties

(* A prefix of a file, and the file with its marker, are such streams. *)
LEMMA CarriesPrefix ==
  ASSUME NEW S, NEW f \in Seq(S), NEW e \in S, NEW n \in 0..Len(f)
  PROVE  Carries(First(n, f), f, e)
BY Splits DEF Carries

LEMMA CarriesAll ==
  ASSUME NEW S, NEW f \in Seq(S), NEW e \in S
  PROVE  Carries(Append(f, e), f, e) /\ Len(Append(f, e)) = Len(f) + 1
BY DEF Carries

LEMMA EmptyPrefix ==
  ASSUME NEW S, NEW f \in Seq(S)
  PROVE  IsPrefix(<<>>, f)
<1>1. <<>> \in Seq(S) /\ Len(<<>>) = 0 /\ Len(f) \in Nat
  OBVIOUS
<1>2. Len(<<>>) <= Len(f) /\ \A i \in 1..Len(<<>>) : <<>>[i] = f[i]
  BY <1>1
<1> QED BY <1>1, <1>2, PrefixByElements
-----------------------------------------------------------------------------
(* The client sends the next piece of the file, or the marker. *)
LEMMA UploadGrows ==
  ASSUME TypeOK, StreamTypes, Undisturbed, cpc = "send", NEW e \in Sent,
         c2s' = Append(c2s, e), Body' = Append(Body, e), cpc' \in {"send", "recv"},
         UNCHANGED <<s2c, file, key, saved, ended, server>>
  PROVE  Undisturbed'
<1>1. ClientTypes /\ Body \in Seq(Sent) /\ <<Key(key)>> \in Seq(Sent)
  BY TypeParts, BodyFacts, PieceFacts DEF ClientTypes
<1>2. Upload = <<Key(key)>> \o Body /\ Upload' = <<Key(key)>> \o Append(Body, e)
  BY DEF Upload
<1>3. Upload' = Append(Upload, e) /\ Upload \in Seq(Sent)
  BY <1>1, <1>2, Joins, BodyFacts
<1>4. Plain' /\ Saved' /\ (Fresh' <=> Fresh) /\ Result' = Result
  BY DEF Undisturbed, Plain, Saved, Fresh, Result
<1>5. AtKey'
  BY <1>3, <1>4 DEF Undisturbed, AtKey, Unread, server
<1>6. AtRecv'
  <2> SUFFICES ASSUME spc = "recv"
               PROVE  Expected' /\ temp' \o c2s' = Body' /\ IsPrefix(temp', file')
    BY DEF AtRecv, server
  <2>1. Expected /\ temp \o c2s = Body /\ IsPrefix(temp, file)
    BY DEF Undisturbed, AtRecv
  <2>2. temp \o Append(c2s, e) = Append(temp \o c2s, e)
    BY Joins DEF StreamTypes
  <2> QED BY <1>4, <2>1, <2>2 DEF Expected, server
<1>7. AtEncrypt' /\ AtReply'
  BY DEF Undisturbed, AtEncrypt, AtReply, Held, server
<1>8. AtChoice'
  <2> SUFFICES ASSUME spc = "choice" PROVE Unread' /\ c2s' = <<Choice("Yes")>> \o Upload'
    BY DEF AtChoice, server
  <2>1. Unread /\ c2s = <<Choice("Yes")>> \o Upload
    BY DEF Undisturbed, AtChoice
  <2>2. <<Choice("Yes")>> \in Seq(Sent)
    BY PieceFacts
  <2>3. <<Choice("Yes")>> \o Append(Upload, e) = Append(<<Choice("Yes")>> \o Upload, e)
    BY <1>3, <2>2, Joins
  <2> QED BY <1>3, <1>4, <2>1, <2>3 DEF Unread
<1>9. AtDone'
  BY <1>4 DEF Undisturbed, AtDone, server
<1> QED BY <1>4, <1>5, <1>6, <1>7, <1>8, <1>9 DEF Undisturbed

LEMMA SendsChunkInv == ASSUME IInv, SendsChunk PROVE StreamInv'
<1> SUFFICES ASSUME trouble' = {}, cpc' # "gone" PROVE Undisturbed'
  BY DEF StreamInv
<1>1. /\ cpc = "send" /\ sent < Len(file) /\ sent' = sent + 1
      /\ c2s' = Append(c2s, file[sent + 1])
      /\ UNCHANGED <<s2c, cpc, file, key, saved, ended, files, pieces, server, trouble>>
  BY DEF SendsChunk
<1>2. TypeOK /\ StreamTypes /\ Undisturbed /\ ClientTypes
  BY <1>1, TypeParts DEF IInv, StreamInv
<1>3. file \in Seq(Sent) /\ sent \in 0..Len(file) /\ file[sent + 1] \in Sent
  BY <1>1, <1>2, PieceFacts, SeqMonotonic DEF ClientTypes
<1>4. First(sent + 1, file) = Append(First(sent, file), file[sent + 1])
  BY <1>1, <1>3, FirstGrows
<1>5. Body' = Append(Body, file[sent + 1])
  BY <1>1, <1>4 DEF Body
<1> QED BY <1>1, <1>2, <1>3, <1>5, UploadGrows

LEMMA SendsEndInv == ASSUME IInv, SendsEnd PROVE StreamInv'
<1> SUFFICES ASSUME trouble' = {}, cpc' # "gone" PROVE Undisturbed'
  BY DEF StreamInv
<1>1. /\ cpc = "send" /\ sent = Len(file) /\ cpc' = "recv"
      /\ c2s' = Append(c2s, END)
      /\ UNCHANGED <<s2c, file, key, sent, saved, ended, files, pieces, server, trouble>>
  BY DEF SendsEnd
<1>2. TypeOK /\ StreamTypes /\ Undisturbed /\ ClientTypes
  BY <1>1, TypeParts DEF IInv, StreamInv
<1>3. First(sent, file) = file
  BY <1>1, <1>2, SubSeqFull DEF First, ClientTypes
<1>4. Body' = Append(Body, END)
  BY <1>1, <1>3 DEF Body
<1> QED BY <1>1, <1>2, <1>4, UploadGrows, PieceFacts

(* A new file: what is left of the last one is the answer, at most. *)
LEMMA PicksFileInv == ASSUME IInv, PicksFile PROVE StreamInv'
<1> SUFFICES ASSUME trouble' = {}, cpc' # "gone" PROVE Undisturbed'
  BY DEF StreamInv
<1>1. /\ cpc = "start" /\ c2s' = Append(c2s, Key(key')) /\ sent' = 0
      /\ saved' = <<>> /\ ended' = FALSE /\ cpc' = "send"
      /\ Troubled("marker", Misleading(file', key'))
      /\ UNCHANGED <<s2c, server>>
  BY DEF PicksFile
<1>2. trouble = {} /\ ~Misleading(file', key')
  BY <1>1, TroubledStays
<1>3. StreamTypes /\ Undisturbed /\ ClientTypes'
  BY <1>1, <1>2, ClientStepTypes, TypePartsNext DEF IInv, StreamInv, Client
<1>4. Plain' /\ Fresh'
  BY <1>1, <1>2 DEF Plain, Misleading, Fresh
<1>5. Result' \in Seq(Back)
  BY <1>3, EncryptedFile DEF ClientTypes, Result
<1>6. Saved'
  BY <1>1, <1>5, EmptyPrefix DEF Saved
<1>7. Body' = <<>>
  <2>1. First(0, file') \in Seq(Pieces) /\ Len(First(0, file')) = 0
    BY <1>3, Splits DEF ClientTypes
  <2> QED BY <1>1, <2>1 DEF Body
<1>8. /\ Upload = <<>> /\ Upload' = <<Key(key')>> /\ Append(<<>>, Key(key')) = <<Key(key')>>
      /\ Key(key') \in Sent
  <2>1. Key(key') \in Sent
    BY <1>3, PieceFacts DEF ClientTypes
  <2>2. <<Key(key')>> \o <<>> = <<Key(key')>> /\ Append(<<>>, Key(key')) = <<Key(key')>>
    BY <2>1, OnePiece
  <2> QED BY <1>1, <1>7, <2>1, <2>2 DEF Upload
<1>9. AtKey'
  BY <1>1, <1>3, <1>4, <1>8 DEF Undisturbed, AtKey, Unread, server
<1>10. AtRecv' /\ AtEncrypt' /\ AtReply' /\ AtDone'
  BY <1>1, <1>3, <1>4 DEF Undisturbed, AtRecv, AtEncrypt, AtReply, AtDone, Expected, Held, server
<1>11. AtChoice'
  <2> SUFFICES ASSUME spc = "choice" PROVE Unread' /\ c2s' = <<Choice("Yes")>> \o Upload'
    BY <1>1 DEF AtChoice, server
  <2>1. Unread /\ c2s = <<Choice("Yes")>> \o <<>>
    BY <1>1, <1>3, <1>8 DEF Undisturbed, AtChoice
  <2>2. <<Choice("Yes")>> \in Seq(Sent) /\ <<>> \in Seq(Sent)
    BY PieceFacts
  <2>3. <<Choice("Yes")>> \o Append(<<>>, Key(key')) = Append(<<Choice("Yes")>> \o <<>>, Key(key'))
    BY <1>8, <2>2, Joins
  <2> QED BY <1>1, <1>4, <1>8, <2>1, <2>3 DEF Unread
<1> QED BY <1>4, <1>6, <1>9, <1>10, <1>11 DEF Undisturbed

(* The client takes what has come back: text of the result, or the marker  *)
(* after all of it.                                                        *)
LEMMA SavesReplyInv ==
  ASSUME IInv, NEW k \in 1..Len(s2c), SavesReply(k) PROVE StreamInv'
<1> SUFFICES ASSUME trouble' = {}, cpc' # "gone" PROVE Undisturbed'
  BY DEF StreamInv
<1>1. /\ cpc = "recv" /\ s2c' = After(k, s2c)
      /\ IF Head(s2c) = END
           THEN cpc' = "prompt" /\ ended' = TRUE /\ UNCHANGED saved
           ELSE saved' = saved \o First(k, s2c) /\ UNCHANGED <<cpc, ended>>
      /\ Troubled("together", k > 1 /\ Contains(First(k, s2c), END))
      /\ UNCHANGED <<c2s, file, key, sent, files, pieces, server>>
  BY DEF SavesReply
<1>2. trouble = {} /\ ~(k > 1 /\ Contains(First(k, s2c), END))
  BY <1>1, TroubledStays
<1>3. ClientTypes /\ StreamTypes /\ Undisturbed
  BY <1>1, <1>2, TypeParts DEF IInv, StreamInv
<1>4. /\ Result \in Seq(Back) /\ Len(Result) = Len(file)
      /\ \A i \in 1..Len(Result) : Result[i] # END
  BY <1>3, ResultFacts DEF Undisturbed
<1>5. s2c \in Seq(Back) /\ saved \in Seq(Back) /\ s2c # <<>> /\ END \in Back
  BY <1>3, PieceFacts DEF StreamTypes
<1>6. /\ spc \in {"reply", "choice"} /\ c2s = <<>> /\ ~ended
      /\ spc = "reply" => Held /\ saved \o s2c = First(pos, Result) /\ pos \in 0..Len(Result)
      /\ spc = "choice" => saved \o s2c = Append(Result, END)
  <2>1. spc \in {"none", "key", "recv", "encrypt", "reply", "choice", "done"}
    BY TypeParts DEF IInv, ServerTypes
  <2>2. spc \notin {"none", "key", "recv", "encrypt", "done"}
    BY <1>3, <1>5 DEF Undisturbed, AtKey, AtRecv, AtEncrypt, AtDone, Unread, Expected
  <2>3. spc = "reply" => /\ Held /\ saved \o s2c = First(pos, Result)
                         /\ pos \in 0..Len(temp) /\ temp = file
    BY <1>3, TypeParts DEF IInv, Undisturbed, AtReply, Held, ServerTypes
  <2>4. spc = "choice" => c2s = <<>> /\ ~ended /\ saved \o s2c = Append(Result, END)
    BY <1>1, <1>3, <1>5 DEF Undisturbed, AtChoice, Unread
  <2> QED BY <1>4, <2>1, <2>2, <2>3, <2>4 DEF Held
<1>7. Carries(saved \o s2c, Result, END)
  <2>1. CASE spc = "reply"
    BY <1>4, <1>5, <1>6, <2>1, CarriesPrefix
  <2>2. CASE spc = "choice"
    BY <1>4, <1>5, <1>6, <2>2, CarriesAll
  <2> QED BY <1>6, <2>1, <2>2
<1>8. Result' = Result /\ Plain' /\ spc' = spc
  BY <1>1, <1>3 DEF Result, Plain, Undisturbed, server
<1>9. CASE Head(s2c) = END
  <2>1. saved = Result /\ s2c = <<END>> /\ Len(saved \o s2c) = Len(Result) + 1
    BY <1>4, <1>5, <1>7, <1>9, MarkerEnds
  <2>2. spc = "choice"
    <3>1. CASE spc = "reply"
      BY <1>4, <1>6, <2>1, <3>1, Splits
    <3> QED BY <1>6, <3>1
  <2>3. s2c' = <<>>
    <3>1. k = 1 /\ Len(s2c) = 1
      BY <2>1
    <3>2. k \in 0..Len(s2c)
      BY <3>1
    <3>3. After(k, s2c) \in Seq(Back) /\ Len(After(k, s2c)) = Len(s2c) - k
      BY <1>5, <3>2, Splits
    <3> QED BY <1>1, <3>1, <3>3
  <2>4. Saved'
    <3>1. IsPrefix(Result, Result)
      BY <1>4, PrefixByElements
    <3> QED BY <1>1, <1>8, <1>9, <2>1, <3>1 DEF Saved
  <2>5. AtChoice'
    BY <1>1, <1>6, <1>9, <2>3 DEF AtChoice
  <2> QED BY <1>8, <2>2, <2>4, <2>5
          DEF Undisturbed, AtKey, AtRecv, AtEncrypt, AtReply, AtDone
<1>10. CASE Head(s2c) # END
  <2>1. \A i \in 1..k : s2c[i] # END
    <3>1. /\ Len(First(k, s2c)) = k /\ \A i \in 1..k : First(k, s2c)[i] = s2c[i]
      BY <1>5, Splits
    <3>2. k = 1 \/ ~Contains(First(k, s2c), END)
      BY <1>2
    <3>3. s2c[1] # END
      BY <1>5, <1>10
    <3> QED BY <3>1, <3>2, <3>3 DEF Contains
  <2>2. IsPrefix(saved, Result)
    BY <1>3 DEF Undisturbed, Saved
  <2>3. IsPrefix(saved \o First(k, s2c), Result)
    BY <1>4, <1>5, <1>7, <2>1, <2>2, TextIsOfTheFile
  <2>4. saved' \o s2c' = saved \o s2c
    <3>1. k \in 0..Len(s2c)
      BY <1>5
    <3>2. (saved \o First(k, s2c)) \o After(k, s2c) = saved \o s2c
      BY <1>5, <3>1, Moves
    <3> QED BY <1>1, <1>10, <3>2
  <2>5. ~ended' /\ cpc' = "recv" /\ c2s' = <<>>
    BY <1>1, <1>6, <1>10
  <2>6. Saved'
    BY <1>1, <1>8, <1>10, <2>3, <2>5 DEF Saved
  <2>7. AtReply'
    BY <1>1, <1>6, <1>8, <2>4, <2>5 DEF AtReply, Held, server
  <2>8. AtChoice'
    BY <1>6, <1>8, <2>4, <2>5 DEF AtChoice
  <2> QED BY <1>6, <1>8, <2>6, <2>7, <2>8
          DEF Undisturbed, AtKey, AtRecv, AtEncrypt, AtDone
<1> QED BY <1>9, <1>10

LEMMA SeesEofInv == ASSUME IInv, SeesEof PROVE StreamInv'
<1> SUFFICES ASSUME trouble' = {}, cpc' # "gone" PROVE Undisturbed'
  BY DEF StreamInv
<1>1. /\ cpc = "recv" /\ s2c = <<>> /\ spc = "done" /\ cpc' = "prompt"
      /\ UNCHANGED <<c2s, s2c, file, key, sent, saved, ended, files, pieces, server, trouble>>
  BY DEF SeesEof
<1>2. Undisturbed
  BY <1>1 DEF IInv, StreamInv
<1>3. Plain' /\ Saved' /\ (Fresh' <=> Fresh)
  BY <1>1, <1>2 DEF Undisturbed, Plain, Saved, Fresh, Result
<1> QED BY <1>1, <1>2, <1>3
        DEF Undisturbed, AtKey, AtRecv, AtEncrypt, AtReply, AtChoice, AtDone, server

LEMMA AnswersInv ==
  ASSUME IInv, NEW a \in {"Yes", "No", "no", ""}, Answers(a) PROVE StreamInv'
<1> SUFFICES ASSUME trouble' = {}, cpc' # "gone" PROVE Undisturbed'
  BY DEF StreamInv
<1>0. cpc = "prompt" /\ Troubled("empty", a = "") /\ UNCHANGED <<key, files, pieces, server>>
  BY DEF Answers
<1>1. trouble = {} /\ a = "Yes"
  <2>1. trouble = {} /\ a # ""
    BY <1>0, TroubledStays
  <2>2. a \in {"No", "no"} => cpc' = "gone"
    BY DEF Answers, Exits
  <2> QED BY <2>1, <2>2
<1>2. cpc' = "start" /\ c2s' = Append(c2s, Choice("Yes")) /\ UNCHANGED <<s2c, file, sent, saved, ended>>
  BY <1>1 DEF Answers
<1>3. StreamTypes /\ Undisturbed
  BY <1>0, <1>1 DEF IInv, StreamInv
<1>4. Plain' /\ Saved' /\ (Fresh' <=> Fresh)
  BY <1>0, <1>2, <1>3 DEF Undisturbed, Plain, Saved, Fresh, Result
<1>5. spc \notin {"none", "key", "recv", "encrypt", "reply"} /\ spc' = spc
  BY <1>0, <1>3 DEF Undisturbed, AtKey, AtRecv, AtEncrypt, AtReply, Unread, Expected, Held, server
<1>6. AtChoice'
  <2> SUFFICES ASSUME spc = "choice" PROVE Unread' /\ c2s' = <<Choice("Yes")>> \o Upload'
    BY <1>5 DEF AtChoice
  <2>1. c2s = <<>> /\ s2c = <<>>
    BY <1>0, <1>3 DEF Undisturbed, AtChoice, Unread
  <2>2. <<Choice("Yes")>> \in Seq(Sent) /\ Append(<<>>, Choice("Yes")) = <<Choice("Yes")>>
    BY PieceFacts, OnePiece
  <2>3. <<Choice("Yes")>> \o <<>> = <<Choice("Yes")>>
    BY PieceFacts, OnePiece
  <2>4. Upload' = <<>>
    BY <1>2 DEF Upload
  <2> QED BY <1>2, <2>1, <2>2, <2>3, <2>4 DEF Unread
<1>7. AtDone'
  BY <1>2, <1>3, <1>4, <1>5 DEF Undisturbed, AtDone
<1> QED BY <1>4, <1>5, <1>6, <1>7 DEF Undisturbed, AtKey, AtRecv, AtEncrypt, AtReply
-----------------------------------------------------------------------------
(* The child: it changes nothing of the client's. *)
LEMMA ServerKeeps ==
  ASSUME Undisturbed, UNCHANGED client
  PROVE  /\ Plain' /\ Saved' /\ (Fresh' <=> Fresh) /\ cpc' = cpc
         /\ Body' = Body /\ Upload' = Upload /\ Result' = Result
BY DEF Undisturbed, client, Plain, Saved, Fresh, Body, Upload, Result

LEMMA ForksInv == ASSUME IInv, Forks PROVE StreamInv'
<1> SUFFICES ASSUME trouble' = {}, cpc' # "gone" PROVE Undisturbed'
  BY DEF StreamInv
<1>1. /\ spc = "none" /\ spc' \in {"key", "done"}
      /\ UNCHANGED <<c2s, s2c, client, encryption_key, temp, pos, trouble>>
  BY DEF Forks, Goto
<1>2. Undisturbed
  BY <1>1 DEF IInv, StreamInv, client
<1> QED BY <1>1, <1>2, ServerKeeps
        DEF Undisturbed, AtKey, AtRecv, AtEncrypt, AtReply, AtChoice, AtDone, Unread

LEMMA TakesKeyInv == ASSUME IInv, TakesKey PROVE StreamInv'
<1> SUFFICES ASSUME trouble' = {}, cpc' # "gone" PROVE Undisturbed'
  BY DEF StreamInv
<1>1. /\ spc = "key" /\ c2s # <<>> /\ UNCHANGED <<s2c, client, pos>>
      /\ Head(c2s).type = "key" => encryption_key' = Head(c2s) /\ c2s' = Tail(c2s)
  BY DEF TakesKey
<1>2. temp' = <<>> /\ spc' = "recv" /\ trouble = {}
  <2>1. ~ Troubled("failed", TRUE)
    BY DEF Troubled
  <2> QED BY <2>1 DEF TakesKey, CreatesTemp, Goto
<1>3. Undisturbed /\ ClientTypes
  BY <1>1, <1>2, TypeParts DEF IInv, StreamInv, client
<1>4. cpc \in {"send", "recv"} /\ s2c = <<>> /\ Fresh /\ c2s = <<Key(key)>> \o Body
  BY <1>1, <1>3 DEF Undisturbed, AtKey, Unread, Upload
<1>5. Head(c2s) = Key(key) /\ Tail(c2s) = Body /\ Head(c2s).type = "key"
  BY <1>3, <1>4, BodyFacts, PieceFacts, FirstPiece DEF ClientTypes
<1>6. temp' \o c2s' = Body
  BY <1>1, <1>2, <1>3, <1>5, BodyFacts, ConcatEmptySeq
<1>7. IsPrefix(temp', file')
  BY <1>1, <1>2, <1>3, EmptyPrefix DEF ClientTypes, client
<1>8. AtRecv'
  BY <1>1, <1>3, <1>4, <1>5, <1>6, <1>7, ServerKeeps DEF AtRecv, Expected, client
<1> QED BY <1>2, <1>3, <1>1, <1>8, ServerKeeps
        DEF Undisturbed, AtKey, AtEncrypt, AtReply, AtChoice, AtDone

LEMMA StoresChunkInv ==
  ASSUME IInv, NEW k \in 1..Len(c2s), StoresChunk(k) PROVE StreamInv'
<1> SUFFICES ASSUME trouble' = {}, cpc' # "gone" PROVE Undisturbed'
  BY DEF StreamInv
<1>1. /\ spc = "recv" /\ c2s' = After(k, c2s)
      /\ IF Head(c2s) = END
           THEN spc' = "encrypt" /\ UNCHANGED temp
           ELSE temp' = temp \o First(k, c2s) /\ UNCHANGED spc
      /\ Troubled("together", k > 1 /\ Contains(First(k, c2s), END))
      /\ UNCHANGED <<s2c, client, encryption_key, pos>>
  BY DEF StoresChunk, Goto
<1>2. trouble = {} /\ ~(k > 1 /\ Contains(First(k, c2s), END))
  BY <1>1, TroubledStays
<1>3. Undisturbed /\ ClientTypes /\ StreamTypes
  BY <1>1, <1>2, TypeParts DEF IInv, StreamInv, client
<1>4. Expected /\ temp \o c2s = Body /\ IsPrefix(temp, file)
  BY <1>1, <1>3 DEF Undisturbed, AtRecv
<1>5. /\ file \in Seq(Sent) /\ END \in Sent /\ c2s \in Seq(Sent) /\ temp \in Seq(Sent)
      /\ c2s # <<>> /\ k \in 0..Len(c2s) /\ Len(file) \in Nat
  BY <1>3, PieceFacts, SeqMonotonic DEF StreamTypes, ClientTypes
<1>6. Carries(temp \o c2s, file, END) /\ Len(temp \o c2s) = Len(Body)
  <2>1. CASE cpc = "send"
    BY <1>3, <1>4, <1>5, <2>1, CarriesPrefix DEF Body, ClientTypes
  <2>2. CASE cpc # "send"
    BY <1>4, <1>5, <2>2, CarriesAll DEF Body
  <2> QED BY <2>1, <2>2
<1>7. CASE Head(c2s) = END
  <2>1. temp = file /\ c2s = <<END>> /\ Len(Body) = Len(file) + 1
    <3>1. \A i \in 1..Len(file) : file[i] # END
      BY <1>3 DEF Undisturbed, Plain
    <3> QED BY <1>5, <1>6, <1>7, <3>1, MarkerEnds
  <2>2. cpc = "recv"
    <3>1. CASE cpc = "send"
      <4>1. Len(Body) = sent /\ sent \in 0..Len(file)
        BY <1>3, <1>5, <3>1, Splits DEF Body, ClientTypes
      <4> QED BY <1>5, <2>1, <4>1
    <3> QED BY <1>4, <3>1 DEF Expected
  <2>3. c2s' = <<>>
    <3>1. Len(c2s) = 1 /\ k = 1
      BY <2>1
    <3>2. After(k, c2s) \in Seq(Sent) /\ Len(After(k, c2s)) = Len(c2s) - k
      BY <1>5, Splits
    <3> QED BY <1>1, <3>1, <3>2
  <2>4. AtEncrypt'
    BY <1>1, <1>3, <1>4, <1>7, <2>1, <2>2, <2>3, ServerKeeps
       DEF AtEncrypt, Held, Expected, Fresh, client
  <2> QED BY <1>1, <1>3, <1>7, <2>4, ServerKeeps
          DEF Undisturbed, AtKey, AtRecv, AtReply, AtChoice, AtDone
<1>8. CASE Head(c2s) # END
  <2>1. (temp \o First(k, c2s)) \o After(k, c2s) = Body
    BY <1>4, <1>5, Moves
  <2>2. \A i \in 1..k : c2s[i] # END
    <3>1. Len(First(k, c2s)) = k /\ \A i \in 1..k : First(k, c2s)[i] = c2s[i]
      BY <1>5, Splits
    <3>2. k = 1 \/ ~Contains(First(k, c2s), END)
      BY <1>2
    <3>3. c2s[1] # END
      BY <1>5, <1>8
    <3> QED BY <3>1, <3>2, <3>3 DEF Contains
  <2>3. IsPrefix(temp \o First(k, c2s), file)
    BY <1>4, <1>5, <1>6, <2>2, TextIsOfTheFile
  <2>4. AtRecv'
    BY <1>1, <1>3, <1>4, <1>8, <2>1, <2>3, ServerKeeps DEF AtRecv, Expected, client
  <2> QED BY <1>1, <1>3, <1>8, <2>4, ServerKeeps
          DEF Undisturbed, AtKey, AtEncrypt, AtReply, AtChoice, AtDone
<1> QED BY <1>7, <1>8

LEMMA EncryptsInv == ASSUME IInv, Encrypts PROVE StreamInv'
<1> SUFFICES ASSUME trouble' = {}, cpc' # "gone" PROVE Undisturbed'
  BY DEF StreamInv
<1>2. spc' = "reply" /\ pos' = 0 /\ trouble = {} /\ UNCHANGED temp
  <2>1. ~ Troubled("failed", TRUE) /\ ~ Troubled("disk", TRUE)
    BY DEF Troubled
  <2> QED BY <2>1 DEF Encrypts, FromBeginning, Goto
<1>1. spc = "encrypt" /\ UNCHANGED <<c2s, s2c, client, encryption_key, temp>>
  BY <1>2 DEF Encrypts
<1>3. Undisturbed /\ ClientTypes
  BY <1>1, <1>2, TypeParts DEF IInv, StreamInv, client
<1>4. Held /\ s2c = <<>> /\ Fresh
  BY <1>1, <1>3 DEF Undisturbed, AtEncrypt
<1>5. First(0, Result) = <<>>
  <2>1. Result \in Seq(Back) /\ 0 \in 0..Len(Result)
    BY <1>3, ResultFacts
  <2>2. First(0, Result) \in Seq(Back) /\ Len(First(0, Result)) = 0
    BY <2>1, Splits
  <2> QED BY <2>2
<1>6. saved \o s2c = <<>>
  BY <1>4 DEF Fresh
<1>7. AtReply'
  BY <1>1, <1>2, <1>3, <1>4, <1>5, <1>6, ServerKeeps DEF AtReply, Held, client
<1> QED BY <1>2, <1>3, <1>1, <1>7, ServerKeeps
        DEF Undisturbed, AtKey, AtRecv, AtEncrypt, AtChoice, AtDone

LEMMA SendsBackInv == ASSUME IInv, SendsBack PROVE StreamInv'
<1> SUFFICES ASSUME trouble' = {}, cpc' # "gone" PROVE Undisturbed'
  BY DEF StreamInv
<1>1. /\ spc = "reply" /\ pos < Len(temp) /\ pos' = pos + 1 /\ cpc # "gone" /\ trouble = {}
      /\ s2c' = Append(s2c, encrypt(temp[pos + 1], encryption_key))
      /\ UNCHANGED <<c2s, client, spc, encryption_key, temp, trouble>>
  BY DEF SendsBack, Sends, client
<1>2. Undisturbed /\ ClientTypes /\ StreamTypes
  BY <1>1, TypeParts DEF IInv, StreamInv
<1>3. Held /\ saved \o s2c = First(pos, Result) /\ pos \in 0..Len(temp)
  BY <1>1, <1>2, TypeParts DEF IInv, Undisturbed, AtReply, ServerTypes
<1>4. /\ Result \in Seq(Back) /\ pos \in 0..Len(Result) /\ pos < Len(Result)
      /\ pos + 1 \in 1..Len(Result)
      /\ Result[pos + 1] = encrypt(temp[pos + 1], encryption_key)
  BY <1>1, <1>2, <1>3, ResultFacts DEF Held
<1>5. First(pos + 1, Result) = Append(First(pos, Result), Result[pos + 1])
  BY <1>4, FirstGrows
<1>6. saved \o s2c' = Append(saved \o s2c, Result[pos + 1])
  <2>1. saved \in Seq(Back) /\ s2c \in Seq(Back) /\ Result[pos + 1] \in Back
    BY <1>2, <1>4 DEF StreamTypes
  <2>2. saved \o Append(s2c, Result[pos + 1]) = Append(saved \o s2c, Result[pos + 1])
    BY <2>1, Joins
  <2> QED BY <1>1, <1>4, <2>2
<1>7. AtReply'
  BY <1>1, <1>2, <1>3, <1>5, <1>6, ServerKeeps DEF AtReply, Held, client
<1> QED BY <1>1, <1>2, <1>7, ServerKeeps
        DEF Undisturbed, AtKey, AtRecv, AtEncrypt, AtChoice, AtDone

LEMMA SendsBackEndInv == ASSUME IInv, SendsBackEnd PROVE StreamInv'
<1> SUFFICES ASSUME trouble' = {}, cpc' # "gone" PROVE Undisturbed'
  BY DEF StreamInv
<1>1. /\ spc = "reply" /\ pos = Len(temp) /\ spc' = "choice" /\ cpc # "gone" /\ trouble = {}
      /\ s2c' = Append(s2c, END)
      /\ UNCHANGED <<c2s, client, encryption_key, temp, pos, trouble>>
  BY DEF SendsBackEnd, Sends, Goto, client
<1>2. Undisturbed /\ ClientTypes /\ StreamTypes
  BY <1>1, TypeParts DEF IInv, StreamInv
<1>3. Held /\ saved \o s2c = First(pos, Result)
  BY <1>1, <1>2 DEF Undisturbed, AtReply
<1>4. First(pos, Result) = Result
  BY <1>1, <1>2, <1>3, ResultFacts, SubSeqFull DEF First, Held
<1>5. saved \o Append(s2c, END) = Append(saved \o s2c, END)
  BY <1>2, PieceFacts, Joins DEF StreamTypes
<1>6. AtChoice'
  BY <1>1, <1>2, <1>3, <1>4, <1>5, ServerKeeps DEF AtChoice, Held, client
<1> QED BY <1>1, <1>2, <1>6, ServerKeeps
        DEF Undisturbed, AtKey, AtRecv, AtEncrypt, AtReply, AtDone

LEMMA TakesChoiceInv ==
  ASSUME IInv, NEW k \in 1..Len(c2s), TakesChoice(k) PROVE StreamInv'
<1> SUFFICES ASSUME trouble' = {}, cpc' # "gone" PROVE Undisturbed'
  BY DEF StreamInv
<1>1. /\ spc = "choice" /\ UNCHANGED <<s2c, client, encryption_key, temp, pos>>
      /\ spc' = IF First(k, c2s) = <<Choice("No")>> THEN "done" ELSE "key"
      /\ Troubled("together", k > 1 \/ c2s' # After(k, c2s))
  BY DEF TakesChoice, Goto
<1>2. trouble = {} /\ k = 1 /\ c2s' = After(1, c2s)
  <2>1. trouble = {} /\ ~(k > 1 \/ c2s' # After(k, c2s))
    BY <1>1, TroubledStays
  <2> QED BY <2>1
<1>3. Undisturbed /\ ClientTypes /\ c2s # <<>>
  BY <1>1, <1>2, TypeParts DEF IInv, StreamInv, StreamTypes, client
<1>4. Unread /\ c2s = <<Choice("Yes")>> \o Upload
  BY <1>1, <1>3 DEF Undisturbed, AtChoice
<1>5. Upload \in Seq(Sent) /\ Choice("Yes") \in Sent
  BY <1>3, BodyFacts, PieceFacts DEF Upload
<1>6. First(1, c2s) = <<Choice("Yes")>> /\ After(1, c2s) = Upload
  BY <1>4, <1>5, FirstPiece
<1>7. spc' = "key"
  BY <1>1, <1>2, <1>6, PieceFacts
<1>8. AtKey'
  BY <1>1, <1>2, <1>3, <1>4, <1>6, <1>7, ServerKeeps DEF AtKey, Unread, client
<1> QED BY <1>1, <1>3, <1>7, <1>8, ServerKeeps
        DEF Undisturbed, AtRecv, AtEncrypt, AtReply, AtChoice, AtDone
-----------------------------------------------------------------------------
LEMMA InitInv == ASSUME Init PROVE IInv
<1>1. /\ c2s = <<>> /\ s2c = <<>> /\ cpc = "start" /\ file = <<>> /\ key \in Keys /\ sent = 0
      /\ saved = <<>> /\ ended = FALSE /\ files = 0 /\ pieces = 0
      /\ spc = "none" /\ encryption_key = Junk /\ temp = <<>> /\ pos = 0 /\ trouble = {}
  BY DEF Init
<1>2. ClientTypes
  <2>1. file \in Seq(Pieces) /\ sent \in 0..Len(file)
    BY <1>1
  <2>2. files \in 0..MaxFiles /\ pieces \in 0..MaxPieces
    BY <1>1, BoundsAssumption
  <2> QED BY <1>1, <2>1, <2>2 DEF ClientTypes
<1>3. ServerTypes /\ StreamTypes /\ GoneInv
  BY <1>1, PieceFacts DEF ServerTypes, StreamTypes, GoneInv
<1>4. Plain /\ Fresh
  BY <1>1 DEF Plain, Fresh
<1>5. Saved
  BY <1>1, <1>2, ResultFacts, EmptyPrefix DEF Saved
<1>6. Undisturbed
  BY <1>1, <1>4, <1>5 DEF Undisturbed, AtKey, AtRecv, AtEncrypt, AtReply, AtChoice, AtDone,
                          Unread, Upload
<1> QED BY <1>1, <1>2, <1>3, <1>6, TypeParts DEF IInv, StreamInv

LEMMA NextInv == ASSUME IInv, [Next]_vars PROVE IInv'
<1>1. CASE UNCHANGED vars
  <2>1. TypeOK' /\ StreamTypes' /\ GoneInv'
    BY <1>1 DEF IInv, TypeOK, StreamTypes, GoneInv, Fresh, vars, client, server
  <2>2. StreamInv'
    BY <1>1 DEF IInv, StreamInv, Undisturbed, Plain, Saved, AtKey, AtRecv, AtEncrypt, AtReply,
                AtChoice, AtDone, Unread, Expected, Held, Fresh, Upload, Body, Result,
                vars, client, server
  <2> QED BY <2>1, <2>2 DEF IInv
<1>2. CASE Client
  <2>1. TypeOK' /\ StreamTypes' /\ GoneInv'
    BY <1>2, ClientStepTypes
  <2>2. Leaves => StreamInv'
    BY DEF Leaves, Exits, StreamInv
  <2>3. StreamInv'
    BY <1>2, <2>2, PicksFileInv, SendsChunkInv, SendsEndInv, SeesEofInv, SavesReplyInv, AnswersInv
       DEF Client, ClientRuns
  <2> QED BY <2>1, <2>3 DEF IInv
<1>3. CASE Server
  <2>1. TypeOK' /\ StreamTypes' /\ GoneInv' /\ UNCHANGED client
    BY <1>3, ServerStepTypes
  <2>2. ContentEnds \/ Dies \/ Disconnected => StreamInv'
    BY <2>1 DEF ContentEnds, Dies, Disconnected, Closed, StreamInv, client
  <2>3. StreamInv'
    BY <1>3, <2>2, ForksInv, TakesKeyInv, EncryptsInv, SendsBackInv, SendsBackEndInv,
       StoresChunkInv, TakesChoiceInv DEF Server
  <2> QED BY <2>1, <2>3 DEF IInv
<1> QED BY <1>1, <1>2, <1>3 DEF Next

(* The inductive invariant: where every piece of the file is, on the way,  *)
(* in the temporary file or back, in each phase of the two programs.       *)
THEOREM Invariance == Spec => []IInv
<1>1. Init => IInv
  BY InitInv
<1>2. IInv /\ [Next]_vars => IInv'
  BY NextInv
<1> QED BY <1>1, <1>2, PTL DEF Spec

(* Every variable keeps its type: the client sends no more than its file,  *)
(* and the child reads back no more than its temporary file                *)
(* (retrieveencfileclient.c:96-120, doencfileserver.c:113-144).            *)
THEOREM Types == Spec => []TypeOK
<1>1. IInv => TypeOK
  BY DEF IInv
<1> QED BY <1>1, Invariance, PTL

(* The client saves its own file under its own key, in order and complete  *)
(* when the marker has come, for every file and key and however TCP groups *)
(* the text, unless one of the five troubles has happened                  *)
(* (doencfileserver.c:65-154, retrieveencfileclient.c:96-156).             *)
THEOREM SavesTheEncryptedFile == Spec => []SavedIsEncrypted
<1>1. IInv => SavedIsEncrypted
  <2> SUFFICES ASSUME IInv, trouble = {}
               PROVE  IsPrefix(saved, Result) /\ (ended => saved = Result)
    BY DEF SavedIsEncrypted
  <2>1. CASE cpc # "gone"
    BY <2>1 DEF IInv, StreamInv, Undisturbed, Saved
  <2>2. CASE cpc = "gone"
    <3>1. saved = <<>> /\ ~ended /\ Result \in Seq(Back)
      BY <2>2, ResultFacts, TypeParts DEF IInv, GoneInv, Fresh
    <3> QED BY <3>1, EmptyPrefix
  <2> QED BY <2>1, <2>2
<1> QED BY <1>1, Invariance, PTL

(* While all is well the two programs never wait for each other, for every *)
(* file and however TCP groups the text: what the child waits for is on    *)
(* its way as long as the client waits for the reply                       *)
(* (doencfileserver.c:65-154, retrieveencfileclient.c:128-139).            *)
THEOREM NoMutualWait == Spec => []NeverBothWait
<1>1. IInv => NeverBothWait
  <2> SUFFICES ASSUME IInv, trouble = {}, cpc = "recv", s2c = <<>>, c2s = <<>>
               PROVE  spc \notin {"key", "recv", "choice"}
    BY DEF NeverBothWait
  <2>1. Undisturbed /\ ClientTypes /\ StreamTypes
    BY TypeParts DEF IInv, StreamInv
  <2>2. file \in Seq(Sent) /\ END \in Sent /\ Len(file) \in Nat /\ Body = Append(file, END)
    BY <2>1, PieceFacts, SeqMonotonic DEF ClientTypes, Body
  <2>3. Upload \in Seq(Sent) /\ Upload # <<>>
    <3>1. <<Key(key)>> \in Seq(Sent) /\ Body \in Seq(Sent)
      BY <2>1, BodyFacts, PieceFacts DEF ClientTypes
    <3>2. <<Key(key)>> \o Body \in Seq(Sent) /\ <<Key(key)>> \o Body # <<>>
      BY <3>1
    <3> QED BY <3>2 DEF Upload
  <2>4. spc # "key"
    BY <2>1, <2>3 DEF Undisturbed, AtKey
  <2>5. spc # "recv"
    <3> SUFFICES ASSUME temp \o c2s = Append(file, END), IsPrefix(temp, file) PROVE FALSE
      BY <2>1, <2>2 DEF Undisturbed, AtRecv
    <3>1. temp \in Seq(Sent) /\ Len(temp \o c2s) = Len(temp)
      BY <2>1 DEF StreamTypes
    <3>2. Len(temp) = Len(file) + 1
      BY <2>2, <3>1
    <3>3. Len(temp) <= Len(file)
      BY <2>2, <3>1 DEF IsPrefix
    <3> QED BY <2>2, <3>2, <3>3
  <2>6. spc # "choice"
    <3>1. /\ Result \in Seq(Back) /\ saved \in Seq(Back) /\ END \in Back
          /\ IsPrefix(saved, Result)
      BY <2>1, ResultFacts, PieceFacts DEF Undisturbed, Saved, StreamTypes
    <3>2. saved \o s2c # Append(Result, END)
      <4>1. Len(saved \o s2c) = Len(saved) /\ Len(Append(Result, END)) = Len(Result) + 1
        BY <3>1
      <4>2. Len(saved) <= Len(Result) /\ Len(Result) \in Nat
        BY <3>1 DEF IsPrefix
      <4> QED BY <4>1, <4>2
    <3>3. <<Choice("Yes")>> \o Upload # <<>>
      <4>1. <<Choice("Yes")>> \in Seq(Sent)
        BY PieceFacts
      <4> QED BY <2>3, <4>1
    <3> QED BY <2>1, <3>2, <3>3 DEF Undisturbed, AtChoice
  <2> QED BY <2>4, <2>5, <2>6
<1> QED BY <1>1, Invariance, PTL
=============================================================================
