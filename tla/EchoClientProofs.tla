-------------------------- MODULE EchoClientProofs --------------------------
(* What holds of the echo client's buffer for any number of connections,    *)
(* any text and any sizes of reads and buffers.                             *)
EXTENDS EchoClient, UvStreamProofs, RtsBufProofs, FiniteSetTheorems, WellFoundedInduction

-----------------------------------------------------------------------------
(* The first NUL of a sequence.                                             *)

LEMMA MinOfNats ==
    ASSUME NEW T \in SUBSET Nat, T # {}
    PROVE  Min(T) \in T /\ \A y \in T : Min(T) <= y
<1> DEFINE R == OpToRel(<, Nat)
<1>1. IsWellFoundedOn(R, Nat)
  BY NatLessThanWellFounded
<1>2. \A x, y \in Nat : ~(<<y, x>> \in R) => x <= y
  BY DEF OpToRel
<1> HIDE DEF R
<1>3. \E x \in T : \A y \in T : ~(<<y, x>> \in R)
  BY <1>1, WFMin
<1>4. \E x \in T : \A y \in T : x <= y
  BY <1>2, <1>3
<1> QED BY <1>4 DEF Min

(* It is where the first 0 stands, or behind the end. *)
LEMMA FirstNulIs ==
    ASSUME NEW S, NEW s \in Seq(S)
    PROVE  /\ FirstNul(s) \in 1 .. Len(s) + 1
           /\ \A i \in 1 .. FirstNul(s) - 1 : s[i] # 0
           /\ FirstNul(s) <= Len(s) => s[FirstNul(s)] = 0
<1> DEFINE T == {i \in DOMAIN s : s[i] = 0} \cup {Len(s) + 1}
<1>1. /\ Len(s) \in Nat /\ DOMAIN s = 1 .. Len(s)
      /\ T \subseteq 1 .. Len(s) + 1 /\ T # {} /\ T \in SUBSET Nat
  OBVIOUS
<1>2. FirstNul(s) \in T /\ \A y \in T : FirstNul(s) <= y
  BY <1>1, MinOfNats DEF FirstNul
<1>3. \A i \in 1 .. FirstNul(s) - 1 : i \notin T
  BY <1>1, <1>2
<1>4. \A i \in 1 .. FirstNul(s) - 1 : i \in DOMAIN s /\ s[i] # 0
  BY <1>1, <1>2, <1>3
<1> QED BY <1>1, <1>2, <1>4

LEMMA FirstNulUnique ==
    ASSUME NEW S, NEW s \in Seq(S), NEW z \in 1 .. Len(s) + 1,
           \A i \in 1 .. z - 1 : s[i] # 0, z <= Len(s) => s[z] = 0
    PROVE  FirstNul(s) = z
BY FirstNulIs

-----------------------------------------------------------------------------
(* A buffer and the bytes that were put into it.                            *)

(* Memory m holds the bytes of k up to the first NUL of k. *)
Agrees(m, k) == \A i \in 1 .. Len(k) : i <= FirstNul(k) => m[i] = k[i]

LEMMA StrncpyType ==
    ASSUME NEW m \in Seq(Byte), NEW at \in Nat, NEW src \in Seq(Byte),
           NEW n \in 0 .. Len(src)
    PROVE  /\ Strncpy(m, at, src, n) \in Seq(Byte)
           /\ Len(Strncpy(m, at, src, n)) = Len(m)
<1>1. \A i \in 1 .. Len(m) : i \in at + 1 .. at + n => i - at \in 1 .. Len(src)
  OBVIOUS
<1>2. \A i \in 1 .. Len(m) : Strncpy(m, at, src, n)[i] \in Byte
  BY <1>1 DEF Strncpy, Byte
<1>3. Strncpy(m, at, src, n) = [i \in 1 .. Len(m) |-> Strncpy(m, at, src, n)[i]]
  <2>1. DOMAIN m = 1 .. Len(m)
    OBVIOUS
  <2> QED BY <2>1, Zenon DEF Strncpy
<1>4. Strncpy(m, at, src, n) \in [1 .. Len(m) -> Byte]
  BY <1>2, <1>3
<1> QED BY <1>4

(* Bytes that are appended are there up to the first NUL of the whole.      *)
LEMMA AppendAgrees ==
    ASSUME NEW m \in Seq(Byte), NEW k \in Seq(Text), NEW c \in Seq(Text),
           Agrees(m, k), Len(k) + Len(c) <= Len(m)
    PROVE  Agrees(Strncpy(m, Len(k), c, Len(c)), k \o c)
<1> DEFINE new == Strncpy(m, Len(k), c, Len(c))
<1> SUFFICES ASSUME NEW i \in 1 .. Len(k \o c), i <= FirstNul(k \o c)
             PROVE  new[i] = (k \o c)[i]
  BY DEF Agrees
<1>1. /\ k \o c \in Seq(Text) /\ Len(k \o c) = Len(k) + Len(c)
      /\ \A j \in 1 .. Len(k) : (k \o c)[j] = k[j]
      /\ \A j \in 1 .. Len(c) : (k \o c)[Len(k) + j] = c[j]
  OBVIOUS
<1>2. \A j \in 1 .. i - 1 : (k \o c)[j] # 0
  <2>1. /\ FirstNul(k \o c) \in 1 .. Len(k \o c) + 1
        /\ \A j \in 1 .. FirstNul(k \o c) - 1 : (k \o c)[j] # 0
    BY <1>1, FirstNulIs
  <2>2. 1 .. i - 1 \subseteq 1 .. FirstNul(k \o c) - 1
    BY <2>1
  <2> QED BY <2>1, <2>2, Zenon
<1>3. i \in DOMAIN m /\ i \in Nat /\ Len(k) \in Nat /\ Len(c) \in Nat
  BY <1>1
<1>4. CASE i <= Len(k)
  <2>1. new[i] = m[i]
    BY <1>3, <1>4 DEF Strncpy
  <2>2. i <= FirstNul(k)
    <3>1. FirstNul(k) \in 1 .. Len(k) + 1
          /\ (FirstNul(k) <= Len(k) => k[FirstNul(k)] = 0)
      BY FirstNulIs
    <3> QED BY <1>1, <1>2, <1>4, <3>1
  <2> QED BY <1>1, <1>4, <2>1, <2>2 DEF Agrees
<1>5. CASE i > Len(k)
  <2> DEFINE j == i - Len(k)
  <2>1. j \in 1 .. Len(c) /\ i = Len(k) + j /\ (k \o c)[i] = c[j]
    BY <1>1, <1>3, <1>5
  <2>2. FirstNul(c) \in 1 .. Len(c) + 1 /\ (FirstNul(c) <= Len(c) => c[FirstNul(c)] = 0)
    BY FirstNulIs
  <2>3. j <= FirstNul(c)
    <3>1. \A x \in 1 .. j - 1 : c[x] # 0
      <4>1. \A x \in 1 .. j - 1 : Len(k) + x \in 1 .. i - 1 /\ x \in 1 .. Len(c)
        BY <1>3, <2>1
      <4> QED BY <1>1, <1>2, <4>1
    <3> QED BY <2>1, <2>2, <3>1
  <2>4. i \in Len(k) + 1 .. Len(k) + Len(c)
    BY <1>3, <2>1
  <2>5. new[i] = IF j < FirstNul(c) THEN c[j] ELSE 0
    BY <1>3, <2>4 DEF Strncpy
  <2>6. CASE j < FirstNul(c)
    BY <2>1, <2>5, <2>6
  <2>7. CASE j = FirstNul(c)
    BY <2>1, <2>2, <2>5, <2>7
  <2> QED BY <2>1, <2>2, <2>3, <2>6, <2>7
<1> QED BY <1>3, <1>4, <1>5

(* They are there still when the buffer has moved. *)
LEMMA GrowAgrees ==
    ASSUME NEW m \in Seq(Byte), NEW k \in Seq(Text), NEW f \in Seq(Byte),
           Agrees(m, k), Len(k) < Len(m), Len(m) <= Len(f)
    PROVE  Agrees(Strncpy(f, 0, m, Len(k)), k)
<1> SUFFICES ASSUME NEW i \in 1 .. Len(k), i <= FirstNul(k)
             PROVE  Strncpy(f, 0, m, Len(k))[i] = k[i]
  BY DEF Agrees
<1>1. /\ FirstNul(k) \in 1 .. Len(k) + 1 /\ \A j \in 1 .. i - 1 : k[j] # 0
      /\ FirstNul(m) \in 1 .. Len(m) + 1 /\ (FirstNul(m) <= Len(m) => m[FirstNul(m)] = 0)
  BY FirstNulIs
<1>2. \A j \in 1 .. i : m[j] = k[j]
  BY <1>1 DEF Agrees
<1>3. i <= FirstNul(m)
  BY <1>1, <1>2
<1>4. i \in DOMAIN f /\ i \in 0 + 1 .. 0 + Len(k) /\ i - 0 = i
  OBVIOUS
<1>5. Strncpy(f, 0, m, Len(k))[i] = IF i < FirstNul(m) THEN m[i] ELSE 0
  BY <1>4 DEF Strncpy
<1> QED BY <1>1, <1>2, <1>3, <1>5

(* What is printed then. *)
LEMMA PrintAgrees ==
    ASSUME NEW m \in Seq(Byte), NEW k \in Seq(Text), Agrees(m, k), Len(k) < Len(m)
    PROVE  UpToNul([m EXCEPT ![Len(k) + 1] = 0]) = UpToNul(k)
<1> DEFINE t == [m EXCEPT ![Len(k) + 1] = 0]
           z == FirstNul(k)
<1>1. /\ z \in 1 .. Len(k) + 1 /\ \A j \in 1 .. z - 1 : k[j] # 0
      /\ z <= Len(k) => k[z] = 0
  BY FirstNulIs
<1>2. t \in Seq(Byte) /\ Len(t) = Len(m) /\ t[Len(k) + 1] = 0
      /\ \A i \in 1 .. Len(k) : t[i] = m[i]
  BY DEF Byte
<1> HIDE DEF t, z
<1>3. \A i \in 1 .. Len(k) : i <= z => t[i] = k[i]
  BY <1>2 DEF Agrees, z
<1>4. \A i \in 1 .. z - 1 : t[i] # 0 /\ t[i] = k[i]
  BY <1>1, <1>3
<1>5. t[z] = 0
  BY <1>1, <1>2, <1>3
<1>6. FirstNul(t) = z
  BY <1>1, <1>2, <1>4, <1>5, FirstNulUnique
<1>7. SubSeq(t, 1, z - 1) = SubSeq(k, 1, z - 1)
  BY <1>1, <1>2, <1>4
<1> QED BY <1>6, <1>7 DEF UpToNul, t, z

-----------------------------------------------------------------------------
(* The inductive invariant.                                                 *)

Sound(c) ==
    /\ buf[c] \in Seq(Byte) /\ Len(buf[c]) \in 1 .. IntMax
    /\ kept[c] \in Seq(Text) /\ size[c] = Len(kept[c])
    /\ size[c] < Len(buf[c])
    /\ Agrees(buf[c], kept[c])

IInv ==
    /\ buf \in [Handle -> Seq(Byte)] /\ size \in [Handle -> Nat]
    /\ kept \in [Handle -> Seq(Text)] /\ rd \in [Handle -> 0 .. MaxBytes]
    /\ shown \in [Handle -> [line : Seq(Byte), of : Seq(Text)]]
    /\ \A c \in Handle : Sound(c)
    /\ PrintedAsReceived

LEMMA FreshType ==
    ASSUME NEW n \in Nat PROVE Fresh(n) \in Seq(Byte) /\ Len(Fresh(n)) = n
<1>1. Fresh(n) \in [1 .. n -> Byte]
  BY DEF Fresh, Byte
<1> QED BY <1>1

LEMMA InitIInv == Init => IInv
<1> SUFFICES ASSUME Init PROVE IInv
  OBVIOUS
<1>1. /\ buf = [c \in Handle |-> Fresh(InitCap)] /\ size = [c \in Handle |-> 0]
      /\ kept = [c \in Handle |-> <<>>] /\ rd = [c \in Handle |-> 0]
      /\ shown = [c \in Handle |-> [line |-> <<>>, of |-> <<>>]]
  BY DEF Init
<1>2. InitCap \in 1 .. IntMax /\ InitCap \in Nat
  BY ClientAssumption, IntMaxAssumption
<1>3. Fresh(InitCap) \in Seq(Byte) /\ Len(Fresh(InitCap)) = InitCap
  BY <1>2, FreshType
<1>4. <<>> \in Seq(Text) /\ <<>> \in Seq(Byte) /\ Len(<<>>) = 0
  OBVIOUS
<1>5. \A c \in Handle : Sound(c)
  BY <1>1, <1>2, <1>3, <1>4 DEF Sound, Agrees
<1>6. PrintedAsReceived
  <2>1. FirstNul(<<>>) = 1
    <3> DEFINE e == <<>>
    <3>1. e \in Seq(Text) /\ Len(e) = 0
      OBVIOUS
    <3> HIDE DEF e
    <3>2. FirstNul(e) \in 1 .. Len(e) + 1
      BY <3>1, FirstNulIs
    <3>3. FirstNul(e) = 1
      BY <3>1, <3>2
    <3> QED BY <3>3 DEF e
  <2>2. UpToNul(<<>>) = <<>>
    BY <2>1 DEF UpToNul
  <2> QED BY <1>1, <2>2 DEF PrintedAsReceived
<1> QED BY <1>1, <1>3, <1>4, <1>5, <1>6, ClientAssumption DEF IInv

(* One connection's buffer changes, the others do not. *)
LEMMA OneChanges ==
    ASSUME IInv, NEW c \in Handle, NEW m \in Seq(Byte), NEW k \in Seq(Text),
           Len(m) \in 1 .. IntMax, Len(k) < Len(m), Agrees(m, k),
           buf' = [buf EXCEPT ![c] = m], kept' = [kept EXCEPT ![c] = k],
           size' = [size EXCEPT ![c] = Len(k)],
           shown' \in [Handle -> [line : Seq(Byte), of : Seq(Text)]], PrintedAsReceived',
           rd' \in [Handle -> 0 .. MaxBytes]
    PROVE  IInv'
<1>1. /\ buf' \in [Handle -> Seq(Byte)] /\ size' \in [Handle -> Nat]
      /\ kept' \in [Handle -> Seq(Text)]
  BY DEF IInv
<1>2. \A x \in Handle :
        /\ x = c => buf'[x] = m /\ kept'[x] = k /\ size'[x] = Len(k)
        /\ x # c => buf'[x] = buf[x] /\ kept'[x] = kept[x] /\ size'[x] = size[x]
  BY DEF IInv
<1>3. \A x \in Handle : Sound(x)'
  <2> SUFFICES ASSUME NEW x \in Handle PROVE Sound(x)'
    OBVIOUS
  <2>1. CASE x = c
    BY <1>2, <2>1 DEF Sound
  <2>2. CASE x # c
    BY <1>2, <2>2 DEF Sound, IInv
  <2> QED BY <2>1, <2>2
<1> QED BY <1>1, <1>3 DEF IInv

(* An append to the buffer of c either adds the text or changes nothing.    *)
LEMMA AppendKeepsIInv ==
    ASSUME IInv, NEW c \in Handle, NEW text \in Seq(Text), Len(text) <= IntMax,
           RtsBufAppend(c, text), UNCHANGED shown, rd' \in [Handle -> 0 .. MaxBytes]
    PROVE  IInv'
<1> DEFINE n == Len(text)
<1>1. PICK oom \in {FALSE, MayOom} :
        LET r == AppendResult(Cap(c), size[c], n, oom)
        IN  /\ size' = [size EXCEPT ![c] = r.size]
            /\ IF r.ret = 0
               THEN /\ buf' = [buf EXCEPT ![c] =
                                 Strncpy(Grown(c, r.cap), size[c], text, n)]
                    /\ kept' = [kept EXCEPT ![c] = @ \o text]
               ELSE UNCHANGED <<buf, kept>>
  BY DEF RtsBufAppend
<1> DEFINE r == AppendResult(Cap(c), size[c], n, oom)
<1>2. /\ Sound(c) /\ oom \in BOOLEAN /\ IntMax \in Nat \ {0}
      /\ Cap(c) \in 1 .. IntMax /\ size[c] \in 0 .. Cap(c) - 1 /\ n \in 0 .. IntMax
  <2>1. oom \in BOOLEAN
    BY ClientAssumption, Zenon
  <2>2. Sound(c)
    BY DEF IInv
  <2> QED BY <2>1, <2>2, IntMaxAssumption DEF Sound, Cap
<1>3. \/ /\ r.ret = 0 /\ r.size = size[c] + n
         /\ r.cap \in Cap(c) .. IntMax /\ r.size < r.cap
      \/ r.ret = -3 /\ r.size = size[c] /\ r.cap = Cap(c)
  BY <1>2, AppendResultCases
<1> HIDE DEF r
<1>4. PrintedAsReceived' /\ shown' \in [Handle -> [line : Seq(Byte), of : Seq(Text)]]
  BY DEF IInv, PrintedAsReceived
<1>5. CASE r.ret = 0 /\ r.size = size[c] + n /\ r.cap \in Cap(c) .. IntMax /\ r.size < r.cap
  <2> DEFINE g == Grown(c, r.cap)
             m == Strncpy(g, size[c], text, n)
             k == kept[c] \o text
  <2>1. g \in Seq(Byte) /\ Len(g) = r.cap /\ Agrees(g, kept[c])
    <3>1. CASE r.cap = Cap(c)
      BY <1>2, <3>1 DEF Grown, Sound, Cap
    <3>2. CASE r.cap # Cap(c)
      <4>1. Fresh(r.cap) \in Seq(Byte) /\ Len(Fresh(r.cap)) = r.cap /\ r.cap \in Nat
        <5>1. r.cap \in Nat
          BY <1>2, <1>5
        <5> QED BY <5>1, FreshType
      <4>2. /\ buf[c] \in Seq(Byte) /\ size[c] = Len(kept[c])
            /\ kept[c] \in Seq(Text) /\ Agrees(buf[c], kept[c])
            /\ Len(kept[c]) < Len(buf[c]) /\ Len(buf[c]) <= r.cap
        BY <1>2, <1>5 DEF Sound, Cap
      <4>3. g = Strncpy(Fresh(r.cap), 0, buf[c], size[c])
        BY <3>2 DEF Grown
      <4>4. g \in Seq(Byte) /\ Len(g) = r.cap
        BY <4>1, <4>2, <4>3, StrncpyType
      <4>5. Agrees(g, kept[c])
        BY <4>1, <4>2, <4>3, GrowAgrees
      <4> QED BY <4>4, <4>5
    <3> QED BY <3>1, <3>2
  <2> HIDE DEF g
  <2>2. /\ text \in Seq(Byte) /\ kept[c] \in Seq(Text) /\ size[c] = Len(kept[c])
        /\ k \in Seq(Text) /\ Len(k) = size[c] + n /\ Len(k) < r.cap
    BY <1>2, <1>5 DEF Sound, Byte
  <2>3. m \in Seq(Byte) /\ Len(m) = r.cap
    BY <1>2, <2>1, <2>2, StrncpyType
  <2>4. Agrees(m, k)
    BY <1>2, <2>1, <2>2, <1>5, AppendAgrees
  <2>5. /\ buf' = [buf EXCEPT ![c] = m] /\ kept' = [kept EXCEPT ![c] = k]
        /\ size' = [size EXCEPT ![c] = Len(k)]
    BY <1>1, <1>5, <2>2 DEF r, g
  <2>6. r.cap \in 1 .. IntMax
    BY <1>2, <1>5
  <2> HIDE DEF m, k
  <2> QED BY <1>4, <2>2, <2>3, <2>4, <2>5, <2>6, OneChanges
<1>6. CASE r.ret = -3 /\ r.size = size[c] /\ r.cap = Cap(c)
  <2>1. UNCHANGED <<buf, kept, size>>
    BY <1>1, <1>6 DEF r, IInv
  <2> QED BY <1>4, <2>1 DEF IInv, Sound
<1> QED BY <1>3, <1>5, <1>6

LEMMA ReadTextStep ==
    ASSUME IInv, NEW c \in Handle, ReadText(c) PROVE IInv'
<1>1. PICK n \in 1 .. Min({ReadMax, MaxBytes - rd[c]}) :
        /\ \E text \in [1 .. n -> Text] : RtsBufAppend(c, text)
        /\ rd' = [rd EXCEPT ![c] = @ + n]
  BY DEF ReadText
<1>2. PICK text \in [1 .. n -> Text] : RtsBufAppend(c, text)
  BY <1>1
<1>3. ReadMax \in Nat /\ ReadMax <= IntMax /\ IntMax \in Nat /\ MaxBytes \in Nat
  BY ClientAssumption, NoneAssumption, IntMaxAssumption
<1>4. Min({ReadMax, MaxBytes - rd[c]}) \in Nat
      /\ Min({ReadMax, MaxBytes - rd[c]}) <= ReadMax
      /\ Min({ReadMax, MaxBytes - rd[c]}) <= MaxBytes - rd[c]
  <2>1. MaxBytes - rd[c] \in Nat
    BY <1>3 DEF IInv
  <2>2. {ReadMax, MaxBytes - rd[c]} \in SUBSET Nat /\ {ReadMax, MaxBytes - rd[c]} # {}
    BY <1>3, <2>1
  <2> QED BY <2>2, MinOfNats
<1> HIDE DEF Min
<1>5. n \in Nat /\ n <= IntMax /\ n <= MaxBytes - rd[c]
  <2>1. rd[c] \in Nat
    BY DEF IInv
  <2> DEFINE b == Min({ReadMax, MaxBytes - rd[c]})
  <2>2. n \in 1 .. b /\ b \in Nat /\ b <= ReadMax /\ b <= MaxBytes - rd[c]
    BY <1>4
  <2> HIDE DEF b
  <2> QED BY <1>3, <2>1, <2>2
<1>6. text \in Seq(Text) /\ Len(text) = n
  BY <1>5
<1>7. rd' \in [Handle -> 0 .. MaxBytes]
  BY <1>1, <1>3, <1>5 DEF IInv
<1>8. UNCHANGED shown
  BY DEF ReadText
<1> QED BY <1>2, <1>5, <1>6, <1>7, <1>8, AppendKeepsIInv

(* Printing shows the text, and the buffer starts again with none.          *)
LEMMA RecvKeepsIInv ==
    ASSUME IInv, NEW c \in Handle, Recv(c), UNCHANGED rd PROVE IInv'
<1> DEFINE m == Terminated(c)
<1>1. /\ buf' = [buf EXCEPT ![c] = m] /\ size' = [size EXCEPT ![c] = 0]
      /\ kept' = [kept EXCEPT ![c] = <<>>]
      /\ shown' = [shown EXCEPT ![c] = [line |-> UpToNul(m), of |-> kept[c]]]
  BY DEF Recv
<1>2. Sound(c)
  BY DEF IInv
<1>3. m = [buf[c] EXCEPT ![Len(kept[c]) + 1] = 0]
  BY <1>2 DEF Terminated, Sound
<1>4. m \in Seq(Byte) /\ Len(m) = Len(buf[c])
  BY <1>2, <1>3 DEF Sound, Byte
<1>5. UpToNul(m) = UpToNul(kept[c])
  BY <1>2, <1>3, PrintAgrees DEF Sound
<1> HIDE DEF m
<1>6. UpToNul(m) \in Seq(Byte)
  BY <1>4, FirstNulIs DEF UpToNul
<1>7. shown' \in [Handle -> [line : Seq(Byte), of : Seq(Text)]]
  BY <1>1, <1>2, <1>6 DEF IInv, Sound
<1>8. PrintedAsReceived'
  BY <1>1, <1>5 DEF IInv, PrintedAsReceived
<1>9. <<>> \in Seq(Text) /\ Len(<<>>) = 0 /\ Agrees(m, <<>>)
  BY DEF Agrees
<1>10. Len(m) \in 1 .. IntMax /\ 0 < Len(m)
  BY <1>2, <1>4, IntMaxAssumption DEF Sound
<1> QED BY <1>1, <1>4, <1>7, <1>8, <1>9, <1>10, OneChanges DEF IInv

LEMMA NextIInv == IInv /\ [Next]_vars => IInv'
<1> SUFFICES ASSUME IInv, [Next]_vars PROVE IInv'
  OBVIOUS
<1>1. ASSUME UNCHANGED clientVars PROVE IInv'
  BY <1>1 DEF clientVars, bufVars, IInv, Sound, PrintedAsReceived
<1>2. ASSUME NEW c \in Handle,
             Connected(c) \/ ConnectFailed(c) \/ AfterWrite(c) \/ ReadError(c)
      PROVE  IInv'
  BY <1>1, <1>2 DEF Connected, ConnectFailed, AfterWrite, ReadError
<1>3. ASSUME NEW c \in Handle, ReadText(c) PROVE IInv'
  BY <1>3, ReadTextStep
<1>4. ASSUME NEW c \in Handle, ReadNothing(c) \/ ReadEof(c) PROVE IInv'
  BY <1>4, RecvKeepsIInv DEF ReadNothing, ReadEof
<1> QED BY <1>1, <1>2, <1>3, <1>4 DEF Next, vars

(* For any text, any sizes of reads and any failures of malloc, there is    *)
(* room for the terminator (client.c:51-70).                                *)
THEOREM TerminatorSafe == Spec => []TerminatorInBounds
<1>1. IInv => TerminatorInBounds
  BY DEF IInv, Sound, TerminatorInBounds, Cap
<1> QED BY <1>1, InitIInv, NextIInv, PTL DEF Spec

(* For any text, what is printed is what was appended, up to its first NUL, *)
(* wherever the reads cut it and whenever the buffer moves (client.c:57,    *)
(* 69, 134-136).                                                            *)
THEOREM PrintedSafe == Spec => []PrintedAsReceived
<1>1. IInv => PrintedAsReceived
  BY DEF IInv
<1> QED BY <1>1, InitIInv, NextIInv, PTL DEF Spec

-----------------------------------------------------------------------------
(* The loop and the streams below the client.                               *)

UvInv ==
    /\ UvTypeOK /\ fate \in {"running", "SIGPIPE"}
    /\ gen = [c \in Handle |-> 1]

LEMMA InitUvInv == Init => UvInv
<1> SUFFICES ASSUME Init PROVE UvInv
  OBVIOUS
<1>1. batch \in Seq(Handle)
  <2> DEFINE S == {c \in Handle : hs[c] = "refused"}
             n == Cardinality(S)
  <2>1. n \in Nat
    BY ClientAssumption, FS_Subset, FS_CardinalityType, Zenon
  <2>2. batch \in [1 .. n -> S]
    BY DEF Init, SetToSeqs
  <2>3. batch \in [1 .. n -> Handle]
    BY <2>2
  <2> HIDE DEF n
  <2> QED BY <2>1, <2>3
<1>2. WriteTypeOK
  <2>1. feed \in Seq(Handle) /\ <<>> \in Seq(WriteReq) /\ <<>> \in Seq(Handle \X Nat)
    BY DEF Init
  <2>2. /\ pollout \in [Handle -> {"off", "new", "on"}]
        /\ brk \in [Handle -> BOOLEAN]
    BY DEF Init
  <2>3. /\ wq \in [Handle -> Seq(WriteReq)] /\ wdone \in [Handle -> Seq(WriteReq)]
        /\ out \in [Handle -> Seq(Handle \X Nat)]
    BY <2>1, Zenon DEF Init
  <2> QED BY <2>1, <2>2, <2>3, Zenon DEF WriteTypeOK
<1>3. LoopTypeOK
  BY <1>1 DEF Init, LoopTypeOK, StageLists
<1>4. HeapTypeOK
  <2> DEFINE hello == [i \in 1 .. HelloLen |-> i]
  <2>1. hello \in Seq(Nat)
    BY ClientAssumption
  <2>2. mem = [c \in Handle |-> hello] /\ gen = [c \in Handle |-> 1]
    BY DEF Init
  <2> HIDE DEF hello
  <2> QED BY <2>1, <2>2 DEF HeapTypeOK
<1>5. /\ hs \in [Handle -> HandleState] /\ fate \in {"running", "SIGPIPE"}
      /\ gen = [c \in Handle |-> 1]
  BY DEF Init, HandleState
<1>6. UvTypeOK
  BY <1>2, <1>3, <1>4, <1>5, UvTypeParts
<1> QED BY <1>5, <1>6 DEF UvInv

LEMMA UvNextKeepsHeap == ASSUME UvNext PROVE UNCHANGED heapVars
<1>1. CASE LoopTurn
  BY <1>1 DEF LoopTurn, RunPending, PendingDone, PollDone, ClosingDone, FinishClose, heapVars
<1> QED BY <1>1 DEF UvNext, WriteStage, CallbacksDone, PollEvent, heapVars

(* A callback that queues or takes off a write, or none. *)
LEMMA UvInvNext ==
    ASSUME UvInv, WriteTypeOK', LoopTypeOK', (hs \in [Handle -> HandleState])',
           UNCHANGED heapVars, fate' \in {fate, "SIGPIPE"}
    PROVE  UvInv'
<1>1. HeapTypeOK' /\ gen' = [c \in Handle |-> 1]
  BY DEF UvInv, UvTypeOK, HeapTypeOK, heapVars
<1>2. UvTypeOK'
  BY <1>1 DEF UvTypeOK, WriteTypeOK, LoopTypeOK, HeapTypeOK
<1> QED BY <1>1, <1>2 DEF UvInv

LEMMA NextUvInv == UvInv /\ [Next]_vars => UvInv'
<1> SUFFICES ASSUME UvInv, [Next]_vars PROVE UvInv'
  OBVIOUS
<1>0. /\ UvTypeOK /\ WriteTypeOK /\ LoopTypeOK /\ HeapTypeOK
      /\ hs \in [Handle -> HandleState]
  BY UvTypeParts DEF UvInv
<1>1. ASSUME NEW c \in Handle, Connected(c) PROVE UvInv'
  <2>1. Hello(c) \in WriteReq
    <3>1. gen[c] = 1
      BY DEF UvInv
    <3> QED BY <3>1, ClientAssumption DEF Hello, WriteReq
  <2>2. /\ UvWrite(c, Hello(c), wq[c], wdone[c], gen, mem)
        /\ hs' = [hs EXCEPT ![c] = "open"] /\ todo # <<>> /\ NextStage(Tail(todo))
        /\ UNCHANGED <<phase, batch, served, heapVars>>
    BY <1>1 DEF Connected, InStage
  <2>3. WriteTypeOK'
    <3>1. wq[c] \in Seq(WriteReq) /\ wdone[c] \in Seq(WriteReq)
      BY <1>0 DEF WriteTypeOK
    <3> QED BY <1>0, <2>1, <2>2, <3>1, UvWriteType DEF HeapTypeOK
  <2>4. LoopTypeOK'
    BY <1>0, <2>2, NextStageType
  <2>5. (hs \in [Handle -> HandleState])'
    BY <1>0, <2>2 DEF HandleState
  <2> QED BY <2>2, <2>3, <2>4, <2>5, UvWriteFate, UvInvNext
<1>2. ASSUME NEW c \in Handle, ConnectFailed(c) PROVE UvInv'
  <2>1. /\ UNCHANGED <<phase, batch, feed, served, wq, wdone, pollout, brk, out,
                       heapVars, fate>>
        /\ hs' = [hs EXCEPT ![c] = "stuck"] /\ todo # <<>> /\ NextStage(Tail(todo))
    BY <1>2 DEF ConnectFailed, InStage
  <2>2. WriteTypeOK' /\ (hs \in [Handle -> HandleState])'
    BY <1>0, <2>1 DEF WriteTypeOK, HandleState
  <2>3. LoopTypeOK'
    BY <1>0, <2>1, NextStageType
  <2> QED BY <2>1, <2>2, <2>3, UvInvNext
<1>3. ASSUME NEW c \in Handle, AfterWrite(c) PROVE UvInv'
  <2>1. /\ UNCHANGED <<loopVars, hs, wq, pollout, brk, out, heapVars, fate>>
        /\ wdone' = [wdone EXCEPT ![c] = Tail(@)] /\ wdone[c] # <<>>
    BY <1>3 DEF AfterWrite
  <2>2. Tail(wdone[c]) \in Seq(WriteReq)
    BY <1>0, <2>1 DEF WriteTypeOK
  <2>3. WriteTypeOK' /\ LoopTypeOK' /\ (hs \in [Handle -> HandleState])'
    BY <1>0, <2>1, <2>2 DEF WriteTypeOK, LoopTypeOK, loopVars
  <2> QED BY <2>1, <2>3, UvInvNext
<1>4. ASSUME NEW t, t = todo \/ t = Tail(todo), todo # <<>>, NextStage(t),
             UNCHANGED <<phase, batch, feed, served, streamVars, heapVars, fate>>
      PROVE  UvInv'
  <2>1. LoopTypeOK'
    BY <1>0, <1>4, NextStageType
  <2>2. WriteTypeOK' /\ (hs \in [Handle -> HandleState])'
    BY <1>0, <1>4 DEF WriteTypeOK, streamVars
  <2> QED BY <1>4, <2>1, <2>2, UvInvNext
<1>5. ASSUME NEW c \in Handle, ReadText(c) \/ ReadNothing(c) PROVE UvInv'
  BY <1>4, <1>5 DEF ReadText, ReadNothing, AfterRead, InStage
<1>6. ASSUME NEW c \in Handle, ReadEof(c) \/ ReadError(c) PROVE UvInv'
  <2>1. UvClose(c) /\ UNCHANGED heapVars /\ UNCHANGED fate
    BY <1>6 DEF ReadEof, ReadError, UvClose
  <2>2. HeapTypeOK'
    BY <1>0, <2>1 DEF HeapTypeOK, heapVars
  <2>3. UvTypeOK'
    BY <1>0, <1>6, <2>1, <2>2, UvCloseType
  <2> QED BY <2>1, <2>3 DEF UvInv, heapVars
<1>7. CASE UvNext
  <2>1. UvTypeOK' /\ fate' \in {fate, "SIGPIPE"} /\ UNCHANGED heapVars
    BY <1>0, <1>7, UvNextType, UvNextFate, UvNextKeepsHeap
  <2> QED BY <2>1 DEF UvInv, heapVars
<1>8. CASE UNCHANGED vars
  BY <1>8 DEF vars, uvVars, UvInv, UvTypeOK
<1> QED BY <1>1, <1>2, <1>3, <1>5, <1>6, <1>7, <1>8 DEF Next

(* Every variable of the client keeps its type: a wrapped capacity never    *)
(* becomes the size of a buffer (client.c:51-70).                           *)
THEOREM TypesSafe == Spec => []TypeOK
<1>1. IInv /\ UvInv => TypeOK
  BY DEF IInv, UvInv, Sound, TypeOK, Cap
<1> QED BY <1>1, InitIInv, NextIInv, InitUvInv, NextUvInv, PTL DEF Spec
=============================================================================
