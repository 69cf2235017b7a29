------------------------- MODULE RTSPFraming_proofs -------------------------
(***************************************************************************)
(* Theorems about RTSPFraming, for every set of wires, of any length, and  *)
(* every length of a body.                                                 *)
(***************************************************************************)
EXTENDS RTSPFraming, SequenceTheorems, WellFoundedInduction, TLAPS

-----------------------------------------------------------------------------
(* Induction over the naturals, told of sets.                              *)

LEMMA NatMin ==
  ASSUME NEW S \in SUBSET Nat, S # {}
  PROVE  \E x \in S : \A y \in S : x <= y
  <1> DEFINE R == OpToRel(<, Nat)
  <1>1. IsWellFoundedOn(R, Nat)
    BY NatLessThanWellFounded
  <1>2. \E x \in S : \A y \in S : ~ (<<y, x>> \in R)
    <2> HIDE DEF R
    <2> QED
      BY <1>1, WFMin
  <1>3. \A x, y \in Nat : y < x => <<y, x>> \in R
    BY DEF OpToRel
  <1>4. PICK x \in S : \A y \in S : ~ (<<y, x>> \in R)
    BY <1>2
  <1>5. \A y \in S : ~ (y < x)
    BY <1>3, <1>4, Zenon
  <1> QED
    BY <1>5

LEMMA SetInduction ==
  ASSUME NEW P, 0 \in P, \A n \in Nat : n \in P => n + 1 \in P
  PROVE  Nat \subseteq P
  <1> DEFINE S == {n \in Nat : n \notin P}
  <1>1. SUFFICES ASSUME S # {} PROVE FALSE
    OBVIOUS
  <1>2. PICK x \in S : \A y \in S : x <= y
    <2> HIDE DEF S
    <2>1. S \in SUBSET Nat
      BY DEF S
    <2> QED
      BY <2>1, <1>1, NatMin
  <1>3. x # 0 /\ x \in Nat
    OBVIOUS
  <1>4. x - 1 \in Nat /\ x - 1 \notin S
    BY <1>2, <1>3
  <1>5. x - 1 \in P
    BY <1>4
  <1> QED
    BY <1>3, <1>4, <1>5

-----------------------------------------------------------------------------
(* What FlattenSeq is.  g is the function it defines by recursion: g[i] is *)
(* the first i sequences of ss, one after the other.                       *)
Flattens(g, n, ss) ==
    /\ DOMAIN g = 1..n
    /\ \A i \in 1..n : g[i] = IF i = 1 THEN ss[i] ELSE g[i - 1] \o ss[i]

LEMMA FlattensExists ==
  ASSUME NEW T, NEW ss \in Seq(Seq(T)), NEW n \in 0..Len(ss)
  PROVE  \E g \in [1..n -> Seq(T)] : Flattens(g, n, ss)
  <1> DEFINE P == {m \in Nat : m <= Len(ss) => \E g \in [1..m -> Seq(T)] : Flattens(g, m, ss)}
  <1>1. 0 \in P
    <2>1. [i \in 1..0 |-> <<>>] \in [1..0 -> Seq(T)] /\ Flattens([i \in 1..0 |-> <<>>], 0, ss)
      BY DEF Flattens
    <2> QED
      BY <2>1
  <1>2. ASSUME NEW m \in Nat, m \in P PROVE m + 1 \in P
    <2> SUFFICES ASSUME m + 1 <= Len(ss)
                 PROVE  \E g \in [1..m + 1 -> Seq(T)] : Flattens(g, m + 1, ss)
      OBVIOUS
    <2>1. PICK g \in [1..m -> Seq(T)] : Flattens(g, m, ss)
      BY <1>2
    <2> DEFINE last == IF m = 0 THEN ss[1] ELSE g[m] \o ss[m + 1]
               h == [i \in 1..m + 1 |-> IF i = m + 1 THEN last ELSE g[i]]
    <2>2. \A i \in 1..m + 1 : ss[i] \in Seq(T)
      OBVIOUS
    <2>3. last \in Seq(T)
      BY <2>2
    <2>4. h \in [1..m + 1 -> Seq(T)]
      BY <2>3
    <2>5. ASSUME NEW i \in 1..m + 1
          PROVE  h[i] = IF i = 1 THEN ss[i] ELSE h[i - 1] \o ss[i]
      <3>1. CASE i = m + 1
        BY <3>1
      <3>2. CASE i # m + 1
        <4>1. i \in 1..m /\ i # m + 1 /\ (i # 1 => i - 1 \in 1..m /\ i - 1 # m + 1)
          BY <3>2
        <4>2. h[i] = g[i] /\ (i # 1 => h[i - 1] = g[i - 1])
          BY <4>1
        <4>3. g[i] = IF i = 1 THEN ss[i] ELSE g[i - 1] \o ss[i]
          BY <4>1, <2>1 DEF Flattens
        <4> HIDE DEF h
        <4> QED
          BY <4>2, <4>3
      <3> QED
        BY <3>1, <3>2
    <2> HIDE DEF h
    <2> QED
      BY <2>4, <2>5 DEF Flattens
  <1>3. Nat \subseteq P
    <2> HIDE DEF P
    <2> QED
      BY <1>1, <1>2, SetInduction
  <1> QED
    BY <1>3

LEMMA FlattensUnique ==
  ASSUME NEW ss, NEW g, NEW m \in Nat, NEW h, NEW n \in Nat,
         Flattens(g, m, ss), Flattens(h, n, ss), m <= n
  PROVE  \A i \in 1..m : g[i] = h[i]
  <1> DEFINE P == {i \in Nat : i \in 1..m => g[i] = h[i]}
  <1>1. 0 \in P
    OBVIOUS
  <1>2. ASSUME NEW i \in Nat, i \in P PROVE i + 1 \in P
    <2> SUFFICES ASSUME i + 1 \in 1..m PROVE g[i + 1] = h[i + 1]
      OBVIOUS
    <2>0. i + 1 \in 1..n /\ (i + 1) - 1 = i /\ (i + 1 = 1 <=> i = 0)
      OBVIOUS
    <2>1. g[i + 1] = IF i = 0 THEN ss[i + 1] ELSE g[i] \o ss[i + 1]
      BY <2>0 DEF Flattens
    <2>2. h[i + 1] = IF i = 0 THEN ss[i + 1] ELSE h[i] \o ss[i + 1]
      BY <2>0 DEF Flattens
    <2>3. CASE i = 0
      BY <2>1, <2>2, <2>3
    <2>4. CASE i # 0
      <3>1. i \in 1..m
        BY <2>4
      <3>2. g[i] = h[i]
        BY <3>1, <1>2
      <3> QED
        BY <2>1, <2>2, <2>4, <3>2
    <2> QED
      BY <2>3, <2>4
  <1>3. Nat \subseteq P
    <2> HIDE DEF P
    <2> QED
      BY <1>1, <1>2, SetInduction
  <1> QED
    BY <1>3

(* The recursion defines something, so FlattenSeq is its last value.       *)
LEMMA FlattenIs ==
  ASSUME NEW T, NEW ss \in Seq(Seq(T)), Len(ss) # 0
  PROVE  \E g \in [1..Len(ss) -> Seq(T)] :
            Flattens(g, Len(ss), ss) /\ FlattenSeq(ss) = g[Len(ss)]
  <1> DEFINE n == Len(ss)
             f == CHOOSE f : f = [i \in 1..n |-> IF i = 1 THEN ss[i] ELSE f[i - 1] \o ss[i]]
  <1>1. PICK g \in [1..n -> Seq(T)] : Flattens(g, n, ss)
    BY FlattensExists
  <1>2. g = [i \in 1..n |-> IF i = 1 THEN ss[i] ELSE g[i - 1] \o ss[i]]
    BY <1>1 DEF Flattens
  <1>3. f = [i \in 1..n |-> IF i = 1 THEN ss[i] ELSE f[i - 1] \o ss[i]]
    BY <1>2
  <1>4. FlattenSeq(ss) = f[n]
    BY DEF FlattenSeq
  <1> HIDE DEF f
  <1>5. DOMAIN f = 1..n
    BY <1>3
  <1>6. \A i \in 1..n : f[i] = IF i = 1 THEN ss[i] ELSE f[i - 1] \o ss[i]
    BY <1>3
  <1>7. Flattens(f, n, ss)
    BY <1>5, <1>6 DEF Flattens
  <1>8. f[n] = g[n]
    BY <1>1, <1>7, FlattensUnique, n \in 1..n
  <1> QED
    BY <1>1, <1>4, <1>8

LEMMA FlattenProperties ==
  ASSUME NEW T, NEW ss \in Seq(Seq(T))
  PROVE  /\ FlattenSeq(<<>>) = <<>>
         /\ FlattenSeq(ss) \in Seq(T)
         /\ \A x \in Seq(T) : FlattenSeq(Append(ss, x)) = FlattenSeq(ss) \o x
  <1>1. FlattenSeq(<<>>) = <<>>
    BY DEF FlattenSeq
  <1>2. Len(ss) = 0 => FlattenSeq(ss) = <<>>
    BY <1>1
  <1>3. FlattenSeq(ss) \in Seq(T)
    <2>1. CASE Len(ss) = 0
      <3>1. FlattenSeq(ss) = <<>> /\ <<>> \in Seq(T)
        BY <2>1, <1>2
      <3> QED
        BY <3>1
    <2>2. CASE Len(ss) # 0
      <3>1. PICK g \in [1..Len(ss) -> Seq(T)] : FlattenSeq(ss) = g[Len(ss)]
        BY <2>2, FlattenIs
      <3>2. Len(ss) \in 1..Len(ss)
        BY <2>2
      <3>3. g[Len(ss)] \in Seq(T)
        BY <3>2
      <3> QED
        BY <3>1, <3>3
    <2> QED
      BY <2>1, <2>2
  <1>4. ASSUME NEW x \in Seq(T) PROVE FlattenSeq(Append(ss, x)) = FlattenSeq(ss) \o x
    <2> DEFINE tt == Append(ss, x)
    <2>1. tt \in Seq(Seq(T)) /\ Len(tt) = Len(ss) + 1 /\ tt[Len(ss) + 1] = x
          /\ \A i \in 1..Len(ss) : tt[i] = ss[i]
      OBVIOUS
    <2> HIDE DEF tt
    <2>2. PICK h \in [1..Len(tt) -> Seq(T)] :
             Flattens(h, Len(tt), tt) /\ FlattenSeq(tt) = h[Len(tt)]
      BY <2>1, FlattenIs
    <2>3. CASE Len(ss) = 0
      <3>1. h[1] = x
        BY <2>1, <2>2, <2>3 DEF Flattens
      <3> QED
        BY <3>1, <2>1, <2>2, <2>3, <1>2, ConcatEmptySeq DEF tt
    <2>4. CASE Len(ss) # 0
      <3>1. PICK g \in [1..Len(ss) -> Seq(T)] :
               Flattens(g, Len(ss), ss) /\ FlattenSeq(ss) = g[Len(ss)]
        BY <2>4, FlattenIs
      <3>2. Flattens(g, Len(ss), tt)
        BY <3>1, <2>1 DEF Flattens
      <3>3. g[Len(ss)] = h[Len(ss)]
        BY <3>2, <2>1, <2>2, <2>4, FlattensUnique, Len(ss) \in 1..Len(ss)
      <3>4. h[Len(tt)] = h[Len(ss)] \o x
        <4>1. Len(tt) \in 1..Len(tt) /\ Len(tt) # 1 /\ Len(tt) - 1 = Len(ss)
          BY <2>1, <2>4
        <4>2. h[Len(tt)] = h[Len(tt) - 1] \o tt[Len(tt)]
          BY <4>1, <2>2 DEF Flattens
        <4> QED
          BY <4>1, <4>2, <2>1
      <3> QED
        BY <3>1, <3>3, <3>4, <2>2 DEF tt
    <2> QED
      BY <2>3, <2>4
  <1> QED
    BY <1>1, <1>3, <1>4

(* The first k sequences of ss, one after the other.                       *)
Joined(ss, k) == FlattenSeq(SubSeq(ss, 1, k))

LEMMA JoinedProperties ==
  ASSUME NEW T, NEW ss \in Seq(Seq(T))
  PROVE  /\ Joined(ss, 0) = <<>> /\ Joined(ss, Len(ss)) = FlattenSeq(ss)
         /\ \A k \in 0..Len(ss) : Joined(ss, k) \in Seq(T)
         /\ \A k \in 0..Len(ss) : k # Len(ss) => Joined(ss, k + 1) = Joined(ss, k) \o ss[k + 1]
  <1>1. Joined(ss, 0) = <<>>
    <2>1. SubSeq(ss, 1, 0) = <<>>
      BY SubSeqEmpty
    <2> QED
      BY <2>1, FlattenProperties DEF Joined
  <1>2. Joined(ss, Len(ss)) = FlattenSeq(ss)
    BY SubSeqFull DEF Joined
  <1>3. \A k \in 0..Len(ss) : SubSeq(ss, 1, k) \in Seq(Seq(T))
    OBVIOUS
  <1>4. \A k \in 0..Len(ss) : Joined(ss, k) \in Seq(T)
    BY <1>3, FlattenProperties DEF Joined
  <1>5. ASSUME NEW k \in 0..Len(ss), k # Len(ss)
        PROVE  Joined(ss, k + 1) = Joined(ss, k) \o ss[k + 1]
    <2>1. k + 1 \in 1..Len(ss)
      BY <1>5
    <2>2. ss[k + 1] \in Seq(T)
      BY <2>1
    <2>3. SubSeq(ss, 1, k + 1) = Append(SubSeq(ss, 1, k), ss[k + 1])
      BY <2>1, <1>5
    <2> QED
      BY <2>2, <2>3, <1>3, FlattenProperties DEF Joined
  <1> QED
    BY <1>1, <1>2, <1>4, <1>5

LEMMA PrefixOfConcat ==
  ASSUME NEW T, NEW s \in Seq(T), NEW t \in Seq(T)
  PROVE  IsPrefix(s, s \o t)
  <1>1. SubSeq(s, 1, Len(s)) = s
    BY SubSeqFull
  <1>2. SubSeq(s \o t, 1, Len(s)) = s
    OBVIOUS
  <1> QED
    BY <1>1, <1>2 DEF IsPrefix

LEMMA PrefixTransitive ==
  ASSUME NEW T, NEW s \in Seq(T), NEW t \in Seq(T), NEW u \in Seq(T),
         IsPrefix(s, t), IsPrefix(t, u)
  PROVE  IsPrefix(s, u)
  <1>1. SubSeq(s, 1, Len(s)) = SubSeq(t, 1, Len(s)) /\ Len(s) <= Len(t)
    BY DEF IsPrefix
  <1>2. SubSeq(t, 1, Len(t)) = SubSeq(u, 1, Len(t)) /\ Len(t) <= Len(u)
    BY DEF IsPrefix
  <1>3. \A i \in 1..Len(t) : t[i] = u[i]
    <2>1. \A i \in 1..Len(t) : SubSeq(t, 1, Len(t))[i] = t[i] /\ SubSeq(u, 1, Len(t))[i] = u[i]
      BY <1>2
    <2> QED
      BY <1>2, <2>1
  <1>4. SubSeq(t, 1, Len(s)) = SubSeq(u, 1, Len(s))
    BY <1>1, <1>2, <1>3
  <1> QED
    BY <1>1, <1>2, <1>4 DEF IsPrefix

(* Fewer of them are a prefix of more.                                     *)
LEMMA JoinedGrows ==
  ASSUME NEW T, NEW ss \in Seq(Seq(T)), NEW k \in 0..Len(ss), NEW j \in 0..k
  PROVE  IsPrefix(Joined(ss, j), Joined(ss, k))
  <1> DEFINE P == {m \in Nat : j + m <= Len(ss) => IsPrefix(Joined(ss, j), Joined(ss, j + m))}
  <1>1. 0 \in P
    <2>1. Joined(ss, j) \in Seq(T) /\ j + 0 = j
      BY JoinedProperties
    <2>2. IsPrefix(Joined(ss, j), Joined(ss, j))
      BY <2>1 DEF IsPrefix
    <2> QED
      BY <2>1, <2>2
  <1>2. ASSUME NEW m \in Nat, m \in P PROVE m + 1 \in P
    <2> SUFFICES ASSUME j + (m + 1) <= Len(ss)
                 PROVE  IsPrefix(Joined(ss, j), Joined(ss, j + (m + 1)))
      OBVIOUS
    <2>1. j + m \in 0..Len(ss) /\ j + m # Len(ss) /\ j + (m + 1) = (j + m) + 1
          /\ (j + m) + 1 \in 1..Len(ss) /\ (j + m) + 1 \in 0..Len(ss) /\ j \in 0..Len(ss)
      OBVIOUS
    <2>2. IsPrefix(Joined(ss, j), Joined(ss, j + m))
      BY <1>2, <2>1
    <2>3. /\ Joined(ss, j) \in Seq(T) /\ Joined(ss, j + m) \in Seq(T)
          /\ Joined(ss, (j + m) + 1) \in Seq(T)
          /\ Joined(ss, (j + m) + 1) = Joined(ss, j + m) \o ss[(j + m) + 1]
      BY <2>1, JoinedProperties
    <2>4. ss[(j + m) + 1] \in Seq(T)
      BY <2>1
    <2>5. IsPrefix(Joined(ss, j + m), Joined(ss, (j + m) + 1))
      BY <2>3, <2>4, PrefixOfConcat
    <2> QED
      BY <2>1, <2>2, <2>3, <2>5, PrefixTransitive
  <1>3. Nat \subseteq P
    <2> HIDE DEF P
    <2> QED
      BY <1>1, <1>2, SetInduction
  <1>4. k - j \in Nat /\ j + (k - j) = k /\ k <= Len(ss)
    OBVIOUS
  <1>5. k - j \in P
    BY <1>3, <1>4
  <1> QED
    BY <1>4, <1>5

-----------------------------------------------------------------------------
(* What is on the wire, and what is handed to _dispatch.                   *)
LEMMA BodyType == Body \in Seq(Toks) /\ Len(Body) = BodyLength
  BY BodyLengthAssumption DEF Body, Toks

LEMMA HeadersAre ==
  /\ HeaderOf("request") = <<"request", "cr", "lf", "header">>
  /\ HeaderOf("response") = <<"response">>
  /\ HeaderOf("request_and_body") = <<"request", "cr", "lf", "length">>
  /\ HeaderOf("bad_start") = <<"junk">>
  /\ HeaderOf("bad_header_and_body") =
        <<"request", "cr", "lf", "no_colon", "cr", "lf", "length">>
  /\ HeaderOf("undecodable") = <<"request", "cr", "lf", "not_utf8">>
  /\ HeaderOf("undecodable_and_body") =
        <<"request", "cr", "lf", "not_utf8", "cr", "lf", "length">>
  /\ HeaderOf("unreadable_length_and_body") = <<"request", "cr", "lf", "length_unreadable">>
  /\ HeaderOf("negative_length") = <<"request", "cr", "lf", "length_negative">>
  <1>1. HeaderOf("request") = <<"request", "cr", "lf", "header">>
    BY DEF HeaderOf
  <1>2. HeaderOf("response") = <<"response">>
    BY DEF HeaderOf
  <1>3. HeaderOf("request_and_body") = <<"request", "cr", "lf", "length">>
    BY DEF HeaderOf
  <1>4. HeaderOf("bad_start") = <<"junk">>
    BY DEF HeaderOf
  <1>5. HeaderOf("bad_header_and_body") =
           <<"request", "cr", "lf", "no_colon", "cr", "lf", "length">>
    BY DEF HeaderOf
  <1>6. HeaderOf("undecodable") = <<"request", "cr", "lf", "not_utf8">>
    BY DEF HeaderOf
  <1>7. HeaderOf("undecodable_and_body") =
           <<"request", "cr", "lf", "not_utf8", "cr", "lf", "length">>
    BY DEF HeaderOf
  <1>8. HeaderOf("unreadable_length_and_body") = <<"request", "cr", "lf", "length_unreadable">>
    BY DEF HeaderOf
  <1>9. HeaderOf("negative_length") = <<"request", "cr", "lf", "length_negative">>
    BY DEF HeaderOf
  <1> QED
    BY <1>1, <1>2, <1>3, <1>4, <1>5, <1>6, <1>7, <1>8, <1>9

LEMMA SevenInSeq ==
  ASSUME NEW T, NEW a \in T, NEW b \in T, NEW c \in T, NEW d \in T, NEW e \in T,
         NEW f \in T, NEW g \in T
  PROVE  <<a, b, c, d, e, f, g>> \in Seq(T)
  OBVIOUS

LEMMA HeaderType ==
  ASSUME NEW item \in Items, item # "stray"
  PROVE  HeaderOf(item) \in Seq(Toks)
  <1>1. /\ <<"request", "cr", "lf", "header">> \in Seq(Toks)
        /\ <<"response">> \in Seq(Toks)
        /\ <<"request", "cr", "lf", "length">> \in Seq(Toks)
        /\ <<"junk">> \in Seq(Toks)
        /\ <<"request", "cr", "lf", "not_utf8">> \in Seq(Toks)
        /\ <<"request", "cr", "lf", "length_unreadable">> \in Seq(Toks)
        /\ <<"request", "cr", "lf", "length_negative">> \in Seq(Toks)
    BY DEF Toks
  <1>2. /\ <<"request", "cr", "lf", "no_colon", "cr", "lf", "length">> \in Seq(Toks)
        /\ <<"request", "cr", "lf", "not_utf8", "cr", "lf", "length">> \in Seq(Toks)
    <2>1. "request" \in Toks /\ "cr" \in Toks /\ "lf" \in Toks /\ "no_colon" \in Toks
          /\ "length" \in Toks /\ "not_utf8" \in Toks
      BY DEF Toks
    <2> QED
      BY <2>1, SevenInSeq
  <1>3. item \in {"request", "response", "request_and_body", "bad_start", "bad_header_and_body",
                 "undecodable", "undecodable_and_body", "unreadable_length_and_body",
                 "negative_length"}
    BY DEF Items, BadlyFramed, LeavesBody
  <1> QED
    BY <1>1, <1>2, <1>3, HeadersAre, Zenon

LEMMA TokensType ==
  ASSUME NEW item \in Items
  PROVE  Tokens(item) \in Seq(Toks)
  <1>1. CASE item = "stray"
    <2>1. <<"cr", "lf">> \in Seq(Toks)
      BY DEF Toks
    <2> QED
      BY <1>1, <2>1 DEF Tokens, CRLF
  <1>2. CASE item # "stray"
    <2>1. BodyOf(item) \in Seq(Toks)
      <3>1. <<>> \in Seq(Toks)
        OBVIOUS
      <3> QED
        BY <3>1, BodyType DEF BodyOf
    <2>2. Blank \in Seq(Toks)
      BY DEF Blank, Toks
    <2>3. HeaderOf(item) \in Seq(Toks)
      BY <1>2, HeaderType
    <2>4. HeaderOf(item) \o Blank \o BodyOf(item) \in Seq(Toks)
      BY <2>1, <2>2, <2>3
    <2> QED
      BY <1>2, <2>4 DEF Tokens
  <1> QED
    BY <1>1, <1>2

LEMMA MeantType ==
  ASSUME NEW item \in Items
  PROVE  Meant(item) \in Seq(Messages)
  <1>1. <<>> \in Seq(Toks) /\ Body \in Seq(Toks)
    BY BodyType, EmptySeq
  <1>2. /\ [start |-> "request", body |-> <<>>] \in Messages
        /\ [start |-> "response", body |-> <<>>] \in Messages
        /\ [start |-> "request", body |-> Body] \in Messages
    BY <1>1 DEF Messages, Starts
  <1>3. CASE item \in {"request", "unreadable_length_and_body"}
    BY <1>2, <1>3 DEF Meant
  <1>4. CASE item = "response"
    BY <1>2, <1>4 DEF Meant
  <1>5. CASE item = "request_and_body"
    BY <1>2, <1>5 DEF Meant
  <1>6. CASE item \notin {"request", "unreadable_length_and_body", "response",
                          "request_and_body"}
    <2>1. Meant(item) = <<>>
      BY <1>6 DEF Meant
    <2> QED
      BY <2>1
  <1> QED
    BY <1>3, <1>4, <1>5, <1>6

(* Where the first k items end, and what was meant by them.                *)
At(w, k) == Stream(SubSeq(w, 1, k))
SentAt(w, k) == Sent(SubSeq(w, 1, k))

LEMMA AtProperties ==
  ASSUME NEW w \in Seq(Items)
  PROVE  /\ At(w, 0) = <<>> /\ At(w, Len(w)) = Stream(w)
         /\ \A k \in 0..Len(w) : At(w, k) \in Seq(Toks)
         /\ \A k \in 0..Len(w) : k # Len(w) => At(w, k + 1) = At(w, k) \o Tokens(w[k + 1])
         /\ \A k \in 0..Len(w) : \A j \in 0..k : IsPrefix(At(w, j), At(w, k))
  <1> DEFINE ss == [i \in 1..Len(w) |-> Tokens(w[i])]
  <1>1. ss \in Seq(Seq(Toks)) /\ Len(ss) = Len(w) /\ \A i \in 1..Len(w) : ss[i] = Tokens(w[i])
    <2>1. \A i \in 1..Len(w) : Tokens(w[i]) \in Seq(Toks)
      BY TokensType
    <2> QED
      BY <2>1
  <1>2. ASSUME NEW k \in 0..Len(w) PROVE At(w, k) = Joined(ss, k)
    <2>1. DOMAIN SubSeq(w, 1, k) = 1..k /\ \A i \in 1..k : SubSeq(w, 1, k)[i] = w[i]
      OBVIOUS
    <2>2. SubSeq(ss, 1, k) = [i \in 1..k |-> Tokens(w[i])]
      <3>1. SubSeq(ss, 1, k) = [i \in 1..k |-> ss[i]]
        <4> HIDE DEF ss
        <4> QED
          BY <1>1
      <3>2. \A i \in 1..k : ss[i] = Tokens(w[i])
        BY <1>1
      <3> HIDE DEF ss
      <3> QED
        BY <3>1, <3>2
    <2>3. [i \in DOMAIN SubSeq(w, 1, k) |-> Tokens(SubSeq(w, 1, k)[i])] = SubSeq(ss, 1, k)
      BY <2>1, <2>2
    <2> HIDE DEF ss
    <2> QED
      BY <2>3 DEF At, Stream, Joined
  <1>3. At(w, Len(w)) = Stream(w)
    BY SubSeqFull DEF At
  <1> HIDE DEF ss
  <1>4. At(w, 0) = <<>> /\ \A k \in 0..Len(w) : At(w, k) \in Seq(Toks)
    BY <1>1, <1>2, JoinedProperties
  <1>5. ASSUME NEW k \in 0..Len(w), k # Len(w)
        PROVE  At(w, k + 1) = At(w, k) \o Tokens(w[k + 1])
    <2>1. k + 1 \in 0..Len(w) /\ k + 1 \in 1..Len(w)
      BY <1>5
    <2>2. Joined(ss, k + 1) = Joined(ss, k) \o ss[k + 1]
      BY <1>1, <1>5, JoinedProperties
    <2> QED
      BY <2>1, <2>2, <1>1, <1>2
  <1>6. \A k \in 0..Len(w) : \A j \in 0..k : IsPrefix(At(w, j), At(w, k))
    BY <1>1, <1>2, JoinedGrows
  <1> QED
    BY <1>3, <1>4, <1>5, <1>6

LEMMA SentProperties ==
  ASSUME NEW w \in Seq(Items)
  PROVE  /\ SentAt(w, 0) = <<>> /\ SentAt(w, Len(w)) = Sent(w)
         /\ \A k \in 0..Len(w) : SentAt(w, k) \in Seq(Messages)
         /\ \A k \in 0..Len(w) : k # Len(w) => SentAt(w, k + 1) = SentAt(w, k) \o Meant(w[k + 1])
         /\ \A k \in 0..Len(w) : \A j \in 0..k : IsPrefix(SentAt(w, j), SentAt(w, k))
  <1> DEFINE ss == [i \in 1..Len(w) |-> Meant(w[i])]
  <1>1. ss \in Seq(Seq(Messages)) /\ Len(ss) = Len(w) /\ \A i \in 1..Len(w) : ss[i] = Meant(w[i])
    <2>1. \A i \in 1..Len(w) : Meant(w[i]) \in Seq(Messages)
      BY MeantType
    <2> QED
      BY <2>1
  <1>2. ASSUME NEW k \in 0..Len(w) PROVE SentAt(w, k) = Joined(ss, k)
    <2>1. DOMAIN SubSeq(w, 1, k) = 1..k /\ \A i \in 1..k : SubSeq(w, 1, k)[i] = w[i]
      OBVIOUS
    <2>2. SubSeq(ss, 1, k) = [i \in 1..k |-> Meant(w[i])]
      <3>1. SubSeq(ss, 1, k) = [i \in 1..k |-> ss[i]]
        <4> HIDE DEF ss
        <4> QED
          BY <1>1
      <3>2. \A i \in 1..k : ss[i] = Meant(w[i])
        BY <1>1
      <3> HIDE DEF ss
      <3> QED
        BY <3>1, <3>2
    <2>3. [i \in DOMAIN SubSeq(w, 1, k) |-> Meant(SubSeq(w, 1, k)[i])] = SubSeq(ss, 1, k)
      BY <2>1, <2>2
    <2> HIDE DEF ss
    <2> QED
      BY <2>3 DEF SentAt, Sent, Joined
  <1>3. SentAt(w, Len(w)) = Sent(w)
    BY SubSeqFull DEF SentAt
  <1> HIDE DEF ss
  <1>4. SentAt(w, 0) = <<>> /\ \A k \in 0..Len(w) : SentAt(w, k) \in Seq(Messages)
    BY <1>1, <1>2, JoinedProperties
  <1>5. ASSUME NEW k \in 0..Len(w), k # Len(w)
        PROVE  SentAt(w, k + 1) = SentAt(w, k) \o Meant(w[k + 1])
    <2>1. k + 1 \in 0..Len(w) /\ k + 1 \in 1..Len(w)
      BY <1>5
    <2>2. Joined(ss, k + 1) = Joined(ss, k) \o ss[k + 1]
      BY <1>1, <1>5, JoinedProperties
    <2> QED
      BY <2>1, <2>2, <1>1, <1>2
  <1>6. \A k \in 0..Len(w) : \A j \in 0..k : IsPrefix(SentAt(w, j), SentAt(w, k))
    BY <1>1, <1>2, JoinedGrows
  <1> QED
    BY <1>3, <1>4, <1>5, <1>6

-----------------------------------------------------------------------------
(* The headers of the items.                                               *)
LEMMA OneToken ==
  ASSUME NEW a, NEW token
  PROVE  /\ Len(<<a>>) = 1 /\ <<a>>[1] = a /\ Head(<<a>>) = a /\ <<a>> # <<>>
         /\ HasToken(<<a>>, token) <=> token = a
  BY DEF HasToken

LEMMA FourTokens ==
  ASSUME NEW a, NEW b, NEW c, NEW d, NEW H, H = <<a, b, c, d>>
  PROVE  /\ Len(H) = 4 /\ Head(H) = a /\ H # <<>>
         /\ H[1] = a /\ H[2] = b /\ H[3] = c /\ H[4] = d
         /\ \A token : HasToken(H, token) <=> (token = a \/ token = b \/ token = c \/ token = d)
  <1>1. /\ Len(H) = 4 /\ Head(H) = a /\ H # <<>> /\ DOMAIN H = 1..4
        /\ H[1] = a /\ H[2] = b /\ H[3] = c /\ H[4] = d
    OBVIOUS
  <1>2. DOMAIN H = {1, 2, 3, 4}
    BY <1>1
  <1>3. ASSUME NEW token
        PROVE  HasToken(H, token) <=> (token = a \/ token = b \/ token = c \/ token = d)
    BY <1>1, <1>2, Zenon DEF HasToken
  <1> QED
    BY <1>1, <1>3

LEMMA SevenTokens ==
  ASSUME NEW a, NEW b, NEW c, NEW d, NEW e, NEW f, NEW g, NEW H, H = <<a, b, c, d, e, f, g>>
  PROVE  /\ Len(H) = 7 /\ Head(H) = a /\ H # <<>>
         /\ H[1] = a /\ H[2] = b /\ H[3] = c /\ H[4] = d /\ H[5] = e /\ H[6] = f /\ H[7] = g
         /\ \A token : HasToken(H, token) <=>
                 (  token = a \/ token = b \/ token = c \/ token = d
                  \/ token = e \/ token = f \/ token = g)
  <1>1. /\ Len(H) = 7 /\ Head(H) = a /\ H # <<>> /\ DOMAIN H = 1..7
        /\ H[1] = a /\ H[2] = b /\ H[3] = c /\ H[4] = d /\ H[5] = e /\ H[6] = f /\ H[7] = g
    OBVIOUS
  <1>2. DOMAIN H = {1, 2, 3, 4, 5, 6, 7}
    BY <1>1
  <1>3. ASSUME NEW token
        PROVE  HasToken(H, token) <=>
                (  token = a \/ token = b \/ token = c \/ token = d
                 \/ token = e \/ token = f \/ token = g)
    BY <1>1, <1>2, Zenon DEF HasToken
  <1> QED
    BY <1>1, <1>3

LEMMA ParseIs ==
  ASSUME NEW H, H # <<>>, NEW body
  PROVE  Parse(H, body) = IF Head(H) \in {"request", "response"} /\ ~ HasField(H, "no_colon")
                          THEN <<[start |-> Head(H), body |-> body]>> ELSE <<>>
  BY DEF Parse, Starts

(* The first line is no field.                                             *)
LEMMA FieldIsToken ==
  ASSUME NEW T, NEW H \in Seq(T), H # <<>>, NEW token, token # Head(H)
  PROVE  HasField(H, token) <=> HasToken(H, token)
  <1>1. DOMAIN H = 1..Len(H) /\ Len(H) >= 1 /\ H[1] = Head(H)
    OBVIOUS
  <1>2. \A i \in 1..Len(H) : i = 1 \/ i \in 2..Len(H)
    BY <1>1
  <1>3. \A i \in 2..Len(H) : i \in 1..Len(H)
    BY <1>1
  <1> QED
    BY <1>1, <1>2, <1>3, Zenon DEF HasField, HasToken

(* A header has no empty line, and does not begin with one: CR is followed *)
(* by LF and then by a line.                                               *)
Shaped(H) ==
    /\ Len(H) >= 1 /\ H[1] # "cr"
    /\ \A i \in 1..Len(H) : H[i] = "cr" => i + 2 <= Len(H) /\ H[i + 2] # "cr"

LEMMA ShapedHeader ==
  ASSUME NEW item \in Items, item # "stray"
  PROVE  Shaped(HeaderOf(item))
  <1>1. \A a : a # "cr" => Shaped(<<a>>)
    BY DEF Shaped
  <1>2. \A a, d : a # "cr" /\ d # "cr" => Shaped(<<a, "cr", "lf", d>>)
    <2> TAKE a, d
    <2> DEFINE H == <<a, "cr", "lf", d>>
    <2>1. Len(H) = 4 /\ H[1] = a /\ H[2] = "cr" /\ H[3] = "lf" /\ H[4] = d
      BY FourTokens
    <2> HIDE DEF H
    <2>2. a # "cr" /\ d # "cr" => Shaped(H)
      BY <2>1 DEF Shaped
    <2> QED
      BY <2>2 DEF H
  <1>3. \A a, d, g : a # "cr" /\ d # "cr" /\ g # "cr" =>
                        Shaped(<<a, "cr", "lf", d, "cr", "lf", g>>)
    <2> TAKE a, d, g
    <2> DEFINE H == <<a, "cr", "lf", d, "cr", "lf", g>>
    <2>1. Len(H) = 7 /\ H[1] = a /\ H[2] = "cr" /\ H[3] = "lf" /\ H[4] = d
          /\ H[5] = "cr" /\ H[6] = "lf" /\ H[7] = g
      BY SevenTokens
    <2> HIDE DEF H
    <2>2. a # "cr" /\ d # "cr" /\ g # "cr" => Shaped(H)
      BY <2>1 DEF Shaped
    <2> QED
      BY <2>2 DEF H
  <1>4. /\ Shaped(<<"request", "cr", "lf", "header">>) /\ Shaped(<<"response">>)
        /\ Shaped(<<"request", "cr", "lf", "length">>) /\ Shaped(<<"junk">>)
        /\ Shaped(<<"request", "cr", "lf", "no_colon", "cr", "lf", "length">>)
        /\ Shaped(<<"request", "cr", "lf", "not_utf8">>)
        /\ Shaped(<<"request", "cr", "lf", "not_utf8", "cr", "lf", "length">>)
        /\ Shaped(<<"request", "cr", "lf", "length_unreadable">>)
        /\ Shaped(<<"request", "cr", "lf", "length_negative">>)
    BY <1>1, <1>2, <1>3
  <1> QED
    BY <1>4, HeadersAre DEF Items, BadlyFramed, LeavesBody

(* The lines of a well-framed header.                                      *)
LEMMA HeaderTokens ==
  ASSUME NEW item \in {"request", "response", "request_and_body", "bad_start",
                       "bad_header_and_body", "undecodable"}
  PROVE  LET H == HeaderOf(item)
         IN  /\ H # <<>>
             /\ Head(H) = IF item = "response" THEN "response"
                          ELSE IF item = "bad_start" THEN "junk" ELSE "request"
             /\ HasToken(H, "length") <=> item \in {"request_and_body", "bad_header_and_body"}
             /\ ~ HasToken(H, "length_negative")
             /\ HasToken(H, "no_colon") <=> item = "bad_header_and_body"
             /\ HasToken(H, "not_utf8") <=> item = "undecodable"
  <1> DEFINE H == HeaderOf(item)
  <1>1. CASE item = "request"
    <2>1. H = <<"request", "cr", "lf", "header">>
      BY <1>1, HeadersAre
    <2> HIDE DEF H
    <2>2. H # <<>> /\ Head(H) = "request"
      BY <2>1, FourTokens
    <2>3. \A token : HasToken(H, token) <=>
            (token = "request" \/ token = "cr" \/ token = "lf" \/ token = "header")
      BY <2>1, FourTokens
    <2> QED
      BY <1>1, <2>2, <2>3 DEF H
  <1>2. CASE item = "response"
    <2>1. H = <<"response">>
      BY <1>2, HeadersAre
    <2> HIDE DEF H
    <2>2. H # <<>> /\ Head(H) = "response"
      BY <2>1, OneToken
    <2>3. \A token : HasToken(H, token) <=>
            (token = "response")
      BY <2>1, OneToken
    <2> QED
      BY <1>2, <2>2, <2>3 DEF H
  <1>3. CASE item = "request_and_body"
    <2>1. H = <<"request", "cr", "lf", "length">>
      BY <1>3, HeadersAre
    <2> HIDE DEF H
    <2>2. H # <<>> /\ Head(H) = "request"
      BY <2>1, FourTokens
    <2>3. \A token : HasToken(H, token) <=>
            (token = "request" \/ token = "cr" \/ token = "lf" \/ token = "length")
      BY <2>1, FourTokens
    <2> QED
      BY <1>3, <2>2, <2>3 DEF H
  <1>4. CASE item = "bad_start"
    <2>1. H = <<"junk">>
      BY <1>4, HeadersAre
    <2> HIDE DEF H
    <2>2. H # <<>> /\ Head(H) = "junk"
      BY <2>1, OneToken
    <2>3. \A token : HasToken(H, token) <=>
            (token = "junk")
      BY <2>1, OneToken
    <2> QED
      BY <1>4, <2>2, <2>3 DEF H
  <1>5. CASE item = "bad_header_and_body"
    <2>1. H = <<"request", "cr", "lf", "no_colon", "cr", "lf", "length">>
      BY <1>5, HeadersAre
    <2> HIDE DEF H
    <2>2. H # <<>> /\ Head(H) = "request"
      BY <2>1, SevenTokens
    <2>3. \A token : HasToken(H, token) <=>
            (  token = "request" \/ token = "cr" \/ token = "lf"
               \/ token = "no_colon" \/ token = "length")
      BY <2>1, SevenTokens
    <2> QED
      BY <1>5, <2>2, <2>3 DEF H
  <1>6. CASE item = "undecodable"
    <2>1. H = <<"request", "cr", "lf", "not_utf8">>
      BY <1>6, HeadersAre
    <2> HIDE DEF H
    <2>2. H # <<>> /\ Head(H) = "request"
      BY <2>1, FourTokens
    <2>3. \A token : HasToken(H, token) <=>
            (token = "request" \/ token = "cr" \/ token = "lf" \/ token = "not_utf8")
      BY <2>1, FourTokens
    <2> QED
      BY <1>6, <2>2, <2>3 DEF H
  <1> QED
    BY <1>1, <1>2, <1>3, <1>4, <1>5, <1>6

(* take_message reads of a header what the sink meant by it, unless it is  *)
(* badly framed.                                                           *)
LEMMA HeaderMeans ==
  ASSUME NEW item \in Items, item # "stray", item \notin BadlyFramed
  PROVE  LET H == HeaderOf(item)
         IN  /\ ContentLength(H) = Len(BodyOf(item))
             /\ HasToken(H, "not_utf8") <=> item = "undecodable"
             /\ item # "undecodable" => Parse(H, BodyOf(item)) = Meant(item)
  <1> DEFINE H == HeaderOf(item)
  <1>1. item \in {"request", "response", "request_and_body", "bad_start",
                  "bad_header_and_body", "undecodable"}
    BY DEF Items
  <1>2. /\ H # <<>>
        /\ Head(H) = IF item = "response" THEN "response"
                     ELSE IF item = "bad_start" THEN "junk" ELSE "request"
        /\ HasToken(H, "length") <=> item \in {"request_and_body", "bad_header_and_body"}
        /\ ~ HasToken(H, "length_negative")
        /\ HasToken(H, "no_colon") <=> item = "bad_header_and_body"
        /\ HasToken(H, "not_utf8") <=> item = "undecodable"
    BY <1>1, HeaderTokens
  <1>3. H \in Seq(Toks)
    BY HeaderType
  <1>4. item \notin LeavesBody
    BY DEF BadlyFramed
  <1> HIDE DEF H
  <1>5. Head(H) \in {"request", "response", "junk"}
    BY <1>2
  <1>6. /\ HasField(H, "length") <=> item \in {"request_and_body", "bad_header_and_body"}
        /\ ~ HasField(H, "length_negative")
        /\ HasField(H, "no_colon") <=> item = "bad_header_and_body"
    BY <1>2, <1>3, <1>5, FieldIsToken
  <1>7. BodyOf(item) = IF item \in {"request_and_body", "bad_header_and_body"} THEN Body ELSE <<>>
    BY <1>4 DEF BodyOf
  <1>8. ContentLength(H) = Len(BodyOf(item))
    BY <1>6, <1>7, BodyType, Len(<<>>) = 0 DEF ContentLength
  <1>9. ASSUME item # "undecodable" PROVE Parse(H, BodyOf(item)) = Meant(item)
    <2>1. Parse(H, BodyOf(item)) =
             IF Head(H) \in {"request", "response"} /\ item # "bad_header_and_body"
             THEN <<[start |-> Head(H), body |-> BodyOf(item)]>> ELSE <<>>
      BY <1>2, <1>6, ParseIs
    <2>2. CASE item = "request"
      BY <1>2, <1>7, <2>1, <2>2 DEF Meant
    <2>3. CASE item = "response"
      BY <1>2, <1>7, <2>1, <2>3 DEF Meant
    <2>4. CASE item = "request_and_body"
      BY <1>2, <1>7, <2>1, <2>4 DEF Meant
    <2>5. CASE item \in {"bad_start", "bad_header_and_body"}
      BY <1>2, <2>1, <2>5 DEF Meant
    <2> QED
      BY <1>1, <1>9, <2>2, <2>3, <2>4, <2>5
  <1> QED
    BY <1>2, <1>8, <1>9 DEF H

-----------------------------------------------------------------------------
(* What Drop leaves.                                                       *)
LEMMA DropProperties ==
  ASSUME NEW T, NEW s \in Seq(T), NEW n \in 0..Len(s)
  PROVE  /\ Drop(s, n) \in Seq(T) /\ Len(Drop(s, n)) = Len(s) - n
         /\ \A i \in 1..Len(s) - n : Drop(s, n)[i] = s[n + i]
  BY DEF Drop

LEMMA DropOfDrop ==
  ASSUME NEW T, NEW s \in Seq(T), NEW n \in 0..Len(s), NEW m \in 0..Len(s) - n
  PROVE  Drop(Drop(s, n), m) = Drop(s, n + m)
  <1>1. n + m \in 0..Len(s)
    OBVIOUS
  <1>2. /\ Drop(s, n) \in Seq(T) /\ Len(Drop(s, n)) = Len(s) - n
        /\ \A i \in 1..Len(s) - n : Drop(s, n)[i] = s[n + i]
    BY DropProperties
  <1>3. /\ Drop(Drop(s, n), m) \in Seq(T) /\ Len(Drop(Drop(s, n), m)) = (Len(s) - n) - m
        /\ \A i \in 1..(Len(s) - n) - m : Drop(Drop(s, n), m)[i] = Drop(s, n)[m + i]
    BY <1>2, DropProperties
  <1>4. /\ Drop(s, n + m) \in Seq(T) /\ Len(Drop(s, n + m)) = Len(s) - (n + m)
        /\ \A i \in 1..Len(s) - (n + m) : Drop(s, n + m)[i] = s[(n + m) + i]
    BY <1>1, DropProperties
  <1>5. \A i \in 1..(Len(s) - n) - m : m + i \in 1..Len(s) - n /\ n + (m + i) = (n + m) + i
    OBVIOUS
  <1>6. (Len(s) - n) - m = Len(s) - (n + m)
    OBVIOUS
  <1>7. \A i \in 1..(Len(s) - n) - m : Drop(Drop(s, n), m)[i] = Drop(s, n + m)[i]
    BY <1>2, <1>3, <1>4, <1>5, <1>6, Zenon
  <1> QED
    BY <1>3, <1>4, <1>6, <1>7, SeqEqual

LEMMA DropOfConcat ==
  ASSUME NEW T, NEW s \in Seq(T), NEW t \in Seq(T), NEW n \in 0..Len(s)
  PROVE  Drop(s \o t, n) = Drop(s, n) \o t
  <1>1. s \o t \in Seq(T) /\ Len(s \o t) = Len(s) + Len(t) /\ n \in 0..Len(s \o t)
    OBVIOUS
  <1>2. /\ Drop(s \o t, n) \in Seq(T) /\ Len(Drop(s \o t, n)) = (Len(s) + Len(t)) - n
        /\ \A i \in 1..(Len(s) + Len(t)) - n : Drop(s \o t, n)[i] = (s \o t)[n + i]
    BY <1>1, DropProperties
  <1>3. /\ Drop(s, n) \in Seq(T) /\ Len(Drop(s, n)) = Len(s) - n
        /\ \A i \in 1..Len(s) - n : Drop(s, n)[i] = s[n + i]
    BY DropProperties
  <1>4. /\ Drop(s, n) \o t \in Seq(T)
        /\ Len(Drop(s, n) \o t) = (Len(s) + Len(t)) - n
    <2>1. Drop(s, n) \o t \in Seq(T) /\ Len(Drop(s, n) \o t) = Len(Drop(s, n)) + Len(t)
      BY <1>3, ConcatProperties
    <2>2. (Len(s) - n) + Len(t) = (Len(s) + Len(t)) - n
      OBVIOUS
    <2> QED
      BY <2>1, <2>2, <1>3
  <1>5. ASSUME NEW i \in 1..(Len(s) + Len(t)) - n
        PROVE  Drop(s \o t, n)[i] = (Drop(s, n) \o t)[i]
    <2>1. CASE i <= Len(s) - n
      <3>1. (s \o t)[n + i] = s[n + i]
        BY <2>1
      <3>2. (Drop(s, n) \o t)[i] = Drop(s, n)[i]
        BY <2>1, <1>3
      <3> QED
        BY <2>1, <3>1, <3>2, <1>2, <1>3
    <2>2. CASE i > Len(s) - n
      <3>1. (s \o t)[n + i] = t[(n + i) - Len(s)]
        BY <2>2
      <3>2. (Drop(s, n) \o t)[i] = t[i - (Len(s) - n)]
        BY <2>2, <1>3
      <3>3. (n + i) - Len(s) = i - (Len(s) - n)
        OBVIOUS
      <3> QED
        BY <3>1, <3>2, <3>3, <1>2
    <2>3. i <= Len(s) - n \/ i > Len(s) - n
      OBVIOUS
    <2> QED
      BY <2>1, <2>2, <2>3, Zenon
  <1> QED
    BY <1>2, <1>4, <1>5, SeqEqual

LEMMA SplitPrefix ==
  ASSUME NEW T, NEW s \in Seq(T), NEW t \in Seq(T), Len(t) <= Len(s),
         \A i \in 1..Len(t) : s[i] = t[i]
  PROVE  s = t \o Drop(s, Len(t))
  <1>1. /\ Drop(s, Len(t)) \in Seq(T) /\ Len(Drop(s, Len(t))) = Len(s) - Len(t)
        /\ \A i \in 1..Len(s) - Len(t) : Drop(s, Len(t))[i] = s[Len(t) + i]
    BY DropProperties
  <1>2. t \o Drop(s, Len(t)) \in Seq(T) /\ Len(t \o Drop(s, Len(t))) = Len(s)
    BY <1>1
  <1>3. ASSUME NEW i \in 1..Len(s) PROVE s[i] = (t \o Drop(s, Len(t)))[i]
    <2>1. CASE i <= Len(t)
      BY <2>1, <1>1
    <2>2. CASE i > Len(t)
      <3>1. (t \o Drop(s, Len(t)))[i] = Drop(s, Len(t))[i - Len(t)]
        BY <2>2, <1>1
      <3>2. i - Len(t) \in 1..Len(s) - Len(t) /\ Len(t) + (i - Len(t)) = i
        BY <2>2
      <3> QED
        BY <3>1, <3>2, <1>1
    <2>3. i <= Len(t) \/ i > Len(t)
      OBVIOUS
    <2> QED
      BY <2>1, <2>2, <2>3, Zenon
  <1> QED
    BY <1>2, <1>3, SeqEqual

LEMMA MovedOver ==
  ASSUME NEW T, NEW b \in Seq(T), NEW s \in Seq(T), NEW n \in 0..Len(s)
  PROVE  /\ (b \o SubSeq(s, 1, n)) \o Drop(s, n) = b \o s
         /\ b \o SubSeq(s, 1, n) \in Seq(T)
  <1> DEFINE f == SubSeq(s, 1, n)
             d == Drop(s, n)
  <1>1. f \in Seq(T) /\ Len(f) = n /\ \A i \in 1..n : f[i] = s[i]
    OBVIOUS
  <1>2. d \in Seq(T)
    BY DropProperties
  <1> HIDE DEF f, d
  <1>3. s = f \o d
    <2>1. Len(f) <= Len(s) /\ \A i \in 1..Len(f) : s[i] = f[i]
      BY <1>1
    <2>2. s = f \o Drop(s, Len(f))
      BY <1>1, <2>1, SplitPrefix
    <2> QED
      BY <1>1, <2>2 DEF d
  <1>4. (b \o f) \o d = b \o (f \o d)
    BY <1>1, <1>2
  <1>5. b \o f \in Seq(T)
    BY <1>1
  <1> QED
    BY <1>3, <1>4, <1>5, Zenon DEF f, d

-----------------------------------------------------------------------------
(* s is what the stream holds behind the first k items.                    *)
Ahead(w, k, s) == s \in Seq(Toks) /\ Stream(w) = At(w, k) \o s

(* It begins with the next item.                                           *)
LEMMA AheadNext ==
  ASSUME NEW w \in Seq(Items), NEW k \in 0..Len(w), k # Len(w), NEW s, Ahead(w, k, s)
  PROVE  LET t == Tokens(w[k + 1])
         IN  /\ Len(t) <= Len(s) /\ \A i \in 1..Len(t) : s[i] = t[i]
             /\ Ahead(w, k + 1, Drop(s, Len(t)))
  <1> DEFINE t == Tokens(w[k + 1])
             a == At(w, k)
  <1>0. w[k + 1] \in Items /\ k + 1 \in 0..Len(w) /\ Len(w) \in 0..Len(w) /\ k + 1 \in 0..Len(w)
    OBVIOUS
  <1>1. /\ t \in Seq(Toks) /\ a \in Seq(Toks) /\ s \in Seq(Toks) /\ Stream(w) = a \o s
        /\ At(w, k + 1) = a \o t /\ IsPrefix(a \o t, a \o s)
    <2>1. t \in Seq(Toks)
      BY <1>0, TokensType
    <2>2. a \in Seq(Toks) /\ At(w, k + 1) = a \o t /\ At(w, Len(w)) = Stream(w)
      BY <1>0, AtProperties
    <2>3. IsPrefix(At(w, k + 1), At(w, Len(w)))
      BY <1>0, AtProperties
    <2> QED
      BY <2>1, <2>2, <2>3 DEF Ahead
  <1> HIDE DEF t, a
  <1>2. Len(t) <= Len(s)
    BY <1>1 DEF IsPrefix
  <1>3. \A i \in 1..Len(t) : s[i] = t[i]
    <2> TAKE i \in 1..Len(t)
    <2>1. SubSeq(a \o t, 1, Len(a \o t)) = SubSeq(a \o s, 1, Len(a \o t))
      BY <1>1 DEF IsPrefix
    <2>2. Len(a \o t) = Len(a) + Len(t) /\ Len(a \o s) = Len(a) + Len(s)
          /\ Len(a) + i \in 1..Len(a) + Len(t)
      BY <1>1
    <2>3. SubSeq(a \o t, 1, Len(a \o t))[Len(a) + i] = (a \o t)[Len(a) + i]
      BY <1>1, <2>2
    <2>4. SubSeq(a \o s, 1, Len(a \o t))[Len(a) + i] = (a \o s)[Len(a) + i]
      BY <1>1, <1>2, <2>2
    <2>5. (a \o t)[Len(a) + i] = t[i] /\ (a \o s)[Len(a) + i] = s[i]
      BY <1>1, <1>2
    <2> QED
      BY <2>1, <2>3, <2>4, <2>5
  <1>4. Drop(s, Len(t)) \in Seq(Toks)
    BY <1>1, <1>2, DropProperties
  <1>5. s = t \o Drop(s, Len(t))
    BY <1>1, <1>2, <1>3, SplitPrefix
  <1>6. Stream(w) = (a \o t) \o Drop(s, Len(t))
    <2> DEFINE d == Drop(s, Len(t))
    <2>1. a \in Seq(Toks) /\ t \in Seq(Toks) /\ d \in Seq(Toks)
      BY <1>1, <1>4
    <2>2. s = t \o d
      BY <1>5
    <2> HIDE DEF d
    <2>3. (a \o t) \o d = a \o (t \o d)
      BY <2>1
    <2> QED
      BY <1>1, <2>2, <2>3, Zenon DEF d
  <1>7. Ahead(w, k + 1, Drop(s, Len(t)))
    BY <1>1, <1>4, <1>6 DEF Ahead
  <1> QED
    BY <1>2, <1>3, <1>7 DEF t

LEMMA AheadEnd ==
  ASSUME NEW w \in Seq(Items), NEW s, Ahead(w, Len(w), s)
  PROVE  s = <<>>
  <1>1. Stream(w) \in Seq(Toks) /\ s \in Seq(Toks) /\ Stream(w) = Stream(w) \o s
    BY AtProperties, Len(w) \in 0..Len(w) DEF Ahead
  <1>2. Len(Stream(w)) = Len(Stream(w)) + Len(s)
    BY <1>1
  <1> QED
    BY <1>1, <1>2

LEMMA MinIs ==
  ASSUME NEW S \in SUBSET Nat, S # {}
  PROVE  Min(S) \in S /\ \A y \in S : Min(S) <= y
  <1>1. \E x \in S : \A y \in S : x <= y
    BY NatMin
  <1> QED
    BY <1>1 DEF Min

LEMMA ConcatParts ==
  ASSUME NEW T, NEW s \in Seq(T), NEW t \in Seq(T), NEW c, c = s \o t
  PROVE  /\ c \in Seq(T) /\ Len(c) = Len(s) + Len(t)
         /\ \A i \in 1..Len(s) : c[i] = s[i]
         /\ \A i \in 1..Len(t) : c[Len(s) + i] = t[i]
  <1>1. c \in Seq(T) /\ Len(c) = Len(s) + Len(t)
    OBVIOUS
  <1>2. \A i \in 1..Len(s) : c[i] = s[i]
    OBVIOUS
  <1>3. \A i \in 1..Len(t) : c[Len(s) + i] = t[i]
    OBVIOUS
  <1> QED
    BY <1>1, <1>2, <1>3

(* t is p, q and r, one after the other.                                   *)
InThree(t, p, q, r) ==
    /\ Len(t) = Len(p) + Len(q) + Len(r)
    /\ \A i \in 1..Len(p) : t[i] = p[i]
    /\ \A i \in 1..Len(q) : t[Len(p) + i] = q[i]
    /\ \A i \in 1..Len(r) : t[Len(p) + Len(q) + i] = r[i]

LEMMA ThreeParts ==
  ASSUME NEW T, NEW p \in Seq(T), NEW q \in Seq(T), NEW r \in Seq(T),
         NEW s, s = p \o q, NEW t, t = s \o r
  PROVE  t \in Seq(T) /\ InThree(t, p, q, r)
  <1>1. s \in Seq(T) /\ Len(s) = Len(p) + Len(q)
    BY ConcatParts
  <1>2. (\A i \in 1..Len(p) : s[i] = p[i]) /\ \A i \in 1..Len(q) : s[Len(p) + i] = q[i]
    BY ConcatParts
  <1>3. t \in Seq(T) /\ Len(t) = Len(s) + Len(r)
    BY <1>1, ConcatParts
  <1>4. (\A i \in 1..Len(s) : t[i] = s[i]) /\ \A i \in 1..Len(r) : t[Len(s) + i] = r[i]
    BY <1>1, ConcatParts
  <1>5. \A i \in 1..Len(p) : i \in 1..Len(s)
    BY <1>1
  <1>6. \A i \in 1..Len(q) : Len(p) + i \in 1..Len(s)
    BY <1>1
  <1>7. \A i \in 1..Len(p) : t[i] = p[i]
    BY <1>2, <1>4, <1>5
  <1>8. \A i \in 1..Len(q) : t[Len(p) + i] = q[i]
    BY <1>2, <1>4, <1>6
  <1>9. \A i \in 1..Len(r) : t[Len(p) + Len(q) + i] = r[i]
    BY <1>1, <1>4
  <1> QED
    BY <1>1, <1>3, <1>7, <1>8, <1>9 DEF InThree

(* The tokens of an item that is not a stray CRLF: its header, the end of  *)
(* the header, and its body.                                               *)
LEMMA TokensParts ==
  ASSUME NEW item \in Items, item # "stray"
  PROVE  LET h == Len(HeaderOf(item))
             t == Tokens(item)
         IN  /\ HeaderOf(item) \in Seq(Toks) /\ h >= 1
             /\ BodyOf(item) \in Seq(Toks)
             /\ t \in Seq(Toks) /\ Len(t) = h + 4 + Len(BodyOf(item))
             /\ \A i \in 1..h : t[i] = HeaderOf(item)[i]
             /\ t[h + 1] = "cr" /\ t[h + 2] = "lf" /\ t[h + 3] = "cr" /\ t[h + 4] = "lf"
             /\ \A i \in 1..Len(BodyOf(item)) : t[h + 4 + i] = BodyOf(item)[i]
  <1> DEFINE H == HeaderOf(item)
             t == Tokens(item)
  <1>1. H \in Seq(Toks) /\ Len(H) >= 1
    BY HeaderType, ShapedHeader DEF Shaped
  <1>2. BodyOf(item) \in Seq(Toks)
    BY BodyType, EmptySeq DEF BodyOf
  <1>3. /\ Blank \in Seq(Toks) /\ Len(Blank) = 4
        /\ Blank[1] = "cr" /\ Blank[2] = "lf" /\ Blank[3] = "cr" /\ Blank[4] = "lf"
    BY DEF Blank, Toks
  <1> DEFINE s == H \o Blank
             B == BodyOf(item)
  <1>4. t = s \o B
    BY DEF Tokens
  <1> HIDE DEF H, t, s, B
  <1>5. t \in Seq(Toks) /\ InThree(t, H, Blank, B)
    <2>1. s = H \o Blank /\ B \in Seq(Toks)
      BY <1>2 DEF s, B
    <2> QED
      BY <1>1, <1>3, <1>4, <2>1, ThreeParts, Zenon
  <1>6. \A i \in 1..4 : t[Len(H) + i] = Blank[i]
    BY <1>3, <1>5 DEF InThree
  <1>7. t[Len(H) + 1] = "cr" /\ t[Len(H) + 2] = "lf" /\ t[Len(H) + 3] = "cr"
        /\ t[Len(H) + 4] = "lf"
    BY <1>3, <1>6
  <1> QED
    BY <1>1, <1>2, <1>3, <1>5, <1>7 DEF H, t, B, InThree

LEMMA TokensStart ==
  ASSUME NEW item \in Items
  PROVE  /\ Len(Tokens(item)) >= 1
         /\ Tokens(item)[1] = "cr" <=> item = "stray"
  <1>1. CASE item = "stray"
    BY <1>1 DEF Tokens, CRLF
  <1>2. CASE item # "stray"
    <2>1. HeaderOf(item)[1] # "cr"
      BY <1>2, ShapedHeader DEF Shaped
    <2>2. /\ Len(HeaderOf(item)) \in Nat /\ Len(HeaderOf(item)) >= 1
          /\ Len(BodyOf(item)) \in Nat
          /\ Len(Tokens(item)) = Len(HeaderOf(item)) + 4 + Len(BodyOf(item))
          /\ \A i \in 1..Len(HeaderOf(item)) : Tokens(item)[i] = HeaderOf(item)[i]
      BY <1>2, TokensParts
    <2>3. Tokens(item)[1] = HeaderOf(item)[1]
      BY <2>2
    <2> QED
      BY <1>2, <2>1, <2>2, <2>3
  <1> QED
    BY <1>1, <1>2

(* Where the first item that is badly framed is.                           *)
LEMMA SoundIs ==
  ASSUME NEW w \in Seq(Items)
  PROVE  /\ Sound(w) \in 0..Len(w)
         /\ Sound(w) = Len(w) \/ w[Sound(w) + 1] \in BadlyFramed
         /\ \A n \in 0..Len(w) : n < Sound(w) => n # Len(w) /\ w[n + 1] \notin BadlyFramed
  <1> DEFINE S == {n \in 0..Len(w) : n = Len(w) \/ w[n + 1] \in BadlyFramed}
  <1>1. S \in SUBSET Nat /\ Len(w) \in S
    OBVIOUS
  <1>2. Sound(w) = Min(S)
    BY DEF Sound
  <1>3. Sound(w) \in S /\ \A n \in S : Sound(w) <= n
    <2> HIDE DEF S
    <2> QED
      BY <1>1, <1>2, MinIs
  <1> QED
    BY <1>3

(* The CRLFs that are dropped are items of their own.                      *)
LEMMA StripSkips ==
  ASSUME NEW w \in Seq(Items), NEW k \in 0..Sound(w), NEW b \in Seq(Toks), NEW u \in Seq(Toks),
         Ahead(w, k, b \o u)
  PROVE  /\ Strip(b) \in Seq(Toks)
         /\ Len(Strip(b)) < 2 \/ SubSeq(Strip(b), 1, 2) # CRLF
         /\ \E j \in k..Sound(w) : Ahead(w, j, Strip(b) \o u) /\ SentAt(w, j) = SentAt(w, k)
  <1>0. /\ Sound(w) \in 0..Len(w) /\ k \in 0..Len(w)
        /\ Sound(w) = Len(w) \/ w[Sound(w) + 1] \in BadlyFramed
    BY SoundIs
  <1> DEFINE half == Len(b) \div 2
             leading == {n \in 0..half :
                            2 * n + 2 > Len(b) \/ SubSeq(b, 2 * n + 1, 2 * n + 2) # CRLF}
             last == Min(leading)
  <1>1. half \in Nat /\ 2 * half <= Len(b) /\ 2 * half + 2 > Len(b)
    BY Len(b) \in Nat
  <1>2. Strip(b) = Drop(b, 2 * last)
    BY DEF Strip
  <1>3. leading \in SUBSET Nat /\ leading # {}
    <2>1. half \in leading
      <3> HIDE DEF half
      <3> QED
        BY <1>1
    <2> HIDE DEF half
    <2> QED
      BY <2>1
  <1>4. last \in leading /\ \A n \in leading : last <= n
    <2> HIDE DEF leading
    <2> QED
      BY <1>3, MinIs
  <1>5. last \in 0..half /\ (2 * last + 2 > Len(b) \/ SubSeq(b, 2 * last + 1, 2 * last + 2) # CRLF)
    <2> HIDE DEF half, last
    <2> QED
      BY <1>4
  <1>6. ASSUME NEW n \in 0..half, n < last
        PROVE  2 * n + 2 <= Len(b) /\ SubSeq(b, 2 * n + 1, 2 * n + 2) = CRLF
    <2>1. n \notin leading
      <3> HIDE DEF leading, half, last
      <3> QED
        BY <1>4, <1>5, <1>6, <1>1
    <2> HIDE DEF half
    <2> QED
      BY <2>1, <1>1, Len(b) \in Nat
  <1> HIDE DEF leading, half, last
  <1> DEFINE P == {n \in Nat : n <= last =>
                      /\ k + n <= Sound(w) /\ Ahead(w, k + n, Drop(b, 2 * n) \o u)
                      /\ SentAt(w, k + n) = SentAt(w, k)}
  <1>7. 0 \in P
    <2>1. Drop(b, 2 * 0) = b
      BY DEF Drop
    <2> QED
      BY <2>1
  <1>8. ASSUME NEW n \in Nat, n \in P PROVE n + 1 \in P
    <2> SUFFICES ASSUME n + 1 <= last
                 PROVE  /\ k + (n + 1) <= Sound(w) /\ Ahead(w, k + (n + 1), Drop(b, 2 * (n + 1)) \o u)
                        /\ SentAt(w, k + (n + 1)) = SentAt(w, k)
      OBVIOUS
    <2>1. n \in 0..half /\ n < last /\ n <= last
      BY <1>5, <1>1
    <2>2. k + n <= Sound(w) /\ Ahead(w, k + n, Drop(b, 2 * n) \o u)
          /\ SentAt(w, k + n) = SentAt(w, k)
      BY <1>8, <2>1
    <2>3. 2 * n + 2 <= Len(b) /\ SubSeq(b, 2 * n + 1, 2 * n + 2) = CRLF
      BY <1>6, <2>1
    <2> DEFINE c == Drop(b, 2 * n)
    <2>4. c \in Seq(Toks) /\ Len(c) = Len(b) - 2 * n /\ Len(c) >= 2 /\ c[1] = "cr"
      <3>1. 2 * n \in 0..Len(b) /\ 1 \in 1..Len(b) - 2 * n
        BY <2>3
      <3>2. c \in Seq(Toks) /\ Len(c) = Len(b) - 2 * n /\ c[1] = b[2 * n + 1]
        BY <3>1, DropProperties
      <3>3. SubSeq(b, 2 * n + 1, 2 * n + 2)[1] = b[2 * n + 1]
        BY <2>3
      <3>4. CRLF[1] = "cr"
        BY DEF CRLF
      <3> QED
        BY <3>1, <3>2, <3>3, <3>4, <2>3
    <2>5. Drop(c, 2) = Drop(b, 2 * (n + 1))
      <3>1. 2 * n \in 0..Len(b) /\ 2 \in 0..Len(b) - 2 * n /\ 2 * n + 2 = 2 * (n + 1)
        BY <2>3
      <3> QED
        BY <3>1, DropOfDrop
    <2> HIDE DEF c
    <2>6. c \o u \in Seq(Toks) /\ c \o u # <<>> /\ (c \o u)[1] = "cr"
      BY <2>4
    <2>7. Ahead(w, k + n, c \o u)
      BY <2>2 DEF c
    <2>8. k + n # Len(w)
      BY <2>6, <2>7, AheadEnd
    <2>9. k + n \in 0..Len(w) /\ (k + n) + 1 = k + (n + 1) /\ w[(k + n) + 1] \in Items
      BY <1>0, <2>2, <2>8
    <2> DEFINE item == w[(k + n) + 1]
    <2>10. /\ Len(Tokens(item)) <= Len(c \o u)
           /\ \A i \in 1..Len(Tokens(item)) : (c \o u)[i] = Tokens(item)[i]
           /\ Ahead(w, (k + n) + 1, Drop(c \o u, Len(Tokens(item))))
      BY <2>7, <2>8, <2>9, AheadNext
    <2>11. item = "stray"
      <3>1. Tokens(item) \in Seq(Toks) /\ 1 \in 1..Len(Tokens(item))
        BY <2>9, TokensStart, TokensType
      <3>2. Tokens(item)[1] = "cr"
        BY <2>6, <2>10, <3>1
      <3> QED
        BY <2>9, <3>2, TokensStart
    <2>12. Len(Tokens(item)) = 2 /\ Meant(item) = <<>>
      BY <2>11 DEF Tokens, CRLF, Meant
    <2>13. Ahead(w, k + (n + 1), Drop(b, 2 * (n + 1)) \o u)
      <3>1. Drop(c \o u, 2) = Drop(c, 2) \o u
        BY <2>4, DropOfConcat, 2 \in 0..Len(c)
      <3> QED
        BY <2>5, <2>9, <2>10, <2>12, <3>1
    <2>14. SentAt(w, k + (n + 1)) = SentAt(w, k)
      <3>1. SentAt(w, (k + n) + 1) = SentAt(w, k + n) \o Meant(item)
            /\ SentAt(w, k + n) \in Seq(Messages)
        BY <2>8, <2>9, SentProperties
      <3>2. SentAt(w, k + n) \o <<>> = SentAt(w, k + n)
        BY <3>1
      <3> QED
        BY <2>2, <2>9, <2>12, <3>1, <3>2
    <2>15. k + (n + 1) <= Sound(w)
      <3>1. k + n # Sound(w)
        BY <1>0, <2>8, <2>11 DEF BadlyFramed, LeavesBody
      <3> QED
        BY <1>0, <2>2, <2>9, <3>1
    <2> QED
      BY <2>13, <2>14, <2>15
  <1>9. Nat \subseteq P
    <2> HIDE DEF P
    <2> QED
      BY <1>7, <1>8, SetInduction
  <1>10. last \in Nat /\ 2 * last \in 0..Len(b)
    BY <1>1, <1>5, Len(b) \in Nat
  <1>11. Strip(b) \in Seq(Toks) /\ Len(Strip(b)) = Len(b) - 2 * last
         /\ \A i \in 1..Len(b) - 2 * last : Strip(b)[i] = b[2 * last + i]
    BY <1>2, <1>10, DropProperties
  <1>12. Len(Strip(b)) < 2 \/ SubSeq(Strip(b), 1, 2) # CRLF
    <2>1. CASE 2 * last + 2 > Len(b)
      BY <2>1, <1>10, <1>11
    <2>2. CASE 2 * last + 2 <= Len(b) /\ SubSeq(b, 2 * last + 1, 2 * last + 2) # CRLF
      <3>1. Len(SubSeq(Strip(b), 1, 2)) = 2 /\ SubSeq(Strip(b), 1, 2) \in Seq(Toks)
            /\ \A i \in 1..2 : SubSeq(Strip(b), 1, 2)[i] = Strip(b)[i]
        BY <2>2, <1>10, <1>11
      <3>2. /\ SubSeq(b, 2 * last + 1, 2 * last + 2) \in Seq(Toks)
            /\ Len(SubSeq(b, 2 * last + 1, 2 * last + 2)) = 2
            /\ \A i \in 1..2 : SubSeq(b, 2 * last + 1, 2 * last + 2)[i] = b[2 * last + i]
        <4> DEFINE p == 2 * last
        <4>1. p \in Nat /\ p + 2 <= Len(b)
          BY <2>2, <1>10
        <4> HIDE DEF p
        <4>2. /\ SubSeq(b, p + 1, p + 2) \in Seq(Toks) /\ Len(SubSeq(b, p + 1, p + 2)) = 2
              /\ \A i \in 1..2 : SubSeq(b, p + 1, p + 2)[i] = b[p + i]
          BY <4>1
        <4> QED
          BY <4>2 DEF p
      <3>3. \A i \in 1..2 : i \in 1..Len(b) - 2 * last
        BY <2>2, <1>10
      <3>4. SubSeq(Strip(b), 1, 2) = SubSeq(b, 2 * last + 1, 2 * last + 2)
        <4>1. \A i \in 1..2 : SubSeq(Strip(b), 1, 2)[i] = SubSeq(b, 2 * last + 1, 2 * last + 2)[i]
          BY <3>1, <3>2, <3>3, <1>11, Zenon
        <4> DEFINE c == SubSeq(Strip(b), 1, 2)
                   d == SubSeq(b, 2 * last + 1, 2 * last + 2)
        <4>2. /\ c \in Seq(Toks) /\ d \in Seq(Toks) /\ Len(c) = 2 /\ Len(d) = 2
              /\ \A i \in 1..2 : c[i] = d[i]
          BY <3>1, <3>2, <4>1
        <4> HIDE DEF c, d
        <4>3. c = d
          BY <4>2, SeqEqual
        <4> QED
          BY <4>3 DEF c, d
      <3> QED
        BY <2>2, <3>4
    <2>3. 2 * last + 2 > Len(b) \/ 2 * last + 2 <= Len(b)
      BY <1>10
    <2> QED
      BY <2>1, <2>2, <2>3, <1>5
  <1>13. last \in P
    BY <1>9, <1>10
  <1>14. k + last \in k..Sound(w) /\ Ahead(w, k + last, Strip(b) \o u)
         /\ SentAt(w, k + last) = SentAt(w, k)
    BY <1>0, <1>2, <1>10, <1>13
  <1> QED
    BY <1>11, <1>12, <1>14

(* The end of the header, in what has been read of the next item. *)
LEMMA HeaderFound ==
  ASSUME NEW item \in Items, item # "stray", NEW b \in Seq(Toks),
         \A i \in 1..Len(b) : i <= Len(Tokens(item)) => b[i] = Tokens(item)[i]
  PROVE  LET h == Len(HeaderOf(item))
         IN  /\ Len(b) < h + 4 => HeaderEnds(b) = {}
             /\ Len(b) >= h + 4 => /\ HeaderEnds(b) # {} /\ Min(HeaderEnds(b)) = h + 1
                                   /\ SubSeq(b, 1, h) = HeaderOf(item)
  <1> DEFINE H == HeaderOf(item)
             h == Len(H)
             t == Tokens(item)
  <1>1. H \in Seq(Toks) /\ h \in Nat /\ h >= 1
    BY HeaderType, ShapedHeader DEF Shaped
  <1>2. \A i \in 1..h : H[i] = "cr" => i + 2 <= h /\ H[i + 2] # "cr"
    BY ShapedHeader DEF Shaped
  <1>3. t \in Seq(Toks) /\ Len(t) >= h + 4 /\ (\A i \in 1..h : t[i] = H[i])
        /\ t[h + 1] = "cr" /\ t[h + 2] = "lf" /\ t[h + 3] = "cr" /\ t[h + 4] = "lf"
    <2>1. /\ Len(BodyOf(item)) \in Nat /\ t \in Seq(Toks) /\ Len(t) = h + 4 + Len(BodyOf(item))
          /\ \A i \in 1..h : t[i] = H[i]
          /\ t[h + 1] = "cr" /\ t[h + 2] = "lf" /\ t[h + 3] = "cr" /\ t[h + 4] = "lf"
      BY TokensParts
    <2> HIDE DEF H, h, t
    <2> QED
      BY <1>1, <2>1
  <1>4. \A i \in 1..Len(b) : i <= Len(t) => b[i] = t[i]
    OBVIOUS
  <1> HIDE DEF H, h, t
  <1>5. Blank \in Seq(Toks) /\ Len(Blank) = 4
        /\ Blank[1] = "cr" /\ Blank[2] = "lf" /\ Blank[3] = "cr" /\ Blank[4] = "lf"
    BY DEF Blank, Toks
  <1>6. ASSUME NEW i \in 1..Len(b) - 3
        PROVE  SubSeq(b, i, i + 3) = Blank <=>
                  b[i] = "cr" /\ b[i + 1] = "lf" /\ b[i + 2] = "cr" /\ b[i + 3] = "lf"
    <2>1. i \in Nat /\ i >= 1 /\ i + 3 <= Len(b) /\ Len(b) \in Nat
      OBVIOUS
    <2>2. /\ SubSeq(b, i, i + 3) \in Seq(Toks) /\ Len(SubSeq(b, i, i + 3)) = 4
          /\ SubSeq(b, i, i + 3)[1] = b[i] /\ SubSeq(b, i, i + 3)[2] = b[i + 1]
          /\ SubSeq(b, i, i + 3)[3] = b[i + 2] /\ SubSeq(b, i, i + 3)[4] = b[i + 3]
      BY <2>1
    <2> DEFINE c == SubSeq(b, i, i + 3)
    <2>3. c = Blank <=> c[1] = Blank[1] /\ c[2] = Blank[2] /\ c[3] = Blank[3] /\ c[4] = Blank[4]
      <3>1. c \in Seq(Toks) /\ Len(c) = 4
        BY <2>2
      <3> HIDE DEF c
      <3>2. ASSUME c[1] = Blank[1], c[2] = Blank[2], c[3] = Blank[3], c[4] = Blank[4]
            PROVE  c = Blank
        <4>1. \A j \in 1..4 : c[j] = Blank[j]
          BY <3>2
        <4> QED
          BY <3>1, <1>5, <4>1, SeqEqual
      <3> QED
        BY <3>2
    <2> QED
      BY <2>2, <2>3, <1>5
  <1>7. ASSUME NEW i \in HeaderEnds(b) PROVE i >= h + 1
    <2>1. i \in 1..Len(b) - 3 /\ SubSeq(b, i, i + 3) = Blank
      BY DEF HeaderEnds
    <2>2. b[i] = "cr" /\ b[i + 2] = "cr"
      BY <1>6, <2>1
    <2>3. SUFFICES ASSUME i <= h PROVE FALSE
      BY <2>1, <1>1
    <2>4. i \in 1..h /\ i \in 1..Len(b) /\ i <= Len(t)
      BY <2>1, <2>3, <1>1, <1>3
    <2>5. H[i] = "cr"
      BY <2>2, <2>4, <1>3, <1>4
    <2>6. i + 2 <= h /\ H[i + 2] # "cr"
      BY <2>4, <2>5, <1>2
    <2>7. i + 2 \in 1..h /\ i + 2 \in 1..Len(b) /\ i + 2 <= Len(t)
      BY <2>1, <2>6, <1>1, <1>3
    <2> QED
      BY <2>2, <2>6, <2>7, <1>3, <1>4
  <1>8. ASSUME Len(b) < h + 4 PROVE HeaderEnds(b) = {}
    <2>1. \A i \in HeaderEnds(b) : i \in 1..Len(b) - 3
      BY DEF HeaderEnds
    <2> QED
      BY <1>1, <1>7, <1>8, <2>1
  <1>9. ASSUME Len(b) >= h + 4
        PROVE  HeaderEnds(b) # {} /\ Min(HeaderEnds(b)) = h + 1 /\ SubSeq(b, 1, h) = H
    <2>1. h + 1 \in 1..Len(b) - 3
      BY <1>1, <1>9
    <2>2. b[h + 1] = "cr" /\ b[h + 2] = "lf" /\ b[h + 3] = "cr" /\ b[h + 4] = "lf"
      <3>1. /\ h + 1 \in 1..Len(b) /\ h + 2 \in 1..Len(b) /\ h + 3 \in 1..Len(b)
            /\ h + 4 \in 1..Len(b) /\ h + 1 <= Len(t) /\ h + 2 <= Len(t) /\ h + 3 <= Len(t)
            /\ h + 4 <= Len(t)
        BY <1>1, <1>3, <1>9
      <3> QED
        BY <3>1, <1>3, <1>4
    <2>3. (h + 1) + 1 = h + 2 /\ (h + 1) + 2 = h + 3 /\ (h + 1) + 3 = h + 4
      BY <1>1
    <2>4. h + 1 \in HeaderEnds(b)
      BY <2>1, <2>2, <2>3, <1>6 DEF HeaderEnds
    <2>5. HeaderEnds(b) \in SUBSET Nat
      BY DEF HeaderEnds
    <2>6. Min(HeaderEnds(b)) \in HeaderEnds(b) /\ Min(HeaderEnds(b)) <= h + 1
      BY <2>4, <2>5, MinIs
    <2>7. Min(HeaderEnds(b)) = h + 1
      BY <2>5, <2>6, <1>1, <1>7
    <2>8. SubSeq(b, 1, h) = H
      <3>1. SubSeq(b, 1, h) \in Seq(Toks) /\ Len(SubSeq(b, 1, h)) = h
            /\ \A i \in 1..h : SubSeq(b, 1, h)[i] = b[i]
        BY <1>1, <1>9
      <3>2. ASSUME NEW i \in 1..h PROVE b[i] = H[i]
        <4>1. i \in 1..Len(b) /\ i <= Len(t)
          BY <1>1, <1>3, <1>9
        <4> QED
          BY <4>1, <1>3, <1>4
      <3>3. Len(H) = h
        BY DEF h
      <3> QED
        BY <1>1, <3>1, <3>2, <3>3, SeqEqual
    <2> QED
      BY <2>4, <2>7, <2>8
  <1> QED
    BY <1>8, <1>9 DEF h, H

(* A well-framed item is cut out whole, or the buffer does not hold all of *)
(* it.                                                                     *)
LEMMA CutItem ==
  ASSUME NEW w \in Seq(Items), NEW k \in 0..Len(w), k # Len(w), w[k + 1] # "stray",
         w[k + 1] \notin BadlyFramed,
         NEW b \in Seq(Toks), NEW u \in Seq(Toks), Ahead(w, k, b \o u),
         IF HeaderEnds(b) = {} THEN NeedMore(b) ELSE \E end \in {Min(HeaderEnds(b))} : Cut(b, end)
  PROVE  LET t == Tokens(w[k + 1])
         IN  \/ NeedMore(b) /\ Len(b) < Len(t)
             \/ Len(b) >= Len(t) /\ Took(Meant(w[k + 1]), Drop(b, Len(t)))
  <1> DEFINE item == w[k + 1]
             t == Tokens(item)
             H == HeaderOf(item)
             h == Len(H)
             B == BodyOf(item)
  <1>1. item \in Items /\ item # "stray" /\ item \notin BadlyFramed
    OBVIOUS
  <1>2. /\ H \in Seq(Toks) /\ h \in Nat /\ h >= 1 /\ B \in Seq(Toks) /\ Len(B) \in Nat
        /\ t \in Seq(Toks) /\ Len(t) = h + 4 + Len(B)
        /\ \A i \in 1..Len(B) : t[h + 4 + i] = B[i]
    <2>1. /\ H \in Seq(Toks) /\ h >= 1 /\ B \in Seq(Toks)
          /\ t \in Seq(Toks) /\ Len(t) = h + 4 + Len(B)
          /\ \A i \in 1..Len(B) : t[h + 4 + i] = B[i]
      <3> HIDE DEF item
      <3> QED
        BY <1>1, TokensParts, Zenon
    <2> HIDE DEF item, t, H, B
    <2> QED
      BY <2>1
  <1>3. \A i \in 1..Len(b) : i <= Len(t) => b[i] = t[i]
    <2> TAKE i \in 1..Len(b)
    <2>1. (b \o u)[i] = b[i]
      OBVIOUS
    <2>2. \A j \in 1..Len(t) : (b \o u)[j] = t[j]
      BY AheadNext
    <2>3. i <= Len(t) => i \in 1..Len(t)
      BY <1>2
    <2> QED
      BY <2>1, <2>2, <2>3
  <1>4. /\ Len(b) < h + 4 => HeaderEnds(b) = {}
        /\ Len(b) >= h + 4 => /\ HeaderEnds(b) # {} /\ Min(HeaderEnds(b)) = h + 1
                              /\ SubSeq(b, 1, h) = H
    BY <1>1, <1>3, HeaderFound
  <1>5. /\ HasToken(H, "not_utf8") <=> item = "undecodable"
        /\ item # "undecodable" => Parse(H, B) = Meant(item)
    BY <1>1, HeaderMeans
  <1>6. ContentLength(H) = Len(B)
    BY <1>1, HeaderMeans
  <1>7. item = "undecodable" => B = <<>> /\ Meant(item) = <<>>
    BY DEF BodyOf, LeavesBody, Meant
  <1>8. Len(b) \in Nat
    OBVIOUS
  <1> HIDE DEF t, H, h, B, item
  <1>9. CASE Len(b) < h + 4
    BY <1>2, <1>4, <1>8, <1>9 DEF t, item
  <1>10. CASE Len(b) >= h + 4
    <2>1. Cut(b, h + 1)
      BY <1>4, <1>10
    <2>2. (h + 1) - 1 = h /\ (h + 1) + 3 = h + 4 /\ (h + 1) + 4 = h + 5
      BY <1>2
    <2>3. h + 4 + Len(B) = Len(t)
      BY <1>2
    <2>4. IF HasToken(H, "not_utf8") THEN Took(<<>>, Drop(b, h + 4))
          ELSE IF Len(b) < Len(t) THEN NeedMore(b)
          ELSE Took(Parse(H, SubSeq(b, h + 5, Len(t))), Drop(b, Len(t)))
      <3>1. SubSeq(b, 1, (h + 1) - 1) = H /\ (h + 1) + 3 + ContentLength(H) = Len(t)
        BY <1>4, <1>6, <1>10, <2>2, <2>3
      <3>2. IF HasToken(H, "not_utf8") THEN Took(<<>>, Drop(b, h + 4))
            ELSE IF Len(b) < Len(t) THEN NeedMore(b) ELSE CutOut(b, h + 1, Len(t))
        BY <2>1, <2>2, <3>1 DEF Cut
      <3>3. SliceEnd(b, Len(t)) = Len(t) /\ ~ (Len(t) < (h + 1) + 3)
        BY <1>2 DEF SliceEnd
      <3>4. CutOut(b, h + 1, Len(t)) =>
               Took(Parse(H, SubSeq(b, h + 5, Len(t))), Drop(b, Len(t)))
        BY <2>2, <3>1, <3>3 DEF CutOut
      <3> QED
        BY <3>2, <3>4
    <2>5. CASE item = "undecodable"
      <3>1. Len(t) = h + 4
        BY <1>2, <1>7, <2>5, Len(<<>>) = 0
      <3>2. Took(Meant(item), Drop(b, Len(t)))
        BY <1>5, <1>7, <2>4, <2>5, <3>1
      <3> QED
        BY <1>10, <3>1, <3>2 DEF t, item
    <2>6. CASE item # "undecodable" /\ Len(b) < Len(t)
      BY <1>5, <2>4, <2>6 DEF t, item
    <2>7. CASE item # "undecodable" /\ ~ (Len(b) < Len(t))
      <3>1. SubSeq(b, h + 5, Len(t)) = B
        <4>1. /\ SubSeq(b, h + 5, Len(t)) \in Seq(Toks) /\ Len(SubSeq(b, h + 5, Len(t))) = Len(B)
              /\ \A i \in 1..Len(B) : SubSeq(b, h + 5, Len(t))[i] = b[h + 4 + i]
          BY <1>2, <1>8, <2>7
        <4>2. ASSUME NEW i \in 1..Len(B) PROVE b[h + 4 + i] = B[i]
          <5>1. h + 4 + i \in 1..Len(b) /\ h + 4 + i <= Len(t)
            BY <1>2, <1>8, <2>7
          <5> QED
            BY <1>2, <1>3, <5>1
        <4> QED
          BY <1>2, <4>1, <4>2, SeqEqual
      <3>2. Took(Meant(item), Drop(b, Len(t)))
        BY <1>5, <2>4, <2>7, <3>1
      <3>3. Len(b) >= Len(t)
        BY <1>2, <1>8, <2>7
      <3> QED
        BY <3>2, <3>3 DEF t, item
    <2> QED
      BY <2>5, <2>6, <2>7
  <1> QED
    BY <1>2, <1>8, <1>9, <1>10

-----------------------------------------------------------------------------
(***************************************************************************)
(* In step: the first k items have been taken, and what was meant by them  *)
(* dispatched; the buffer begins with item k + 1, and when the inner loop  *)
(* is not running it does not hold all of it.  None of them is badly       *)
(* framed.                                                                 *)
(***************************************************************************)
Reached(k) ==
    /\ Ahead(wire, k, buf \o unread)
    /\ dispatched = SentAt(wire, k)
    /\ taking \/ k = Len(wire) \/ Len(buf) < Len(Tokens(wire[k + 1]))

InStep == \E k \in 0..Sound(wire) : Reached(k)

(* Past: the loop has come to an item that is badly framed, and what was   *)
(* meant by those before it has been dispatched.                           *)
Past == Sound(wire) # Len(wire) /\ IsPrefix(SentAt(wire, Sound(wire)), dispatched)

(* The end of the stream is in the buffer, or is still to be read.         *)
Behind(b) == \E s \in Seq(Toks) : Stream(wire) = s \o (b \o unread)

FramingInv ==
    /\ wire \in Wires /\ wire \in Seq(Items)
    /\ buf \in Seq(Toks) /\ unread \in Seq(Toks) /\ taking \in BOOLEAN
    /\ dispatched \in Seq(Messages)
    /\ Behind(buf)
    /\ InStep \/ Past

LEMMA InitFraming == Init => FramingInv
  <1> SUFFICES ASSUME Init PROVE FramingInv
    OBVIOUS
  <1>1. wire \in Wires /\ wire \in Seq(Items)
    BY WiresAssumption DEF Init
  <1>2. /\ At(wire, 0) = <<>> /\ Stream(wire) \in Seq(Toks) /\ SentAt(wire, 0) = <<>>
    <2>1. Len(wire) \in 0..Len(wire)
      BY <1>1
    <2> QED
      BY <1>1, <2>1, AtProperties, SentProperties
  <1>3. buf = <<>> /\ unread = Stream(wire) /\ taking = FALSE /\ dispatched = <<>>
    BY DEF Init
  <1>4. <<>> \o Stream(wire) = Stream(wire)
    BY <1>2
  <1>5. Ahead(wire, 0, buf \o unread) /\ dispatched = SentAt(wire, 0)
    BY <1>2, <1>3, <1>4 DEF Ahead
  <1>6. 0 = Len(wire) \/ Len(buf) < Len(Tokens(wire[0 + 1]))
    <2>1. 0 # Len(wire) => wire[1] \in Items
      BY <1>1
    <2>2. 0 # Len(wire) => Tokens(wire[1]) \in Seq(Toks) /\ Len(Tokens(wire[1])) >= 1
      BY <2>1, TokensStart, TokensType
    <2> QED
      BY <1>3, <2>2, Len(<<>>) = 0
  <1>7. Reached(0)
    BY <1>1, <1>5, <1>6 DEF Reached
  <1>8. 0 \in 0..Sound(wire)
    BY <1>1, SoundIs
  <1>9. InStep
    BY <1>7, <1>8, Zenon DEF InStep
  <1>10. /\ buf \in Seq(Toks) /\ unread \in Seq(Toks) /\ taking \in BOOLEAN
         /\ dispatched \in Seq(Messages)
    BY <1>2, <1>3, EmptySeq
  <1>11. Behind(buf)
    <2>1. <<>> \in Seq(Toks) /\ Stream(wire) = <<>> \o (buf \o unread)
      BY <1>2, <1>3, <1>4
    <2> QED
      BY <2>1, Zenon DEF Behind
  <1> QED
    BY <1>1, <1>9, <1>10, <1>11 DEF FramingInv

LEMMA FeedFraming == FramingInv /\ Feed => FramingInv'
  <1> SUFFICES ASSUME FramingInv, Feed PROVE FramingInv'
    OBVIOUS
  <1>1. PICK n \in 1..Len(unread) :
           buf' = buf \o SubSeq(unread, 1, n) /\ unread' = Drop(unread, n) /\ taking' = TRUE
           /\ wire' = wire /\ dispatched' = dispatched
    BY DEF Feed
  <1>2. /\ wire \in Wires /\ wire \in Seq(Items) /\ buf \in Seq(Toks) /\ unread \in Seq(Toks)
        /\ dispatched \in Seq(Messages) /\ Behind(buf)
    BY DEF FramingInv
  <1>3. n \in 0..Len(unread)
    BY <1>2
  <1>4. Drop(unread, n) \in Seq(Toks)
    BY <1>2, <1>3, DropProperties
  <1>5. /\ (buf \o SubSeq(unread, 1, n)) \o Drop(unread, n) = buf \o unread
        /\ buf \o SubSeq(unread, 1, n) \in Seq(Toks)
    BY <1>2, <1>3, MovedOver, Zenon
  <1>6. buf' \o unread' = buf \o unread /\ buf' \in Seq(Toks) /\ unread' \in Seq(Toks)
    BY <1>1, <1>4, <1>5, Zenon
  <1>7. Behind(buf)'
    BY <1>1, <1>2, <1>6, Zenon DEF Behind, Stream
  <1>8. InStep => InStep'
    <2> SUFFICES ASSUME NEW k \in 0..Sound(wire), Reached(k) PROVE InStep'
      BY DEF InStep
    <2>1. Reached(k)'
      BY <1>1, <1>6 DEF Reached, Ahead, Stream, At, SentAt, Sent
    <2>2. k \in (0..Sound(wire))'
      BY <1>1 DEF Sound
    <2> QED
      BY <2>1, <2>2, Zenon DEF InStep
  <1>9. Past => Past'
    BY <1>1 DEF Past, SentAt, Sent, Sound
  <1> QED
    BY <1>1, <1>2, <1>6, <1>7, <1>8, <1>9 DEF FramingInv

(* Whatever is in the buffer, take_message only takes from its front, and  *)
(* what is dispatched is only added to.                                    *)
LEMMA StripDrops ==
  ASSUME NEW b \in Seq(Toks)
  PROVE  \E n \in 0..Len(b) : Strip(b) = Drop(b, n)
  <1> DEFINE half == Len(b) \div 2
             leading == {n \in 0..half :
                            2 * n + 2 > Len(b) \/ SubSeq(b, 2 * n + 1, 2 * n + 2) # CRLF}
             last == Min(leading)
  <1>1. half \in Nat /\ 2 * half <= Len(b) /\ 2 * half + 2 > Len(b)
    BY Len(b) \in Nat
  <1>2. Strip(b) = Drop(b, 2 * last)
    BY DEF Strip
  <1>3. leading \in SUBSET Nat /\ leading # {}
    <2>1. half \in leading
      <3> HIDE DEF half
      <3> QED
        BY <1>1
    <2> HIDE DEF half
    <2> QED
      BY <2>1
  <1>4. last \in leading
    <2> HIDE DEF leading
    <2> QED
      BY <1>3, MinIs
  <1>5. last \in 0..half
    <2> HIDE DEF half, last
    <2> QED
      BY <1>4
  <1> HIDE DEF last, half
  <1>6. 2 * last \in 0..Len(b)
    BY <1>1, <1>5, Len(b) \in Nat
  <1> QED
    BY <1>2, <1>6

LEMMA ParseType ==
  ASSUME NEW H, NEW body \in Seq(Toks)
  PROVE  Parse(H, body) \in Seq(Messages)
  <1>1. CASE Parse(H, body) = <<>>
    BY <1>1
  <1>2. CASE Parse(H, body) # <<>>
    <2>1. Head(H) \in Starts /\ Parse(H, body) = <<[start |-> Head(H), body |-> body]>>
      BY <1>2 DEF Parse
    <2>2. [start |-> Head(H), body |-> body] \in Messages
      BY <2>1 DEF Messages
    <2> QED
      BY <2>1, <2>2
  <1> QED
    BY <1>1, <1>2

(* What a step of the inner loop does to b, the buffer without its leading *)
(* CRLFs.                                                                  *)
FromFront(b) ==
    /\ \E n \in 0..Len(b) : buf' = Drop(b, n)
    /\ taking' \in BOOLEAN
    /\ \E msgs \in Seq(Messages) : dispatched' = dispatched \o msgs

LEMMA TookFromFront ==
  ASSUME NEW b \in Seq(Toks), NEW n \in 0..Len(b), NEW msgs \in Seq(Messages),
         Took(msgs, Drop(b, n))
  PROVE  FromFront(b)
  BY DEF Took, FromFront

LEMMA NothingFromFront ==
  ASSUME NEW b \in Seq(Toks), NeedMore(b), dispatched \in Seq(Messages)
  PROVE  FromFront(b)
  <1>1. b = Drop(b, 0) /\ 0 \in 0..Len(b)
    BY DEF Drop
  <1>2. dispatched = dispatched \o <<>> /\ <<>> \in Seq(Messages)
    OBVIOUS
  <1>3. \E n \in 0..Len(b) : buf' = Drop(b, n)
    BY <1>1, Zenon DEF NeedMore
  <1>4. \E msgs \in Seq(Messages) : dispatched' = dispatched \o msgs
    BY <1>2, Zenon DEF NeedMore
  <1> QED
    BY <1>3, <1>4 DEF NeedMore, FromFront

LEMMA CutFromFront ==
  ASSUME NEW b \in Seq(Toks), dispatched \in Seq(Messages), NEW end \in HeaderEnds(b),
         Cut(b, end)
  PROVE  FromFront(b)
  <1> DEFINE header == SubSeq(b, 1, end - 1)
             messageEnd == end + 3 + ContentLength(header)
  <1>1. end \in Nat /\ end >= 1 /\ end + 3 <= Len(b) /\ Len(b) \in Nat
    BY DEF HeaderEnds
  <1>2. ContentLength(header) \in Int
    BY BodyLengthAssumption, DeficitAssumption DEF ContentLength
  <1>3. IF HasToken(header, "not_utf8") THEN Took(<<>>, Drop(b, end + 3))
        ELSE IF Len(b) < messageEnd THEN NeedMore(b) ELSE CutOut(b, end, messageEnd)
    BY DEF Cut
  <1> HIDE DEF header
  <1>4. messageEnd \in Int
    BY <1>1, <1>2
  <1> HIDE DEF messageEnd
  <1>5. CASE Took(<<>>, Drop(b, end + 3))
    <2>1. end + 3 \in 0..Len(b) /\ <<>> \in Seq(Messages)
      BY <1>1
    <2> QED
      BY <1>5, <2>1, TookFromFront
  <1>6. CASE NeedMore(b)
    BY <1>6, NothingFromFront
  <1>7. CASE CutOut(b, end, messageEnd) /\ messageEnd <= Len(b)
    <2> DEFINE n == SliceEnd(b, messageEnd)
               msgs == IF n < end + 3 THEN <<>>
                       ELSE Parse(SubSeq(b, 1, end - 1), SubSeq(b, end + 4, n))
    <2>1. n \in 0..Len(b)
      BY <1>1, <1>4, <1>7 DEF SliceEnd
    <2>2. Took(msgs, Drop(b, n))
      BY <1>7 DEF CutOut
    <2> HIDE DEF n
    <2>3. SubSeq(b, end + 4, n) \in Seq(Toks)
      <3>1. end + 4 \in Nat /\ n \in Nat /\ n <= Len(b)
        BY <1>1, <2>1
      <3>2. \A i \in end + 4..n : i \in 1..Len(b)
        BY <1>1, <3>1
      <3> QED
        BY <3>1, <3>2, SubSeqProperties
    <2>4. msgs \in Seq(Messages)
      BY <2>3, ParseType, EmptySeq
    <2> HIDE DEF msgs
    <2> QED
      BY <2>1, <2>2, <2>4, TookFromFront
  <1> QED
    BY <1>1, <1>3, <1>4, <1>5, <1>6, <1>7

LEMMA TakesFromFront ==
  ASSUME buf \in Seq(Toks), dispatched \in Seq(Messages), TakeMessage
  PROVE  FromFront(Strip(buf)) /\ Strip(buf) \in Seq(Toks)
  <1> DEFINE b == Strip(buf)
  <1>1. IF HeaderEnds(b) = {} THEN NeedMore(b)
        ELSE \E end \in {Min(HeaderEnds(b))} : Cut(b, end)
    BY DEF TakeMessage
  <1>2. b \in Seq(Toks)
    BY StripDrops, DropProperties
  <1> HIDE DEF b
  <1>3. ASSUME NeedMore(b) PROVE FromFront(b)
    BY <1>2, <1>3, NothingFromFront
  <1>4. ASSUME HeaderEnds(b) # {} PROVE FromFront(b)
    <2>1. HeaderEnds(b) \in SUBSET Nat
      BY DEF HeaderEnds
    <2>2. Min(HeaderEnds(b)) \in HeaderEnds(b)
      BY <1>4, <2>1, MinIs
    <2>3. Cut(b, Min(HeaderEnds(b)))
      BY <1>1, <1>4
    <2> QED
      BY <1>2, <2>2, <2>3, CutFromFront
  <1> QED
    BY <1>1, <1>2, <1>3, <1>4 DEF b

(* Nothing is lost from the end of the stream.                             *)
LEMMA BehindDrop ==
  ASSUME wire \in Seq(Items), unread \in Seq(Toks), NEW b \in Seq(Toks), Behind(b),
         NEW n \in 0..Len(b)
  PROVE  Behind(Drop(b, n))
  <1>1. PICK s \in Seq(Toks) : Stream(wire) = s \o (b \o unread)
    BY DEF Behind
  <1> DEFINE f == SubSeq(b, 1, n)
             d == Drop(b, n)
  <1>2. f \in Seq(Toks) /\ Len(f) = n /\ \A i \in 1..n : f[i] = b[i]
    OBVIOUS
  <1>3. d \in Seq(Toks)
    BY DropProperties
  <1>4. b = f \o d
    <2> HIDE DEF f
    <2>1. Len(f) <= Len(b) /\ \A i \in 1..Len(f) : b[i] = f[i]
      BY <1>2
    <2>2. b = f \o Drop(b, Len(f))
      BY <1>2, <2>1, SplitPrefix
    <2> QED
      BY <1>2, <2>2
  <1> HIDE DEF f, d
  <1>5. b \o unread = f \o (d \o unread)
    BY <1>2, <1>3, <1>4
  <1>6. s \o (b \o unread) = (s \o f) \o (d \o unread) /\ s \o f \in Seq(Toks)
    <2> DEFINE r == d \o unread
    <2>1. r \in Seq(Toks) /\ b \o unread = f \o r
      BY <1>3, <1>5
    <2> HIDE DEF r
    <2>2. s \o (f \o r) = (s \o f) \o r /\ s \o f \in Seq(Toks)
      BY <1>2, <2>1
    <2> QED
      BY <2>1, <2>2, Zenon DEF r
  <1> QED
    BY <1>1, <1>6, Zenon DEF Behind, d

(* A step of the inner loop that begins in step stays so, or comes past an *)
(* item that is badly framed.                                              *)
LEMMA TakeInStep ==
  ASSUME FramingInv, TakeMessage, InStep,
         buf' \in Seq(Toks), taking' \in BOOLEAN,
         NEW msgs \in Seq(Messages), dispatched' = dispatched \o msgs
  PROVE  InStep' \/ Past'
  <1> DEFINE b == Strip(buf)
  <1>1. IF HeaderEnds(b) = {} THEN NeedMore(b)
        ELSE \E end \in {Min(HeaderEnds(b))} : Cut(b, end)
    BY DEF TakeMessage
  <1>2. wire' = wire /\ unread' = unread
    BY DEF TakeMessage
  <1>3. /\ wire \in Seq(Items) /\ buf \in Seq(Toks) /\ unread \in Seq(Toks)
        /\ dispatched \in Seq(Messages)
    BY DEF FramingInv
  <1>4. PICK k \in 0..Sound(wire) : Reached(k)
    BY DEF InStep
  <1>5. /\ b \in Seq(Toks) /\ (Len(b) < 2 \/ SubSeq(b, 1, 2) # CRLF)
        /\ \E j \in k..Sound(wire) : Ahead(wire, j, b \o unread)
           /\ SentAt(wire, j) = SentAt(wire, k)
    BY <1>3, <1>4, StripSkips DEF Reached
  <1>6. PICK j \in k..Sound(wire) : Ahead(wire, j, b \o unread)
        /\ SentAt(wire, j) = SentAt(wire, k)
    BY <1>5
  <1>0. /\ Sound(wire) \in 0..Len(wire)
        /\ Sound(wire) = Len(wire) \/ wire[Sound(wire) + 1] \in BadlyFramed
        /\ \A n \in 0..Len(wire) : n < Sound(wire) => n # Len(wire) /\ wire[n + 1] \notin BadlyFramed
    BY <1>3, SoundIs
  <1>7. j \in 0..Len(wire) /\ j \in 0..Sound(wire) /\ dispatched = SentAt(wire, j)
    BY <1>0, <1>4, <1>6 DEF Reached
  <1> HIDE DEF b
  <1>8. ASSUME NEW m \in 0..Sound(wire),
               Ahead(wire, m, buf' \o unread), dispatched' = SentAt(wire, m),
               taking' \/ m = Len(wire) \/ Len(buf') < Len(Tokens(wire[m + 1]))
        PROVE  InStep'
    <2>1. Reached(m)'
      BY <1>2, <1>8 DEF Reached, Ahead, Stream, At, SentAt, Sent
    <2>2. m \in (0..Sound(wire))'
      BY <1>2 DEF Sound
    <2> QED
      BY <2>1, <2>2, Zenon DEF InStep
  <1>9. ASSUME NeedMore(b), j = Len(wire) \/ Len(b) < Len(Tokens(wire[j + 1]))
        PROVE  InStep'
    <2>1. buf' = b /\ taking' = FALSE /\ dispatched' = dispatched
      BY <1>9 DEF NeedMore
    <2> QED
      BY <1>5, <1>6, <1>7, <1>8, <1>9, <2>1
  <1>10. CASE Len(b) < 2 /\ (j = Len(wire) \/ wire[j + 1] = "stray")
    <2>1. HeaderEnds(b) = {}
      BY <1>5, <1>10 DEF HeaderEnds
    <2>2. NeedMore(b)
      BY <1>1, <2>1
    <2>3. wire[j + 1] = "stray" => Len(Tokens(wire[j + 1])) = 2
      BY DEF Tokens, CRLF
    <2> QED
      BY <1>9, <1>10, <2>2, <2>3
  <1>11. CASE j = Len(wire)
    <2>1. b \o unread = <<>>
      BY <1>3, <1>6, <1>11, AheadEnd
    <2>2. Len(b) = 0
      BY <1>3, <1>5, <2>1
    <2> QED
      BY <1>10, <1>11, <2>2
  <1>12. CASE j # Len(wire) /\ wire[j + 1] = "stray"
    <2>1. ASSUME Len(b) >= 2 PROVE SubSeq(b, 1, 2) = CRLF
      <3>1. \A i \in 1..Len(Tokens(wire[j + 1])) : (b \o unread)[i] = Tokens(wire[j + 1])[i]
        BY <1>3, <1>6, <1>7, <1>12, AheadNext
      <3>2. Tokens(wire[j + 1]) = CRLF /\ Len(CRLF) = 2 /\ CRLF \in Seq(Toks)
        BY <1>12 DEF Tokens, CRLF, Toks
      <3>3. \A i \in 1..2 : b[i] = CRLF[i]
        BY <1>3, <1>5, <2>1, <3>1, <3>2
      <3>4. SubSeq(b, 1, 2) \in Seq(Toks) /\ Len(SubSeq(b, 1, 2)) = 2
            /\ \A i \in 1..2 : SubSeq(b, 1, 2)[i] = b[i]
        BY <1>5, <2>1
      <3> QED
        BY <3>2, <3>3, <3>4, SeqEqual
    <2>2. Len(b) < 2
      BY <1>5, <2>1
    <2> QED
      BY <1>10, <1>12, <2>2
  <1>13. CASE j # Len(wire) /\ wire[j + 1] # "stray" /\ wire[j + 1] \notin BadlyFramed
    <2> DEFINE t == Tokens(wire[j + 1])
    <2>1. \/ NeedMore(b) /\ Len(b) < Len(t)
          \/ Len(b) >= Len(t) /\ Took(Meant(wire[j + 1]), Drop(b, Len(t)))
      BY <1>1, <1>3, <1>5, <1>6, <1>7, <1>13, CutItem
    <2>2. CASE NeedMore(b) /\ Len(b) < Len(t)
      BY <1>9, <2>2
    <2>3. CASE Len(b) >= Len(t) /\ Took(Meant(wire[j + 1]), Drop(b, Len(t)))
      <3>1. buf' = Drop(b, Len(t)) /\ taking' = TRUE /\ dispatched' = dispatched \o Meant(wire[j + 1])
        BY <2>3 DEF Took
      <3>2. t \in Seq(Toks) /\ Len(t) \in 0..Len(b)
        <4>1. wire[j + 1] \in Items
          BY <1>3, <1>7, <1>13
        <4>2. t \in Seq(Toks)
          BY <4>1, TokensType
        <4> QED
          BY <4>2, <2>3, <1>5
      <3>3. j + 1 \in 0..Sound(wire)
        BY <1>0, <1>7, <1>13
      <3>4. Ahead(wire, j + 1, Drop(b \o unread, Len(t)))
        BY <1>3, <1>6, <1>7, <1>13, AheadNext
      <3> HIDE DEF t
      <3>5. Drop(b \o unread, Len(t)) = Drop(b, Len(t)) \o unread
            /\ Drop(b, Len(t)) \in Seq(Toks)
        BY <1>3, <1>5, <3>2, DropOfConcat, DropProperties
      <3>6. dispatched' = SentAt(wire, j + 1)
        BY <1>3, <1>7, <1>13, <3>1, SentProperties
      <3> QED
        BY <1>8, <3>1, <3>3, <3>4, <3>5, <3>6
    <2> QED
      BY <2>1, <2>2, <2>3
  <1>14. CASE j # Len(wire) /\ wire[j + 1] \in BadlyFramed
    <2>1. j = Sound(wire) /\ Sound(wire) # Len(wire)
      BY <1>0, <1>7, <1>14
    <2>2. IsPrefix(dispatched, dispatched \o msgs)
      BY <1>3, PrefixOfConcat
    <2>3. IsPrefix(SentAt(wire, Sound(wire)), dispatched')
      BY <1>7, <2>1, <2>2
    <2> QED
      BY <1>2, <2>1, <2>3 DEF Past, SentAt, Sent, Sound
  <1> QED
    BY <1>11, <1>12, <1>13, <1>14

LEMMA TakeFraming == FramingInv /\ TakeMessage => FramingInv'
  <1> SUFFICES ASSUME FramingInv, TakeMessage PROVE FramingInv'
    OBVIOUS
  <1>1. wire' = wire /\ unread' = unread
    BY DEF TakeMessage
  <1>2. /\ wire \in Wires /\ wire \in Seq(Items) /\ buf \in Seq(Toks) /\ unread \in Seq(Toks)
        /\ dispatched \in Seq(Messages) /\ Behind(buf)
    BY DEF FramingInv
  <1> DEFINE b == Strip(buf)
  <1>3. b \in Seq(Toks) /\ FromFront(b)
    BY <1>2, TakesFromFront
  <1>4. Behind(b)
    BY <1>2, StripDrops, BehindDrop
  <1> HIDE DEF b
  <1>5. PICK n \in 0..Len(b) : buf' = Drop(b, n)
    BY <1>3 DEF FromFront
  <1>6. PICK msgs \in Seq(Messages) : dispatched' = dispatched \o msgs
    BY <1>3 DEF FromFront
  <1>7. buf' \in Seq(Toks) /\ taking' \in BOOLEAN /\ dispatched' \in Seq(Messages)
    BY <1>2, <1>3, <1>5, <1>6, DropProperties DEF FromFront
  <1>8. Behind(buf)'
    <2>1. Behind(Drop(b, n))
      BY <1>2, <1>3, <1>4, BehindDrop
    <2> QED
      BY <1>1, <1>5, <2>1, Zenon DEF Behind, Stream
  <1>9. CASE InStep
    <2>1. InStep' \/ Past'
      BY <1>6, <1>7, <1>9, TakeInStep
    <2> QED
      BY <1>1, <1>2, <1>7, <1>8, <2>1 DEF FramingInv
  <1>10. CASE Past
    <2>1. SentAt(wire, Sound(wire)) \in Seq(Messages)
      <3>1. Sound(wire) \in 0..Len(wire)
        BY <1>2, SoundIs
      <3> QED
        BY <1>2, <3>1, SentProperties
    <2>2. IsPrefix(dispatched, dispatched \o msgs) /\ dispatched \o msgs \in Seq(Messages)
      BY <1>2, PrefixOfConcat
    <2>3. IsPrefix(SentAt(wire, Sound(wire)), dispatched')
      BY <1>2, <1>6, <1>10, <2>1, <2>2, PrefixTransitive DEF Past
    <2>4. Past'
      BY <1>1, <1>10, <2>3 DEF Past, SentAt, Sent, Sound
    <2> QED
      BY <1>1, <1>2, <1>7, <1>8, <2>4 DEF FramingInv
  <1> QED
    BY <1>9, <1>10 DEF FramingInv

LEMMA NextFraming == FramingInv /\ [Next]_vars => FramingInv'
  <1> SUFFICES ASSUME FramingInv, [Next]_vars PROVE FramingInv'
    OBVIOUS
  <1>1. CASE Feed
    BY <1>1, FeedFraming
  <1>2. CASE TakeMessage
    BY <1>2, TakeFraming
  <1>3. CASE UNCHANGED vars
    BY <1>3 DEF vars, FramingInv, InStep, Past, Behind, Reached, Ahead, Stream, At, SentAt,
                Sent, Sound
  <1> QED
    BY <1>1, <1>2, <1>3 DEF Next, Idle

LEMMA FramingHolds == Spec => []FramingInv
  <1> QED
    BY InitFraming, NextFraming, PTL DEF Spec

LEMMA SuffixOfConcat ==
  ASSUME NEW T, NEW s \in Seq(T), NEW t \in Seq(T)
  PROVE  IsSuffix(t, s \o t)
  <1> DEFINE c == s \o t
  <1>1. /\ c \in Seq(T) /\ Len(c) = Len(s) + Len(t)
        /\ \A i \in 1..Len(t) : c[Len(s) + i] = t[i]
    BY ConcatParts
  <1> HIDE DEF c
  <1>2. /\ Reverse(t) = [i \in 1..Len(t) |-> t[(Len(t) - i) + 1]]
        /\ Reverse(c) = [i \in 1..Len(c) |-> c[(Len(c) - i) + 1]]
    BY DEF Reverse
  <1>3. /\ Reverse(t) \in Seq(T) /\ Len(Reverse(t)) = Len(t)
        /\ \A i \in 1..Len(t) : Reverse(t)[i] = t[(Len(t) - i) + 1]
    <2>1. \A i \in 1..Len(t) : (Len(t) - i) + 1 \in 1..Len(t)
      OBVIOUS
    <2> QED
      BY <1>2, <2>1
  <1>4. /\ Reverse(c) \in Seq(T) /\ Len(Reverse(c)) = Len(c)
        /\ \A i \in 1..Len(c) : Reverse(c)[i] = c[(Len(c) - i) + 1]
    <2>1. \A i \in 1..Len(c) : (Len(c) - i) + 1 \in 1..Len(c)
      BY <1>1
    <2> QED
      BY <1>1, <1>2, <2>1
  <1> DEFINE rt == Reverse(t)
             rc == Reverse(c)
  <1>5. ASSUME NEW i \in 1..Len(t) PROVE rt[i] = rc[i]
    <2>1. /\ i \in 1..Len(c) /\ (Len(t) - i) + 1 \in 1..Len(t)
          /\ Len(s) + ((Len(t) - i) + 1) = (Len(c) - i) + 1
      BY <1>1
    <2> QED
      BY <1>1, <1>3, <1>4, <2>1
  <1> HIDE DEF rt, rc
  <1>6. Len(rt) = Len(t) /\ Len(rc) = Len(c) /\ rt \in Seq(T) /\ rc \in Seq(T)
    BY <1>3, <1>4 DEF rt, rc
  <1>7. SubSeq(rt, 1, Len(rt)) = SubSeq(rc, 1, Len(rt))
    BY <1>1, <1>5, <1>6
  <1>8. IsPrefix(rt, rc)
    BY <1>1, <1>6, <1>7 DEF IsPrefix
  <1> QED
    BY <1>8 DEF IsSuffix, c, rt, rc

(* What the receive loop holds is always the part of the stream just       *)
(* before what is still unread, whatever is in it, and what it dispatches  *)
(* are messages.                                                           *)
THEOREM FramingTyped == Spec => []TypeOK
  <1>1. FramingInv => TypeOK
    <2> SUFFICES ASSUME FramingInv PROVE TypeOK
      OBVIOUS
    <2>1. /\ wire \in Wires /\ wire \in Seq(Items) /\ buf \in Seq(Toks) /\ unread \in Seq(Toks)
          /\ taking \in BOOLEAN /\ dispatched \in Seq(Messages)
      BY DEF FramingInv
    <2>2. PICK s \in Seq(Toks) : Stream(wire) = s \o (buf \o unread)
      BY DEF FramingInv, Behind
    <2>3. buf \o unread \in Seq(Toks)
      BY <2>1
    <2>4. IsSuffix(buf \o unread, Stream(wire))
      BY <2>2, <2>3, SuffixOfConcat
    <2> QED
      BY <2>1, <2>4 DEF TypeOK
  <1> QED
    BY <1>1, FramingHolds, PTL

(* What was meant by the first k items is a prefix of what was meant by    *)
(* all that are well framed.                                               *)
LEMMA SentSound ==
  ASSUME NEW w \in Seq(Items), NEW k \in 0..Sound(w)
  PROVE  /\ Sound(w) \in 0..Len(w) /\ k \in 0..Len(w)
         /\ SentAt(w, k) \in Seq(Messages) /\ SentAt(w, Sound(w)) \in Seq(Messages)
         /\ IsPrefix(SentAt(w, k), SentAt(w, Sound(w)))
  <1>1. Sound(w) \in 0..Len(w) /\ k \in 0..Len(w)
    BY SoundIs
  <1> QED
    BY <1>1, SentProperties

(* NoneHeldBack: a message whose last byte has been read has been          *)
(* dispatched when the receive loop reads on; no chunk boundary, no stray  *)
(* CRLF and no message that does not parse keeps it in the buffer.  It is  *)
(* said of the items before the first that is badly framed.                *)
THEOREM NoneWaits == Spec => []NoneHeldBack
  <1>1. FramingInv => NoneHeldBack
    <2> SUFFICES ASSUME FramingInv, ~ taking, NEW i \in 1..Sound(wire),
                        Len(Stream(SubSeq(wire, 1, i))) <= Len(Stream(wire)) - Len(unread)
                 PROVE  IsPrefix(Sent(SubSeq(wire, 1, i)), dispatched)
      BY DEF NoneHeldBack
    <2>1. wire \in Seq(Items) /\ buf \in Seq(Toks) /\ unread \in Seq(Toks)
          /\ dispatched \in Seq(Messages)
      BY DEF FramingInv
    <2>2. /\ i \in 0..Sound(wire) /\ i \in 0..Len(wire) /\ Sound(wire) \in 0..Len(wire)
          /\ SentAt(wire, i) \in Seq(Messages) /\ SentAt(wire, Sound(wire)) \in Seq(Messages)
          /\ IsPrefix(SentAt(wire, i), SentAt(wire, Sound(wire)))
      BY <2>1, SentSound
    <2>3. CASE Past
      <3>1. IsPrefix(SentAt(wire, i), dispatched)
        BY <2>1, <2>2, <2>3, PrefixTransitive DEF Past
      <3> QED
        BY <3>1 DEF SentAt
    <2>4. CASE InStep
      <3>1. PICK k \in 0..Sound(wire) : Reached(k)
        BY <2>4 DEF InStep
      <3>2. k \in 0..Len(wire) /\ Len(wire) \in Nat
        BY <2>1, <2>2
      <3>3. At(wire, k) \in Seq(Toks) /\ At(wire, i) \in Seq(Toks)
        BY <2>1, <2>2, <3>2, AtProperties
      <3>4. Len(At(wire, i)) <= Len(At(wire, k)) + Len(buf)
        <4>1. Stream(wire) = At(wire, k) \o (buf \o unread)
          BY <3>1 DEF Reached, Ahead
        <4>2. Len(Stream(wire)) = Len(At(wire, k)) + (Len(buf) + Len(unread))
          BY <2>1, <3>3, <4>1
        <4> QED
          BY <2>1, <3>3, <4>2 DEF At
      <3>5. i <= k
        <4>1. SUFFICES ASSUME i > k PROVE FALSE
          BY <2>2, <3>2
        <4>2. k # Len(wire) /\ k + 1 \in 0..i /\ k + 1 \in 0..Len(wire) /\ wire[k + 1] \in Items
          BY <2>1, <2>2, <3>2, <4>1
        <4>3. Len(buf) < Len(Tokens(wire[k + 1]))
          BY <3>1, <4>2 DEF Reached
        <4>4. Tokens(wire[k + 1]) \in Seq(Toks)
          BY <4>2, TokensType
        <4>5. At(wire, k + 1) = At(wire, k) \o Tokens(wire[k + 1])
          BY <2>1, <3>2, <4>2, AtProperties
        <4>6. Len(At(wire, k + 1)) <= Len(At(wire, i))
          BY <2>1, <2>2, <4>2, AtProperties DEF IsPrefix
        <4>7. Len(At(wire, k + 1)) = Len(At(wire, k)) + Len(Tokens(wire[k + 1]))
          BY <3>3, <4>4, <4>5
        <4> QED
          BY <2>1, <3>3, <3>4, <4>3, <4>4, <4>6, <4>7
      <3>6. i \in 0..k
        BY <2>2, <3>2, <3>5
      <3>7. IsPrefix(SentAt(wire, i), SentAt(wire, k))
        BY <2>1, <3>2, <3>6, SentProperties
      <3> QED
        BY <3>1, <3>7 DEF Reached, SentAt
    <2> QED
      BY <2>3, <2>4 DEF FramingInv
  <1> QED
    BY <1>1, FramingHolds, PTL

(* However TCP cuts the stream, take_message neither invents, drops,       *)
(* repeats nor reorders a message, and gives each its own body, up to the  *)
(* first that is badly framed.                                             *)
THEOREM OnlyWhatWasSent == Spec => []NothingElse
  <1>1. FramingInv => NothingElse
    <2> SUFFICES ASSUME FramingInv PROVE NothingElse
      OBVIOUS
    <2> DEFINE sent == SentAt(wire, Sound(wire))
    <2>1. wire \in Seq(Items) /\ buf \in Seq(Toks) /\ unread \in Seq(Toks)
      BY DEF FramingInv
    <2>2. SUFFICES /\ IsPrefix(dispatched, sent) \/ (Sound(wire) # Len(wire) /\ IsPrefix(sent, dispatched))
                   /\ (unread = <<>> /\ ~ taking) => IsPrefix(sent, dispatched)
      BY DEF NothingElse, SentAt
    <2>3. CASE Past
      BY <2>3 DEF Past
    <2>4. CASE InStep
      <3>1. PICK k \in 0..Sound(wire) : Reached(k)
        BY <2>4 DEF InStep
      <3>2. /\ Sound(wire) \in 0..Len(wire) /\ k \in 0..Len(wire)
            /\ sent \in Seq(Messages) /\ IsPrefix(SentAt(wire, k), sent)
        BY <2>1, SentSound
      <3>3. ASSUME unread = <<>>, ~ taking PROVE IsPrefix(sent, dispatched)
        <4>1. ASSUME k # Sound(wire) PROVE FALSE
          <5>1. k # Len(wire) /\ wire[k + 1] \in Items
            BY <2>1, <3>2, <4>1
          <5>2. Len(buf) < Len(Tokens(wire[k + 1]))
            BY <3>1, <3>3, <5>1 DEF Reached
          <5>3. Ahead(wire, k, buf \o unread) /\ buf \o unread = buf
            BY <2>1, <3>1, <3>3 DEF Reached
          <5>4. Len(Tokens(wire[k + 1])) <= Len(buf)
            BY <2>1, <3>2, <5>1, <5>3, AheadNext
          <5>5. Tokens(wire[k + 1]) \in Seq(Toks)
            BY <5>1, TokensType
          <5> QED
            BY <2>1, <5>2, <5>4, <5>5
        <4>2. dispatched = sent
          BY <3>1, <4>1 DEF Reached
        <4> HIDE DEF sent
        <4>3. IsPrefix(sent, sent)
          BY <3>2 DEF IsPrefix
        <4> QED
          BY <4>2, <4>3
      <3> QED
        BY <3>1, <3>2, <3>3 DEF Reached
    <2> QED
      BY <2>3, <2>4 DEF FramingInv
  <1> QED
    BY <1>1, FramingHolds, PTL

(* What TCP does to the stream does not show: for streams of any length    *)
(* cut in any way, every message that has been read whole is dispatched,   *)
(* and nothing but the messages sent ever is.  An item that does not parse *)
(* spoils none; one that is badly framed, by a length that is not a number *)
(* or negative, or by a body behind a header that cannot be decoded, may   *)
(* spoil what is behind it, and nothing before it.                         *)
THEOREM AsSent == Spec => []DispatchedAsSent
  <1>1. NoneHeldBack /\ NothingElse => DispatchedAsSent
    BY DEF DispatchedAsSent
  <1> QED
    BY <1>1, NoneWaits, OnlyWhatWasSent, PTL
=============================================================================
