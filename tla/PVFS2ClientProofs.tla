--------------------------- MODULE PVFS2ClientProofs ---------------------------
(***************************************************************************)
(* Proofs about the client of the parallel file system and the striping of *)
(* its requests, for every number of files, servers and requests, every    *)
(* stripe size, offset, length and window, and any number of requests open *)
(* at a time: windows and packets match, no packet finds the client        *)
(* without its trace, and exchanges of one request do not share            *)
(* identifiers; and when no request needs windows that are not whole       *)
(* rounds, the client transfers every place of a request exactly once      *)
(* before it answers it (StripedIO).                                       *)
(***************************************************************************)
EXTENDS PVFS2Client, ListLemmas

-----------------------------------------------------------------------------
(* Arithmetic. *)

\* A factor is taken out of a sum.
LEMMA Distributes ==
  ASSUME NEW a \in Int, NEW b \in Int, NEW c \in Int
  PROVE  /\ (a + b) * c = a * c + b * c
         /\ a * c \in Int /\ 1 * c = c /\ 0 * c = 0
OBVIOUS

\* A product of natural numbers is one; it grows with its first factor.
LEMMA ProductGrows ==
  ASSUME NEW a \in Nat, NEW c \in Nat
  PROVE  /\ a * c \in Nat
         /\ \A b \in Nat : a <= b => a * c <= b * c
OBVIOUS

\* Division with remainder.
LEMMA Division ==
  ASSUME NEW b \in Nat, NEW w \in Nat \ {0}
  PROVE  /\ b \div w \in Nat /\ b % w \in Nat /\ b % w < w
         /\ b = (b \div w) * w + (b % w)
OBVIOUS

\* Quotient and remainder are unique.
LEMMA DivisionUnique ==
  ASSUME NEW w \in Nat \ {0}, NEW q \in Nat, NEW x \in 0 .. w - 1
  PROVE  (q * w + x) \div w = q /\ (q * w + x) % w = x
OBVIOUS

-----------------------------------------------------------------------------
(* The layout of a file. *)

\* A file has servers, each of a stripe of at least one byte; Before adds them up.
LEMMA StripeFacts ==
  ASSUME NEW f \in Files
  PROVE  /\ ServerNum(f) \in Nat \ {0} /\ Servers(f) = 1 .. ServerNum(f)
         /\ \A i \in Servers(f) : Stripes[f][i] \in Nat \ {0}
         /\ Before(f, 1) = 0
         /\ \A i \in 1 .. ServerNum(f) + 1 : Before(f, i) \in Nat
         /\ \A i \in Servers(f) : Before(f, i + 1) = Before(f, i) + Stripes[f][i]
<1> DEFINE S == Stripes[f]
<1>1. S \in Seq(Nat \ {0}) /\ S # <<>>
  BY StripesAssumption
<1> HIDE DEF S
<1>2. /\ Len(S) \in Nat \ {0} /\ DOMAIN S = 1 .. Len(S)
      /\ \A i \in 1 .. Len(S) : S[i] \in Nat \ {0}
  BY <1>1
<1>3. ASSUME NEW i \in 1 .. Len(S) + 1
      PROVE  Total(S, i - 1) \in Nat
  <2>1. i - 1 \in Nat /\ \A j \in 1 .. i - 1 : S[j] \in Int /\ S[j] \in Nat
    BY <1>2
  <2>2. QED
    BY <2>1, TotalType
<1>4. Total(S, 1 - 1) = 0
  BY TotalDef
<1>5. ASSUME NEW i \in 1 .. Len(S)
      PROVE  Total(S, (i + 1) - 1) = Total(S, i - 1) + S[i]
  <2>1. i - 1 \in Nat /\ (i - 1) + 1 = i /\ (i + 1) - 1 = i
    BY <1>2
  <2>2. QED
    BY <2>1, TotalDef
<1>6. QED
  BY <1>2, <1>3, <1>4, <1>5 DEF S, Before, Servers, ServerNum

\* The parts of a round before the servers are in their order.
LEMMA BeforeGrows ==
  ASSUME NEW f \in Files, NEW i \in 1 .. ServerNum(f) + 1, NEW j \in i .. ServerNum(f) + 1
  PROVE  Before(f, i) <= Before(f, j)
<1> DEFINE Bad == {k \in i .. ServerNum(f) + 1 : ~(Before(f, i) <= Before(f, k))}
<1> USE StripeFacts
<1>1. ASSUME Bad # {} PROVE FALSE
  <2>1. PICK k \in Bad : \A m \in Bad : k <= m
    <3>1. Bad \subseteq Nat
      OBVIOUS
    <3> HIDE DEF Bad
    <3>2. QED
      BY <1>1, <3>1, LeastNat
  <2>2. k # i
    BY <2>1
  <2>3. k - 1 \in i .. ServerNum(f) + 1 /\ k - 1 \in Servers(f) /\ ~(k <= k - 1)
    BY <2>1, <2>2
  <2>4. Before(f, i) <= Before(f, k - 1)
    BY <2>1, <2>3
  <2>5. Before(f, (k - 1) + 1) = Before(f, k - 1) + Stripes[f][k - 1]
    BY <2>3
  <2>6. (k - 1) + 1 = k /\ Stripes[f][k-1] \in Nat /\ Before(f, k - 1) \in Nat
        /\ Before(f, i) \in Nat
    BY <2>1, <2>3
  <2>7. Before(f, i) <= Before(f, k)
    BY <2>4, <2>5, <2>6
  <2>8. QED
    BY <2>1, <2>7
<1>2. QED
  BY <1>1

\* A round has bytes, and a window the server part of which is before a byte.
LEMMA RoundFacts ==
  ASSUME NEW f \in Files
  PROVE  /\ WindowSize(f) \in Nat \ {0}
         /\ WindowSize(f) = Before(f, ServerNum(f) + 1)
<1> DEFINE n == ServerNum(f)
<1>1. /\ n \in Nat \ {0} /\ n \in Servers(f) /\ n \in 1 .. n + 1
      /\ Before(f, n + 1) = Before(f, n) + Stripes[f][n] /\ Stripes[f][n] \in Nat \ {0}
      /\ Before(f, n) \in Nat
  <2>1. n \in Nat \ {0} /\ n \in Servers(f)
    BY StripeFacts
  <2>2. n \in 1 .. n + 1
    BY <2>1
  <2>3. QED
    BY <2>1, <2>2, StripeFacts
<1>2. WindowSize(f) = Before(f, n + 1)
  BY DEF WindowSize
<1> HIDE DEF n
<1>3. WindowSize(f) \in Nat \ {0}
  BY <1>1, <1>2
<1>4. QED
  BY <1>2, <1>3 DEF n

-----------------------------------------------------------------------------
(* How far a server's part of a file goes. *)

\* The bytes of server i among the first x of a round, x up to the whole round.
Part(f, i, x) ==
  IF x <= Before(f, i) THEN 0
  ELSE IF x >= Before(f, i + 1) THEN Stripes[f][i] ELSE x - Before(f, i)

\* The bytes of server i among q rounds and x bytes of the next.
LowAt(f, i, q, x) == q * Stripes[f][i] + Part(f, i, x)

\* The bytes of server i among the first b of the file.
Low(f, i, b) == LowAt(f, i, b \div WindowSize(f), b % WindowSize(f))

\* They are natural numbers.
LEMMA LowType ==
  ASSUME NEW f \in Files, NEW i \in Servers(f), NEW q \in Nat, NEW x \in Nat
  PROVE  LowAt(f, i, q, x) \in Nat
<1>1. /\ Stripes[f][i] \in Nat /\ Before(f, i) \in Nat /\ Before(f, i + 1) \in Nat
      /\ Before(f, i + 1) = Before(f, i) + Stripes[f][i]
  BY StripeFacts
<1>2. Part(f, i, x) \in Nat
  BY <1>1 DEF Part
<1>3. q * Stripes[f][i] \in Nat
  BY <1>1, ProductGrows
<1> HIDE DEF Part
<1>4. QED
  BY <1>2, <1>3 DEF LowAt

\* Within the part of one server a byte more in the file is a byte more there.
LEMMA LowWithinServer ==
  ASSUME NEW f \in Files, NEW i \in Servers(f), NEW j \in Servers(f), NEW q \in Nat,
         NEW x \in Nat, NEW d \in Nat, Before(f, j) <= x, x + d <= Before(f, j + 1)
  PROVE  LowAt(f, i, q, x + d) = LowAt(f, i, q, x) + IF i = j THEN d ELSE 0
<1>1. /\ Stripes[f][i] \in Nat /\ Before(f, i) \in Nat /\ Before(f, i + 1) \in Nat
      /\ Before(f, i + 1) = Before(f, i) + Stripes[f][i]
      /\ Stripes[f][j] \in Nat \ {0} /\ Before(f, j) \in Nat /\ Before(f, j + 1) \in Nat
      /\ i \in Nat /\ j \in Nat
  BY StripeFacts
<1>2. i < j => Before(f, i + 1) <= Before(f, j)
  <2>1. ASSUME i < j PROVE i + 1 \in 1 .. ServerNum(f) + 1 /\ j \in (i + 1) .. ServerNum(f) + 1
    BY <2>1, StripeFacts
  <2>2. QED
    BY <2>1, BeforeGrows
<1>3. j < i => Before(f, j + 1) <= Before(f, i)
  <2>1. ASSUME j < i PROVE j + 1 \in 1 .. ServerNum(f) + 1 /\ i \in (j + 1) .. ServerNum(f) + 1
    BY <2>1, StripeFacts
  <2>2. QED
    BY <2>1, BeforeGrows
<1>4. Part(f, i, x + d) = Part(f, i, x) + IF i = j THEN d ELSE 0
  BY <1>1, <1>2, <1>3 DEF Part
<1>5. Part(f, i, x) \in Int
  BY <1>1 DEF Part
<1>6. q * Stripes[f][i] \in Nat
  BY <1>1, ProductGrows
<1> HIDE DEF Part
<1>7. QED
  BY <1>4, <1>5, <1>6 DEF LowAt

\* A whole round is the beginning of the next.
LEMMA LowAtRoundEnd ==
  ASSUME NEW f \in Files, NEW i \in Servers(f), NEW q \in Nat
  PROVE  LowAt(f, i, q, WindowSize(f)) = LowAt(f, i, q + 1, 0)
<1>1. /\ Stripes[f][i] \in Nat \ {0} /\ Before(f, i) \in Nat
      /\ Before(f, i + 1) = Before(f, i) + Stripes[f][i]
  BY StripeFacts
<1>2. Before(f, i + 1) <= WindowSize(f)
  <2>1. i + 1 \in 1 .. ServerNum(f) + 1 /\ ServerNum(f) + 1 \in (i + 1) .. ServerNum(f) + 1
    BY StripeFacts
  <2>2. QED
    BY <2>1, BeforeGrows, RoundFacts
<1>3. Part(f, i, WindowSize(f)) = Stripes[f][i] /\ Part(f, i, 0) = 0
  BY <1>1, <1>2, RoundFacts DEF Part
<1>4. (q + 1) * Stripes[f][i] = q * Stripes[f][i] + Stripes[f][i]
      /\ q * Stripes[f][i] \in Int
  BY <1>1, Distributes
<1> HIDE DEF Part
<1>5. QED
  BY <1>1, <1>3, <1>4 DEF LowAt

\* Low by rounds and bytes of the next, which may be a whole round.
LEMMA LowIs ==
  ASSUME NEW f \in Files, NEW i \in Servers(f), NEW q \in Nat, NEW x \in 0 .. WindowSize(f)
  PROVE  Low(f, i, q * WindowSize(f) + x) = LowAt(f, i, q, x)
<1>1. WindowSize(f) \in Nat \ {0}
  BY RoundFacts
<1>2. CASE x < WindowSize(f)
  <2>1. x \in 0 .. WindowSize(f) - 1
    BY <1>1, <1>2
  <2>2. QED
    BY <1>1, <2>1, DivisionUnique DEF Low
<1>3. CASE x = WindowSize(f)
  <2>1. q * WindowSize(f) + x = (q + 1) * WindowSize(f) + 0
    BY <1>1, <1>3, Distributes
  <2>2. 0 \in 0 .. WindowSize(f) - 1 /\ q + 1 \in Nat
    BY <1>1
  <2>3. Low(f, i, (q + 1) * WindowSize(f) + 0) = LowAt(f, i, q + 1, 0)
    BY <1>1, <2>2, DivisionUnique DEF Low
  <2>4. QED
    BY <1>3, <2>1, <2>3, LowAtRoundEnd
<1>4. QED
  BY <1>1, <1>2, <1>3

-----------------------------------------------------------------------------
(* Where bytes are. *)

\* Every byte is on one server.
LEMMA ServerOfByteFacts ==
  ASSUME NEW f \in Files, NEW b \in Nat
  PROVE  /\ ServerOfByte(f, b) \in Servers(f)
         /\ Before(f, ServerOfByte(f, b)) <= b % WindowSize(f)
         /\ b % WindowSize(f) < Before(f, ServerOfByte(f, b) + 1)
<1> DEFINE x == b % WindowSize(f)
           T == {j \in 1 .. ServerNum(f) + 1 : x < Before(f, j)}
<1>1. x \in Nat /\ x < WindowSize(f)
  BY RoundFacts, Division
<1>2. WindowSize(f) = Before(f, ServerNum(f) + 1) /\ ServerNum(f) \in Nat \ {0}
  BY RoundFacts, StripeFacts
<1> HIDE DEF x
<1>3. ServerNum(f) + 1 \in T
  BY <1>1, <1>2
<1>4. PICK j \in T : \A k \in T : j <= k
  <2>1. T \subseteq Nat
    OBVIOUS
  <2> HIDE DEF T
  <2>2. QED
    BY <1>3, <2>1, LeastNat
<1>5. j # 1
  BY <1>1, <1>4, StripeFacts
<1>6. j - 1 \in Servers(f) /\ j - 1 \in 1 .. ServerNum(f) + 1 /\ ~(j <= j - 1)
      /\ (j - 1) + 1 = j
  BY <1>2, <1>4, <1>5, StripeFacts
<1>7. Before(f, j - 1) <= x /\ x < Before(f, (j - 1) + 1)
  <2>1. Before(f, j - 1) \in Nat
    BY <1>6, StripeFacts
  <2>2. ~(x < Before(f, j - 1))
    BY <1>4, <1>6
  <2>3. QED
    BY <1>1, <1>4, <1>6, <2>1, <2>2
<1>8. \E i \in Servers(f) : Before(f, i) <= x /\ x < Before(f, i + 1)
  BY <1>6, <1>7
<1>9. QED
  BY <1>8, Zenon DEF ServerOfByte, x

\* The place of a byte is the next one of its server.
LEMMA PlaceFacts ==
  ASSUME NEW f \in Files, NEW b \in Nat
  PROVE  /\ ServerOfByte(f, b) \in Servers(f)
         /\ Place(f, b) = <<ServerOfByte(f, b), Low(f, ServerOfByte(f, b), b)>>
         /\ \A i \in Servers(f) : /\ Low(f, i, b) \in Nat
              /\ Low(f, i, b + 1) = Low(f, i, b) + IF i = ServerOfByte(f, b) THEN 1 ELSE 0
<1> DEFINE W == WindowSize(f)
           j == ServerOfByte(f, b)
           q == b \div W
           x == b % W
<1>1. W \in Nat \ {0} /\ q \in Nat /\ x \in Nat /\ x < W /\ b = q * W + x
  BY RoundFacts, Division
<1>2. j \in Servers(f) /\ Before(f, j) <= x /\ x < Before(f, j + 1)
  BY ServerOfByteFacts
<1>3. /\ Stripes[f][j] \in Nat \ {0} /\ Before(f, j) \in Nat
      /\ Before(f, j + 1) = Before(f, j) + Stripes[f][j]
  BY <1>2, StripeFacts
<1>4. Place(f, b) = <<j, q * Stripes[f][j] + x - Before(f, j)>>
  BY DEF Place
<1>5. ASSUME NEW i \in Servers(f)
      PROVE  Low(f, i, b) = LowAt(f, i, q, x)
  BY DEF Low
<1>6. q * W + (x + 1) = b + 1 /\ x + 1 \in 0 .. W
  <2>1. q * W \in Nat
    BY <1>1, ProductGrows
  <2> HIDE DEF q, x, W
  <2>2. QED
    BY <1>1, <2>1
<1> HIDE DEF j, q, x, W
<1>7. Low(f, j, b) = q * Stripes[f][j] + x - Before(f, j)
  <2>1. Part(f, j, x) = x - Before(f, j)
    BY <1>1, <1>2, <1>3 DEF Part
  <2>2. q * Stripes[f][j] \in Nat
    BY <1>1, <1>3, ProductGrows
  <2>3. QED
    BY <1>1, <1>2, <1>3, <1>5, <2>1, <2>2 DEF LowAt
<1>8. ASSUME NEW i \in Servers(f)
      PROVE  /\ Low(f, i, b) \in Nat
             /\ Low(f, i, b + 1) = Low(f, i, b) + IF i = j THEN 1 ELSE 0
  <2>1. Low(f, i, b) \in Nat
    BY <1>1, <1>5, LowType
  <2>2. Low(f, i, b + 1) = LowAt(f, i, q, x + 1)
    BY <1>1, <1>6, LowIs DEF W
  <2>3. x + 1 <= Before(f, j + 1)
    BY <1>1, <1>2, <1>3
  <2>4. LowAt(f, i, q, x + 1) = LowAt(f, i, q, x) + IF i = j THEN 1 ELSE 0
    BY <1>1, <1>2, <2>3, LowWithinServer
  <2>5. QED
    BY <1>5, <2>1, <2>2, <2>4
<1>9. QED
  BY <1>2, <1>4, <1>7, <1>8 DEF j

\* A server holds no fewer of more bytes, and of d bytes no more than d.
LEMMA LowGrows ==
  ASSUME NEW f \in Files, NEW i \in Servers(f), NEW b \in Nat, NEW d \in Nat
  PROVE  /\ Low(f, i, b) \in Nat /\ Low(f, i, b + d) \in Nat
         /\ Low(f, i, b) <= Low(f, i, b + d)
         /\ Low(f, i, b + d) <= Low(f, i, b) + d
<1> DEFINE Bad == {k \in 0 .. d : ~(/\ Low(f, i, b) <= Low(f, i, b + k)
                                    /\ Low(f, i, b + k) <= Low(f, i, b) + k)}
<1>1. \A k \in Nat : Low(f, i, b + k) \in Nat
  <2>1. ASSUME NEW k \in Nat PROVE Low(f, i, b + k) \in Nat
    <3>1. b + k \in Nat
      OBVIOUS
    <3>2. QED
      BY <3>1, PlaceFacts
  <2>2. QED
    BY <2>1
<1>2. Low(f, i, b) \in Nat
  BY PlaceFacts
<1>3. ASSUME Bad # {} PROVE FALSE
  <2>1. PICK k \in Bad : \A m \in Bad : k <= m
    <3>1. Bad \subseteq Nat
      OBVIOUS
    <3> HIDE DEF Bad
    <3>2. QED
      BY <1>3, <3>1, LeastNat
  <2>2. k # 0
    BY <1>2, <2>1
  <2>3. k - 1 \in 0 .. d /\ ~(k <= k - 1) /\ b + (k - 1) \in Nat /\ (b + (k - 1)) + 1 = b + k
        /\ k - 1 \in Nat /\ k \in Nat
    BY <2>1, <2>2
  <2>4. /\ Low(f, i, b) <= Low(f, i, b + (k - 1))
        /\ Low(f, i, b + (k - 1)) <= Low(f, i, b) + (k - 1)
    BY <2>1, <2>3
  <2>5. Low(f, i, (b + (k - 1)) + 1)
          = Low(f, i, b + (k - 1)) + IF i = ServerOfByte(f, b + (k - 1)) THEN 1 ELSE 0
    BY <2>3, PlaceFacts
  <2>6. Low(f, i, b + (k - 1)) \in Nat /\ Low(f, i, b + k) \in Nat
    BY <1>1, <2>3
  <2> HIDE DEF Bad
  <2>7. Low(f, i, b) <= Low(f, i, b + k) /\ Low(f, i, b + k) <= Low(f, i, b) + k
    BY <1>2, <2>3, <2>4, <2>5, <2>6
  <2>8. QED
    BY <2>1, <2>7 DEF Bad
<1>4. QED
  BY <1>1, <1>2, <1>3

\* The places of a file's bytes from b up to e.
PlacesBetween(f, b, e) ==
  {p \in Servers(f) \X Nat : Low(f, p[1], b) <= p[2] /\ p[2] < Low(f, p[1], e)}

\* They are the places of a request.
LEMMA PlacesOfFacts ==
  ASSUME NEW f \in Files, NEW b \in Nat, NEW n \in Nat
  PROVE  PlacesOf(f, b, n) = PlacesBetween(f, b, b + n)
<1> DEFINE Good(k) == PlacesOf(f, b, k) = PlacesBetween(f, b, b + k)
           Bad == {k \in 0 .. n : ~Good(k)}
<1>1. Good(0)
  <2>1. PlacesOf(f, b, 0) = {}
    BY DEF PlacesOf
  <2>2. \A i \in Servers(f) : Low(f, i, b) \in Nat
    BY PlaceFacts
  <2>3. b + 0 = b
    OBVIOUS
  <2>4. PlacesBetween(f, b, b) = {}
    BY <2>2 DEF PlacesBetween
  <2>5. QED
    BY <2>1, <2>3, <2>4
<1>2. ASSUME NEW k \in Nat, Good(k) PROVE Good(k + 1)
  <2> DEFINE e == b + k
             j == ServerOfByte(f, e)
  <2>1. e \in Nat /\ e + 1 = b + (k + 1) /\ b \in Nat /\ b <= e
    OBVIOUS
  <2>2. PlacesOf(f, b, k + 1) = PlacesOf(f, b, k) \cup {Place(f, e)}
    <3>1. b .. b + (k + 1) - 1 = (b .. b + k - 1) \cup {b + k}
      OBVIOUS
    <3>2. QED
      BY <3>1, Zenon DEF PlacesOf
  <2>3. /\ j \in Servers(f) /\ Place(f, e) = <<j, Low(f, j, e)>>
        /\ \A i \in Servers(f) : /\ Low(f, i, e) \in Nat
             /\ Low(f, i, e + 1) = Low(f, i, e) + IF i = j THEN 1 ELSE 0
    BY <2>1, PlaceFacts
  <2>4. \A i \in Servers(f) : Low(f, i, b) \in Nat /\ Low(f, i, b) <= Low(f, i, e)
    BY LowGrows
  <2> HIDE DEF j, e
  <2>5. PlacesBetween(f, b, e + 1) = PlacesBetween(f, b, e) \cup {<<j, Low(f, j, e)>>}
    <3>1. ASSUME NEW i \in Servers(f), NEW x \in Nat
          PROVE  <<i, x>> \in PlacesBetween(f, b, e + 1) <=>
                   <<i, x>> \in PlacesBetween(f, b, e) \/ (i = j /\ x = Low(f, j, e))
      <4>1. Low(f, i, e) \in Nat /\ Low(f, i, b) \in Nat /\ Low(f, i, b) <= Low(f, i, e)
            /\ Low(f, i, e + 1) = Low(f, i, e) + IF i = j THEN 1 ELSE 0
        BY <2>3, <2>4
      <4>2. QED
        BY <4>1 DEF PlacesBetween
    <3>2. <<j, Low(f, j, e)>> \in Servers(f) \X Nat
      BY <2>3
    <3>3. PlacesBetween(f, b, e + 1) \subseteq Servers(f) \X Nat
          /\ PlacesBetween(f, b, e) \subseteq Servers(f) \X Nat
      BY DEF PlacesBetween
    <3> HIDE DEF PlacesBetween
    <3>4. \A p \in Servers(f) \X Nat : p = <<p[1], p[2]>> /\ p[1] \in Servers(f) /\ p[2] \in Nat
      OBVIOUS
    <3>5. \A p \in Servers(f) \X Nat :
            p \in PlacesBetween(f, b, e + 1) <=>
              p \in PlacesBetween(f, b, e) \/ p = <<j, Low(f, j, e)>>
      BY <3>1, <3>4
    <3>6. QED
      BY <3>2, <3>3, <3>5
  <2>6. QED
    BY <1>2, <2>1, <2>2, <2>3, <2>5 DEF e
<1> HIDE DEF Good
<1>3. ASSUME Bad # {} PROVE FALSE
  <2>1. PICK k \in Bad : \A m \in Bad : k <= m
    <3>1. Bad \subseteq Nat
      OBVIOUS
    <3> HIDE DEF Bad
    <3>2. QED
      BY <1>3, <3>1, LeastNat
  <2>2. k # 0
    BY <1>1, <2>1
  <2>3. k - 1 \in 0 .. n /\ ~(k <= k - 1) /\ k - 1 \in Nat /\ (k - 1) + 1 = k
    BY <2>1, <2>2
  <2>4. Good(k - 1)
    BY <2>1, <2>3
  <2>5. Good((k - 1) + 1)
    BY <1>2, <2>3, <2>4
  <2>6. QED
    BY <2>1, <2>3, <2>5
<1>4. QED
  BY <1>3 DEF Good

-----------------------------------------------------------------------------
(* Where a request starts. *)

\* The first server of a request is the one that holds its first byte, or the one
\* before whose part ends there.
LEMMA StartServerFacts ==
  ASSUME NEW f \in Files, NEW x \in Nat, x < WindowSize(f)
  PROVE  /\ StartServer(f, x) \in Servers(f)
         /\ Before(f, StartServer(f, x)) <= x
         /\ x <= Before(f, StartServer(f, x) + 1)
<1> DEFINE T == {i \in Servers(f) : x <= Before(f, i + 1)}
<1>1. ServerNum(f) \in T
  <2>1. ServerNum(f) \in Servers(f)
    BY StripeFacts
  <2>2. x <= Before(f, ServerNum(f) + 1)
    BY RoundFacts
  <2>3. QED
    BY <2>1, <2>2
<1>2. StartServer(f, x) = CHOOSE i \in T : \A j \in T : i <= j
  BY DEF StartServer, Min
<1>3. T \subseteq Nat
  BY StripeFacts
<1>4. \E i \in T : \A j \in T : i <= j
  <2> HIDE DEF T
  <2>1. QED
    BY <1>1, <1>3, LeastNat
<1>5. StartServer(f, x) \in T /\ \A j \in T : StartServer(f, x) <= j
  <2> HIDE DEF T
  <2>1. QED
    BY <1>2, <1>4
<1> DEFINE s == StartServer(f, x)
<1> HIDE DEF s
<1>6. s \in Servers(f) /\ x <= Before(f, s + 1) /\ \A j \in T : s <= j
  BY <1>5 DEF s
<1>7. CASE s = 1
  BY <1>6, <1>7, StripeFacts DEF s
<1>8. CASE s # 1
  <2>1. s - 1 \in Servers(f) /\ (s - 1) + 1 = s /\ ~(s <= s - 1) /\ s \in 1 .. ServerNum(f) + 1
    BY <1>6, <1>8, StripeFacts
  <2>2. ~(x <= Before(f, s))
    BY <1>6, <2>1
  <2>3. Before(f, s) \in Nat
    BY <2>1, StripeFacts
  <2>4. Before(f, s) <= x
    BY <2>2, <2>3
  <2>5. QED
    BY <1>6, <2>4 DEF s
<1>9. QED
  BY <1>7, <1>8

\* A request starts at the places of its first byte.
LEMMA StartFacts ==
  ASSUME NEW f \in Files, NEW b \in Nat, NEW s, s = StartServer(f, b % WindowSize(f))
  PROVE  /\ s \in Servers(f)
         /\ (b % WindowSize(f)) - Before(f, s) \in 0 .. Stripes[f][s]
         /\ \A i \in Servers(f) :
              Low(f, i, b) = (b \div WindowSize(f)) * Stripes[f][i]
                               + (CASE i < s -> Stripes[f][i]
                                    [] i = s -> (b % WindowSize(f)) - Before(f, s)
                                    [] OTHER -> 0)
<1> DEFINE W == WindowSize(f)
           x == b % W
<1>1. x \in Nat /\ x < W
  BY RoundFacts, Division
<1>2. s \in Servers(f) /\ Before(f, s) <= x /\ x <= Before(f, s + 1)
  BY <1>1, StartServerFacts
<1>3. /\ Before(f, s + 1) = Before(f, s) + Stripes[f][s] /\ Before(f, s) \in Nat
      /\ Before(f, s + 1) \in Nat /\ Stripes[f][s] \in Nat /\ s \in Nat
  BY <1>2, StripeFacts
<1> HIDE DEF x
<1>4. x - Before(f, s) \in 0 .. Stripes[f][s]
  BY <1>1, <1>2, <1>3
<1>5. ASSUME NEW i \in Servers(f)
      PROVE  Part(f, i, x) = (CASE i < s -> Stripes[f][i]
                                [] i = s -> x - Before(f, s)
                                [] OTHER -> 0)
  <2>1. /\ Before(f, i + 1) = Before(f, i) + Stripes[f][i] /\ Before(f, i) \in Nat
        /\ Before(f, i + 1) \in Nat /\ Stripes[f][i] \in Nat \ {0} /\ i \in Nat
    BY StripeFacts
  <2>2. CASE i < s
    <3>1. i + 1 \in 1 .. ServerNum(f) + 1 /\ s \in (i + 1) .. ServerNum(f) + 1
      BY <1>2, <2>2, StripeFacts
    <3>2. Before(f, i + 1) <= Before(f, s)
      BY <3>1, BeforeGrows
    <3>3. QED
      BY <1>1, <1>2, <1>3, <2>1, <2>2, <3>2 DEF Part
  <2>3. CASE i = s
    BY <1>1, <1>2, <1>3, <2>1, <2>3 DEF Part
  <2>4. CASE i > s
    <3>1. s + 1 \in 1 .. ServerNum(f) + 1 /\ i \in (s + 1) .. ServerNum(f) + 1
      BY <1>2, <2>4, StripeFacts
    <3>2. Before(f, s + 1) <= Before(f, i)
      BY <3>1, BeforeGrows
    <3>3. QED
      BY <1>1, <1>2, <1>3, <2>1, <2>4, <3>2 DEF Part
  <2>5. QED
    BY <1>3, <2>1, <2>2, <2>3, <2>4
<1>6. \A i \in Servers(f) : Low(f, i, b) = (b \div W) * Stripes[f][i] + Part(f, i, x)
  BY DEF Low, LowAt, x
<1>7. QED
  BY <1>2, <1>4, <1>5, <1>6 DEF x

-----------------------------------------------------------------------------
(* How a window is dealt out. *)

\* The remainder of the next number.
LEMMA NextRemainder ==
  ASSUME NEW a \in Nat, NEW w \in Nat \ {0}
  PROVE  (a + 1) % w = IF (a % w) + 1 = w THEN 0 ELSE (a % w) + 1
<1> DEFINE q == a \div w
           x == a % w
<1>1. q \in Nat /\ x \in Nat /\ x < w /\ a = q * w + x
  BY Division
<1> HIDE DEF q, x
<1>2. q * w \in Nat /\ (q + 1) * w = q * w + w
  BY <1>1
<1>3. CASE x + 1 = w
  <2>1. a + 1 = (q + 1) * w + 0 /\ q + 1 \in Nat /\ 0 \in 0 .. w - 1
    BY <1>1, <1>2, <1>3
  <2>2. ((q + 1) * w + 0) % w = 0
    BY <2>1, DivisionUnique
  <2>3. QED
    BY <1>3, <2>1, <2>2 DEF x
<1>4. CASE x + 1 # w
  <2>1. a + 1 = q * w + (x + 1) /\ x + 1 \in 0 .. w - 1
    BY <1>1, <1>2, <1>4
  <2>2. (q * w + (x + 1)) % w = x + 1
    BY <1>1, <2>1, DivisionUnique
  <2>3. QED
    BY <1>4, <2>1, <2>2 DEF x
<1>5. QED
  BY <1>3, <1>4

\* The chunks go round the servers.
LEMMA ChunkServerFacts ==
  ASSUME NEW f \in Files, NEW start \in Servers(f)
  PROVE  /\ ChunkServer(f, start, 1) = start
         /\ \A k \in Nat \ {0} :
              /\ ChunkServer(f, start, k) \in Servers(f)
              /\ ChunkServer(f, start, k + 1)
                   = IF ChunkServer(f, start, k) = ServerNum(f) THEN 1
                     ELSE ChunkServer(f, start, k) + 1
<1> DEFINE n == ServerNum(f)
<1>1. n \in Nat \ {0} /\ Servers(f) = 1 .. n
  BY StripeFacts
<1> HIDE DEF n
<1>2. ChunkServer(f, start, 1) = start
  <2>1. start - 1 + 1 - 1 = 0 * n + (start - 1) /\ start - 1 \in 0 .. n - 1
    BY <1>1
  <2>2. (start - 1 + 1 - 1) % n = start - 1
    BY <1>1, <2>1, DivisionUnique
  <2>3. QED
    BY <1>1, <2>2 DEF ChunkServer, n
<1>3. ASSUME NEW k \in Nat \ {0}
      PROVE  /\ ChunkServer(f, start, k) \in Servers(f)
             /\ ChunkServer(f, start, k + 1)
                  = IF ChunkServer(f, start, k) = n THEN 1
                    ELSE ChunkServer(f, start, k) + 1
  <2> DEFINE a == start - 1 + k - 1
  <2>1. a \in Nat /\ start - 1 + (k + 1) - 1 = a + 1
    BY <1>1
  <2>2. ChunkServer(f, start, k) = (a % n) + 1 /\ ChunkServer(f, start, k + 1) = ((a + 1) % n) + 1
    BY <2>1 DEF ChunkServer, n
  <2> HIDE DEF a
  <2>3. a % n \in Nat /\ a % n < n
    BY <1>1, <2>1, Division
  <2>4. (a + 1) % n = IF (a % n) + 1 = n THEN 0 ELSE (a % n) + 1
    BY <1>1, <2>1, NextRemainder
  <2>5. QED
    BY <1>1, <2>2, <2>3, <2>4
<1>4. QED
  BY <1>2, <1>3 DEF n

\* Where the chunks of a window end, counted from its first byte.
Held(f, start, position, n, k) ==
  Total([j \in 1 .. n + 1 |-> SizeInc(f, start, position, j)], k)

\* A window of n bytes begins position bytes into the part of server start.
Begins(f, start, position, n) ==
  /\ f \in Files /\ start \in Servers(f) /\ position \in 0 .. Stripes[f][start]
  /\ n \in Nat

\* What a chunk can hold; only the first one may be empty.
LEMMA SizeIncFacts ==
  ASSUME NEW f, NEW start, NEW position, NEW n, Begins(f, start, position, n)
  PROVE  /\ \A k \in Nat \ {0} : SizeInc(f, start, position, k) \in Nat
         /\ \A k \in Nat \ {0, 1} : SizeInc(f, start, position, k) >= 1
         /\ Held(f, start, position, n, 0) = 0
         /\ \A k \in 1 .. n + 1 :
              /\ Held(f, start, position, n, k) \in Nat
              /\ Held(f, start, position, n, k)
                   = Held(f, start, position, n, k - 1) + SizeInc(f, start, position, k)
<1> USE DEF Begins
<1>1. ASSUME NEW k \in Nat \ {0}
      PROVE  /\ SizeInc(f, start, position, k) \in Nat
             /\ k # 1 => SizeInc(f, start, position, k) >= 1
  <2>1. ChunkServer(f, start, k) \in Servers(f) /\ ChunkServer(f, start, 1) = start
    BY ChunkServerFacts
  <2>2. Stripes[f][ChunkServer(f, start, k)] \in Nat \ {0} /\ Stripes[f][start] \in Nat \ {0}
    BY <2>1, StripeFacts
  <2>3. QED
    BY <2>1, <2>2 DEF SizeInc
<1> DEFINE inc == [j \in 1 .. n + 1 |-> SizeInc(f, start, position, j)]
<1>2. \A j \in 1 .. n + 1 : inc[j] \in Nat /\ inc[j] = SizeInc(f, start, position, j)
  BY <1>1
<1>3. \A k \in Nat : Held(f, start, position, n, k) = Total(inc, k)
  BY DEF Held
<1> HIDE DEF inc
<1>4. ASSUME NEW k \in 1 .. n + 1
      PROVE  /\ Total(inc, k) \in Nat
             /\ Total(inc, k) = Total(inc, k - 1) + SizeInc(f, start, position, k)
  <2>1. k - 1 \in Nat /\ k \in Nat /\ (k - 1) + 1 = k /\ \A j \in 1 .. k : j \in 1 .. n + 1
    OBVIOUS
  <2>2. \A j \in 1 .. k : inc[j] \in Int /\ inc[j] \in Nat
    BY <1>2, <2>1
  <2>3. Total(inc, k) \in Nat
    BY <2>1, <2>2, TotalType
  <2>4. Total(inc, (k - 1) + 1) = Total(inc, k - 1) + inc[(k - 1) + 1]
    BY <2>1, TotalDef
  <2>5. QED
    BY <1>2, <2>1, <2>3, <2>4
<1>5. Total(inc, 0) = 0
  BY TotalDef
<1>6. QED
  BY <1>1, <1>3, <1>4, <1>5

\* Byte b is y bytes into round q, where chunk k of a window begins.
ChunkBegins(f, start, position, k, b, q, y) ==
  LET i == ChunkServer(f, start, k)
      inc == SizeInc(f, start, position, k)
  IN  /\ q \in Nat /\ y \in Nat /\ b = q * WindowSize(f) + y
      /\ Before(f, i) <= y /\ y + inc = Before(f, i + 1)

\* Every chunk is within the part of its server.
LEMMA ChunkWithinServer ==
  ASSUME NEW f, NEW start, NEW position, NEW n, Begins(f, start, position, n),
         NEW b \in Nat, NEW jumps \in Nat,
         b = jumps * WindowSize(f) + Before(f, start) + position
  PROVE  \A k \in 1 .. n + 1 : \E q, y \in Nat :
           ChunkBegins(f, start, position, k, b + Held(f, start, position, n, k - 1), q, y)
<1> USE DEF Begins
<1> DEFINE E(k) == b + Held(f, start, position, n, k - 1)
           Good(k) == \E q, y \in Nat : ChunkBegins(f, start, position, k, E(k), q, y)
           Bad == {k \in 1 .. n + 1 : ~Good(k)}
           W == WindowSize(f)
<1>1. W \in Nat \ {0} /\ ServerNum(f) \in Nat \ {0} /\ Servers(f) = 1 .. ServerNum(f)
      /\ Before(f, ServerNum(f) + 1) = W /\ Before(f, 1) = 0
  BY RoundFacts, StripeFacts
<1>2. Good(1)
  <2>1. E(1) = b
    BY SizeIncFacts
  <2>2. ChunkServer(f, start, 1) = start
    BY ChunkServerFacts
  <2>3. /\ Stripes[f][start] \in Nat /\ Before(f, start) \in Nat
        /\ Before(f, start + 1) = Before(f, start) + Stripes[f][start]
    BY StripeFacts
  <2> DEFINE y == Before(f, start) + position
  <2>4. SizeInc(f, start, position, 1) = Stripes[f][start] - position
    BY <2>2 DEF SizeInc
  <2>5. y \in Nat /\ b = jumps * W + y /\ Before(f, start) <= y
        /\ y + SizeInc(f, start, position, 1) = Before(f, start + 1)
    <3>1. jumps * W \in Nat
      BY <1>1, ProductGrows
    <3> HIDE DEF W
    <3>2. QED
      BY <2>3, <2>4, <3>1 DEF W
  <2> HIDE DEF y
  <2>6. ChunkBegins(f, start, position, 1, E(1), jumps, y)
    BY <2>1, <2>2, <2>5 DEF ChunkBegins
  <2>7. QED
    BY <2>5, <2>6
<1>3. ASSUME NEW k \in Nat \ {0}, k + 1 \in 1 .. n + 1, Good(k)
      PROVE  Good(k + 1)
  <2> DEFINE i == ChunkServer(f, start, k)
             j == ChunkServer(f, start, k + 1)
             e == E(k)
             inc == SizeInc(f, start, position, k)
             next == SizeInc(f, start, position, k + 1)
  <2>1. PICK q \in Nat, y \in Nat : ChunkBegins(f, start, position, k, e, q, y)
    BY <1>3
  <2>2. e = q * W + y /\ y + inc = Before(f, i + 1)
    BY <2>1 DEF ChunkBegins
  <2>3. i \in Servers(f) /\ j \in Servers(f) /\ j = IF i = ServerNum(f) THEN 1 ELSE i + 1
    <3>1. k + 1 \in Nat \ {0}
      OBVIOUS
    <3>2. QED
      BY <3>1, ChunkServerFacts
  <2>4. E(k + 1) = e + inc /\ inc \in Nat /\ next = Stripes[f][j] /\ next \in Nat
    <3>1. k \in 1 .. n + 1 /\ (k + 1) - 1 = k /\ k - 1 \in Nat
      BY <1>3
    <3>2. /\ Held(f, start, position, n, k) = Held(f, start, position, n, k - 1) + inc
          /\ inc \in Nat
      BY <3>1, SizeIncFacts
    <3>3. Held(f, start, position, n, k - 1) \in Nat
      <4>1. CASE k = 1
        BY <4>1, SizeIncFacts
      <4>2. CASE k # 1
        <5>1. k - 1 \in 1 .. n + 1
          BY <3>1, <4>2
        <5>2. QED
          BY <5>1, SizeIncFacts
      <4>3. QED
        BY <4>1, <4>2
    <3>4. next = Stripes[f][j] /\ Stripes[f][j] \in Nat
      <4>1. k + 1 # 1
        OBVIOUS
      <4>2. Stripes[f][j] \in Nat \ {0}
        BY <2>3, StripeFacts
      <4>3. QED
        BY <4>1, <4>2 DEF SizeInc
    <3>5. QED
      BY <3>1, <3>2, <3>3, <3>4
  <2>5. /\ Before(f, j) \in Nat /\ Before(f, j + 1) = Before(f, j) + Stripes[f][j]
        /\ Before(f, i + 1) \in Nat
    <3>1. i + 1 \in 1 .. ServerNum(f) + 1 /\ j \in 1 .. ServerNum(f) + 1
      BY <1>1, <2>3
    <3>2. QED
      BY <2>3, <3>1, StripeFacts
  <2>6. q * W \in Nat /\ (q + 1) * W = q * W + W
    BY <1>1, Distributes, ProductGrows
  <2>7. E(k + 1) = q * W + Before(f, i + 1)
    <3> HIDE DEF E, W
    <3>1. QED
      BY <2>2, <2>4, <2>5, <2>6
  <2>8. \E p \in Nat : E(k + 1) = p * W + Before(f, j)
    <3>1. CASE i = ServerNum(f)
      <4>1. E(k + 1) = (q + 1) * W + Before(f, j) /\ q + 1 \in Nat
        <5> HIDE DEF E, W
        <5>1. QED
          BY <1>1, <2>3, <2>6, <2>7, <3>1
      <4>2. QED
        BY <4>1
    <3>2. CASE i # ServerNum(f)
      BY <2>3, <2>7, <3>2
    <3>3. QED
      BY <3>1, <3>2
  <2>9. PICK p \in Nat : E(k + 1) = p * W + Before(f, j)
    BY <2>8
  <2>10. ChunkBegins(f, start, position, k + 1, E(k + 1), p, Before(f, j))
    <3> HIDE DEF E, W
    <3>1. QED
      BY <2>4, <2>5, <2>9 DEF ChunkBegins, W
  <2>11. QED
    BY <2>5, <2>10
<1> HIDE DEF Good
<1>4. ASSUME Bad # {} PROVE FALSE
  <2>1. PICK k \in Bad : \A m \in Bad : k <= m
    <3>1. Bad \subseteq Nat
      OBVIOUS
    <3> HIDE DEF Bad
    <3>2. QED
      BY <1>4, <3>1, LeastNat
  <2>2. k # 1
    BY <1>2, <2>1
  <2>3. k - 1 \in 1 .. n + 1 /\ ~(k <= k - 1) /\ k - 1 \in Nat \ {0} /\ (k - 1) + 1 = k
        /\ k \in 1 .. n + 1
    BY <2>1, <2>2
  <2>4. Good(k - 1)
    BY <2>1, <2>3
  <2>5. Good((k - 1) + 1)
    BY <1>3, <2>3, <2>4
  <2>6. QED
    BY <2>1, <2>3, <2>5
<1>5. QED
  BY <1>4 DEF Good

\* A chunk adds what it takes to the bytes of its server, up to what it can hold.
LEMMA ChunkAdds ==
  ASSUME NEW f \in Files, NEW start \in Servers(f), NEW position, NEW k \in Nat \ {0},
         NEW b, NEW q, NEW y, ChunkBegins(f, start, position, k, b, q, y),
         NEW c \in Nat, c <= SizeInc(f, start, position, k),
         SizeInc(f, start, position, k) \in Nat, NEW i \in Servers(f)
  PROVE  /\ Low(f, i, b + c) = Low(f, i, b) + IF i = ChunkServer(f, start, k) THEN c ELSE 0
         /\ Low(f, i, b) \in Nat
<1> DEFINE W == WindowSize(f)
           j == ChunkServer(f, start, k)
           inc == SizeInc(f, start, position, k)
<1>1. /\ q \in Nat /\ y \in Nat /\ b = q * W + y
      /\ Before(f, j) <= y /\ y + inc = Before(f, j + 1)
  BY DEF ChunkBegins
<1>2. j \in Servers(f)
  BY ChunkServerFacts
<1>3. Before(f, j + 1) <= W /\ W \in Nat \ {0} /\ Before(f, j + 1) \in Nat
  <2>1. j + 1 \in 1 .. ServerNum(f) + 1 /\ ServerNum(f) + 1 \in (j + 1) .. ServerNum(f) + 1
    BY <1>2, StripeFacts
  <2>2. QED
    BY <2>1, BeforeGrows, RoundFacts, StripeFacts
<1> HIDE DEF W, j, inc
<1>4. inc \in Nat /\ c <= inc
  BY DEF inc
<1>5. y \in 0 .. W /\ y + c \in 0 .. W /\ y + c <= Before(f, j + 1) /\ q * W \in Nat
      /\ b + c = q * W + (y + c)
  <2>1. q * W \in Nat
    BY <1>1, <1>3, ProductGrows
  <2>2. QED
    BY <1>1, <1>3, <1>4, <2>1
<1>6. Low(f, i, q * W + y) = LowAt(f, i, q, y)
      /\ Low(f, i, q * W + (y + c)) = LowAt(f, i, q, y + c)
  BY <1>1, <1>5, LowIs DEF W
<1>7. LowAt(f, i, q, y + c) = LowAt(f, i, q, y) + IF i = j THEN c ELSE 0
  BY <1>1, <1>2, <1>5, LowWithinServer
<1>8. LowAt(f, i, q, y) \in Nat
  BY <1>1, LowType
<1>9. QED
  BY <1>1, <1>5, <1>6, <1>7, <1>8 DEF j

\* What the first k chunks take of a window of n bytes.
Taken(f, start, position, n, k) ==
  IF Held(f, start, position, n, k) < n THEN Held(f, start, position, n, k) ELSE n

\* Chunk k takes what it can hold or the rest; there are chunks enough.
LEMMA ChunkFacts ==
  ASSUME NEW f, NEW start, NEW position, NEW n, Begins(f, start, position, n)
  PROVE  /\ Taken(f, start, position, n, 0) = 0
         /\ Taken(f, start, position, n, n + 1) = n
         /\ \A k \in 0 .. n + 1 : Taken(f, start, position, n, k) \in 0 .. n
         /\ \A k \in 1 .. n + 1 :
              LET held == Held(f, start, position, n, k - 1)
                  before == Taken(f, start, position, n, k - 1)
                  chunk == Chunk(f, start, position, n, k)
              IN  /\ chunk \in 0 .. SizeInc(f, start, position, k)
                  /\ before + chunk = Taken(f, start, position, n, k)
                  /\ chunk # 0 => before = held
<1> DEFINE H(k) == Held(f, start, position, n, k)
           inc(k) == SizeInc(f, start, position, k)
           T(k) == Taken(f, start, position, n, k)
<1>1. n \in Nat
  BY DEF Begins
<1>2. /\ H(0) = 0
      /\ \A k \in 1 .. n + 1 : /\ H(k) \in Nat /\ H(k) = H(k - 1) + inc(k)
                               /\ inc(k) \in Nat /\ (k # 1 => inc(k) >= 1)
  BY SizeIncFacts
<1>3. \A k \in 0 .. n + 1 : LeftAggSize(f, start, position, n, k)
                              = IF H(k) < n THEN n - H(k) ELSE 0
  BY DEF LeftAggSize, Held
<1>4. \A k \in 0 .. n + 1 : T(k) = IF H(k) < n THEN H(k) ELSE n
  BY DEF Taken
<1>5. \A k \in 1 .. n + 1 : Chunk(f, start, position, n, k)
         = LeftAggSize(f, start, position, n, k - 1) - LeftAggSize(f, start, position, n, k)
  BY DEF Chunk
<1> HIDE DEF H, inc, T
<1>6. \A k \in 0 .. n + 1 : H(k) \in Nat
  BY <1>2
<1>7. T(0) = 0 /\ \A k \in 0 .. n + 1 : T(k) \in 0 .. n
  BY <1>1, <1>2, <1>4, <1>6
<1>8. ASSUME NEW k \in 1 .. n + 1
      PROVE  /\ Chunk(f, start, position, n, k) \in 0 .. inc(k)
             /\ T(k - 1) + Chunk(f, start, position, n, k) = T(k)
             /\ Chunk(f, start, position, n, k) # 0 => T(k - 1) = H(k - 1)
  <2>1. k - 1 \in 0 .. n + 1 /\ k \in 0 .. n + 1
    BY <1>1
  <2>2. /\ H(k) = H(k - 1) + inc(k) /\ inc(k) \in Nat /\ H(k - 1) \in Nat /\ H(k) \in Nat
        /\ T(k - 1) = (IF H(k - 1) < n THEN H(k - 1) ELSE n)
        /\ T(k) = (IF H(k) < n THEN H(k) ELSE n)
    BY <1>2, <1>4, <1>6, <2>1
  <2>3. Chunk(f, start, position, n, k) = (IF H(k - 1) < n THEN n - H(k - 1) ELSE 0)
                                            - (IF H(k) < n THEN n - H(k) ELSE 0)
    BY <1>3, <1>5, <2>1
  <2>4. QED
    BY <1>1, <2>2, <2>3
<1>9. T(n + 1) = n
  <2> DEFINE Bad == {k \in 1 .. n + 1 : ~(H(k) >= k - 1)}
  <2>1. ASSUME Bad # {} PROVE FALSE
    <3>1. PICK k \in Bad : \A m \in Bad : k <= m
      <4>1. Bad \subseteq Nat
        OBVIOUS
      <4> HIDE DEF Bad
      <4>2. QED
        BY <2>1, <4>1, LeastNat
    <3>2. k # 1
      BY <1>2, <3>1
    <3>3. k - 1 \in 1 .. n + 1 /\ ~(k <= k - 1) /\ k \in 1 .. n + 1
      BY <1>1, <3>1, <3>2
    <3>4. H(k - 1) >= (k - 1) - 1
      BY <3>1, <3>3
    <3>5. H(k) = H(k - 1) + inc(k) /\ inc(k) >= 1 /\ inc(k) \in Nat /\ H(k - 1) \in Nat
      BY <1>2, <1>6, <3>2, <3>3
    <3>6. H(k) >= k - 1
      BY <3>3, <3>4, <3>5
    <3>7. QED
      BY <3>1, <3>6
  <2>2. n + 1 \in 1 .. n + 1 /\ n + 1 \in 0 .. n + 1
    BY <1>1
  <2>3. H(n + 1) >= (n + 1) - 1
    BY <2>1, <2>2
  <2>4. QED
    BY <1>1, <1>4, <1>6, <2>2, <2>3
<1>10. QED
  BY <1>7, <1>8, <1>9 DEF H, inc, T

\* What a window is dealt out to a server is what the server holds of its bytes.
LEMMA DealtExact ==
  ASSUME NEW f, NEW start, NEW position, NEW n, Begins(f, start, position, n),
         NEW b \in Nat, NEW jumps \in Nat,
         b = jumps * WindowSize(f) + Before(f, start) + position,
         NEW i \in Servers(f)
  PROVE  /\ Dealt(f, start, position, n)[i] = Low(f, i, b + n) - Low(f, i, b)
         /\ Dealt(f, start, position, n)[i] \in Nat
<1> DEFINE ChunkOf(k) == IF ChunkServer(f, start, k) = i
                         THEN Chunk(f, start, position, n, k) ELSE 0
           Parts == [k \in 1 .. n + 1 |-> ChunkOf(k)]
           T(k) == Taken(f, start, position, n, k)
           H(k) == Held(f, start, position, n, k)
           Good(k) == Total(Parts, k) = Low(f, i, b + T(k)) - Low(f, i, b)
           Bad == {k \in 0 .. n + 1 : ~Good(k)}
<1>1. f \in Files /\ start \in Servers(f) /\ n \in Nat
  BY DEF Begins
<1>2. Dealt(f, start, position, n)[i] = Total(Parts, n + 1)
  BY DEF Dealt
<1>3. /\ T(0) = 0 /\ T(n + 1) = n /\ H(0) = 0
      /\ \A k \in 0 .. n + 1 : T(k) \in 0 .. n
  BY ChunkFacts, SizeIncFacts
<1>4. \A x \in Nat : Low(f, i, x) \in Nat
  BY <1>1, PlaceFacts
<1>5. Good(0)
  <2>1. b + T(0) = b /\ Low(f, i, b) \in Nat
    BY <1>3, <1>4
  <2>2. Total(Parts, 0) = 0
    BY TotalDef
  <2>3. QED
    BY <2>1, <2>2
<1>6. ASSUME NEW k \in 1 .. n + 1, Good(k - 1)
      PROVE  Good(k)
  <2> DEFINE c == Chunk(f, start, position, n, k)
  <2>1. /\ c \in 0 .. SizeInc(f, start, position, k) /\ T(k - 1) + c = T(k)
        /\ c # 0 => T(k - 1) = H(k - 1)
    BY ChunkFacts
  <2>2. SizeInc(f, start, position, k) \in Nat
    BY SizeIncFacts
  <2>3. T(k - 1) \in Nat /\ T(k) \in Nat /\ k - 1 \in Nat /\ (k - 1) + 1 = k
    BY <1>1, <1>3
  <2>4. Total(Parts, k) = Total(Parts, k - 1) + ChunkOf(k)
    <3>1. Parts[k] = ChunkOf(k)
      OBVIOUS
    <3> HIDE DEF Parts
    <3>2. Total(Parts, (k - 1) + 1) = Total(Parts, k - 1) + Parts[(k - 1) + 1]
      BY <2>3, TotalDef
    <3>3. QED
      BY <2>3, <3>1, <3>2
  <2>5. Low(f, i, b + T(k)) = Low(f, i, b + T(k - 1)) + ChunkOf(k)
    <3>1. CASE c = 0
      <4>1. T(k) = T(k - 1) /\ ChunkOf(k) = 0
        <5> HIDE DEF T
        <5>1. T(k) = T(k - 1)
          BY <2>1, <2>3, <3>1
        <5>2. QED
          BY <3>1, <5>1
      <4>2. Low(f, i, b + T(k - 1)) \in Nat
        BY <1>4, <2>3
      <4>3. QED
        BY <4>1, <4>2
    <3>2. CASE c # 0
      <4>1. T(k - 1) = H(k - 1)
        BY <2>1, <3>2
      <4>2. PICK q \in Nat, y \in Nat :
              ChunkBegins(f, start, position, k, b + H(k - 1), q, y)
        BY ChunkWithinServer
      <4>3. c \in Nat /\ c <= SizeInc(f, start, position, k) /\ k \in Nat \ {0}
        BY <2>1, <2>2
      <4> HIDE DEF c, H
      <4>4. Low(f, i, (b + H(k - 1)) + c)
              = Low(f, i, b + H(k - 1)) + IF i = ChunkServer(f, start, k) THEN c ELSE 0
        BY <1>1, <2>2, <4>2, <4>3, ChunkAdds
      <4>5. (b + T(k - 1)) + c = b + T(k)
        <5> HIDE DEF T
        <5>1. QED
          BY <2>1, <2>3, <4>3
      <4>6. QED
        BY <4>1, <4>4, <4>5 DEF c
    <3>3. QED
      BY <3>1, <3>2
  <2>6. Low(f, i, b) \in Nat /\ Low(f, i, b + T(k - 1)) \in Nat /\ Low(f, i, b + T(k)) \in Nat
    BY <1>4, <2>3
  <2> HIDE DEF Parts, T, ChunkOf
  <2>7. ChunkOf(k) \in Int
    BY <2>1, <2>2 DEF ChunkOf
  <2>8. QED
    BY <1>6, <2>4, <2>5, <2>6, <2>7
<1> HIDE DEF Good
<1>7. ASSUME Bad # {} PROVE FALSE
  <2>1. PICK k \in Bad : \A m \in Bad : k <= m
    <3>1. Bad \subseteq Nat
      OBVIOUS
    <3> HIDE DEF Bad
    <3>2. QED
      BY <1>7, <3>1, LeastNat
  <2>2. k # 0
    BY <1>5, <2>1
  <2>3. k - 1 \in 0 .. n + 1 /\ ~(k <= k - 1) /\ k \in 1 .. n + 1
    BY <1>1, <2>1, <2>2
  <2>4. Good(k - 1)
    BY <2>1, <2>3
  <2>5. Good(k)
    BY <1>6, <2>3, <2>4
  <2>6. QED
    BY <2>1, <2>5
<1>8. Good(n + 1)
  <2>1. n + 1 \in 0 .. n + 1
    BY <1>1
  <2>2. QED
    BY <1>7, <2>1
<1>9. Low(f, i, b) \in Nat /\ Low(f, i, b + n) \in Nat /\ Low(f, i, b) <= Low(f, i, b + n)
  BY <1>1, LowGrows
<1>10. QED
  BY <1>2, <1>3, <1>8, <1>9 DEF Good

\* A window of whole rounds ends where it began in a round.
LEMMA WholeRoundsFit ==
  ASSUME NEW f \in Files, NEW b \in Nat, NEW n \in Nat, n % WindowSize(f) = 0
  PROVE  (b + n) % WindowSize(f) = b % WindowSize(f)
<1> DEFINE W == WindowSize(f)
           p == b \div W
           q == n \div W
           x == b % W
<1>1. W \in Nat \ {0} /\ p \in Nat /\ q \in Nat /\ x \in Nat /\ x < W
      /\ b = p * W + x /\ n = q * W
  <2>1. W \in Nat \ {0}
    BY RoundFacts
  <2>2. n = q * W + (n % W) /\ n % W = 0 /\ q \in Nat
    BY <2>1, Division
  <2>3. b = p * W + (b % W) /\ p \in Nat /\ b % W \in Nat /\ b % W < W
    BY <2>1, Division
  <2>4. q * W \in Nat
    BY <2>1, <2>2, ProductGrows
  <2> HIDE DEF q, p, W
  <2>5. QED
    BY <2>1, <2>2, <2>3, <2>4
<1> HIDE DEF W, p, q, x
<1>2. b + n = (p + q) * W + x /\ p + q \in Nat /\ x \in 0 .. W - 1
  <2>1. (p + q) * W = p * W + q * W /\ p * W \in Int /\ q * W \in Int
    BY <1>1, Distributes
  <2>2. QED
    BY <1>1, <2>1
<1>3. ((p + q) * W + x) % W = x
  BY <1>1, <1>2, DivisionUnique
<1>4. QED
  BY <1>2, <1>3 DEF W, x

-----------------------------------------------------------------------------
(* What the methods of a trace leave and what they change. *)

\* A slot is a size that is not sent yet, nothing, or a mark.
Slots == Nat \cup {SW_RECEIVED, SW_SENT}

\* A trace on file f.
TracesOn(f) ==
  [ID : Nat, pfsFileID : {f}, offset : Nat, read : BOOLEAN, unProcessedSize : Nat,
   hasLayout : BOOLEAN, dsoffsets : [Servers(f) -> Nat],
   dataSizeInWindow : [Servers(f) -> Slots], sentPktSize : [Servers(f) -> Nat],
   offset_start_server : Servers(f), offset_start_position : Nat,
   totalSubreqsInWindow : Nat]

\* Its windows begin inside the part of their first server.
WellBegun(t) == t.offset_start_position <= Stripes[t.pfsFileID][t.offset_start_server]

\* What of a trace never changes once it has its layout.
SameStart(w, t) ==
  /\ w.ID = t.ID /\ w.pfsFileID = t.pfsFileID /\ w.offset = t.offset /\ w.read = t.read
  /\ w.hasLayout = t.hasLayout
  /\ w.offset_start_server = t.offset_start_server
  /\ w.offset_start_position = t.offset_start_position

\* The bytes of the next window.
WindowBytes(t) == IF t.unProcessedSize > MaxWindowSize THEN MaxWindowSize
                  ELSE t.unProcessedSize

\* The windows of a trace begin where byte b is in its round.
BeginsAt(t, b) ==
  b % WindowSize(t.pfsFileID)
    = Before(t.pfsFileID, t.offset_start_server) + t.offset_start_position

\* The fields of a trace.
LEMMA TraceTypes ==
  ASSUME NEW f, NEW t \in TracesOn(f)
  PROVE  /\ t.ID \in Nat /\ t.pfsFileID = f /\ t.offset \in Nat /\ t.read \in BOOLEAN
         /\ t.unProcessedSize \in Nat /\ t.hasLayout \in BOOLEAN
         /\ t.dsoffsets \in [Servers(f) -> Nat]
         /\ t.dataSizeInWindow \in [Servers(f) -> Slots]
         /\ t.sentPktSize \in [Servers(f) -> Nat]
         /\ t.offset_start_server \in Servers(f) /\ t.offset_start_position \in Nat
         /\ t.totalSubreqsInWindow \in Nat
         /\ \A i \in Servers(f) : /\ t.dsoffsets[i] \in Nat /\ t.sentPktSize[i] \in Nat
                                  /\ t.dataSizeInWindow[i] \in Slots
<1> DEFINE S == Servers(f)
<1> HIDE DEF S
<1>1. /\ t.ID \in Nat /\ t.pfsFileID = f /\ t.offset \in Nat /\ t.read \in BOOLEAN
      /\ t.unProcessedSize \in Nat /\ t.hasLayout \in BOOLEAN
      /\ t.dsoffsets \in [S -> Nat] /\ t.dataSizeInWindow \in [S -> Slots]
      /\ t.sentPktSize \in [S -> Nat]
      /\ t.offset_start_server \in S /\ t.offset_start_position \in Nat
      /\ t.totalSubreqsInWindow \in Nat
  BY DEF TracesOn, S
<1>2. QED
  BY <1>1 DEF S

\* A trace whose windows begin where they should begins a window.
LEMMA TraceBegins ==
  ASSUME NEW f \in Files, NEW t \in TracesOn(f), WellBegun(t), NEW n \in Nat
  PROVE  Begins(f, t.offset_start_server, t.offset_start_position, n)
<1>1. /\ t.pfsFileID = f /\ t.offset_start_server \in Servers(f)
      /\ t.offset_start_position \in Nat
  BY TraceTypes
<1>2. Stripes[f][t.offset_start_server] \in Nat
  BY <1>1, StripeFacts
<1>3. QED
  BY <1>1, <1>2 DEF Begins, WellBegun

\* Trace t of request id on file f sent none of its n bytes from b on yet.
Fresh(t, id, f, b, n) ==
  /\ t \in TracesOn(f) /\ WellBegun(t)
  /\ t.ID = id /\ t.pfsFileID = f /\ t.offset = b
  /\ t.unProcessedSize = n /\ ~t.hasLayout
  /\ \A i \in Servers(f) : t.dataSizeInWindow[i] = SW_NULL

\* A new trace is so.
LEMMA NewTraceFacts ==
  ASSUME NEW f \in Files, NEW id \in Nat, NEW b \in Nat, NEW n \in Nat, NEW rd \in BOOLEAN
  PROVE  Fresh(NewTrace(id, f, b, n, rd), id, f, b, n)
<1> DEFINE S == Servers(f)
           t == NewTrace(id, f, b, n, rd)
<1>1. 1 \in S /\ Stripes[f][1] \in Nat
  BY StripeFacts
<1>2. /\ [i \in S |-> 0] \in [S -> Nat] /\ [i \in S |-> SW_NULL] \in [S -> Slots]
  BY DEF Slots, SW_NULL
<1> HIDE DEF S
<1>3. t = [ID |-> id, pfsFileID |-> f, offset |-> b, read |-> rd,
           unProcessedSize |-> n, hasLayout |-> FALSE,
           dsoffsets |-> [i \in S |-> 0], dataSizeInWindow |-> [i \in S |-> SW_NULL],
           sentPktSize |-> [i \in S |-> 0],
           offset_start_server |-> 1, offset_start_position |-> 0,
           totalSubreqsInWindow |-> 0]
  BY DEF NewTrace, S
<1> HIDE DEF t
<1>4. t \in TracesOn(f)
  BY <1>1, <1>2, <1>3 DEF TracesOn, S
<1>5. /\ t.ID = id /\ t.pfsFileID = f /\ t.offset = b /\ t.read = rd
      /\ t.unProcessedSize = n /\ t.hasLayout = FALSE
      /\ t.dataSizeInWindow = [i \in S |-> SW_NULL]
      /\ t.offset_start_position = 0 /\ t.offset_start_server = 1
  BY <1>3
<1>6. WellBegun(t)
  BY <1>1, <1>5 DEF WellBegun
<1>7. Fresh(t, id, f, b, n)
  BY <1>4, <1>5, <1>6 DEF S, Fresh
<1>8. QED
  BY <1>7 DEF t

\* The next window: its bytes are dealt out to the slots; an empty one changes nothing.
LEMMA OpenNewWindowFacts ==
  ASSUME NEW f \in Files, NEW t \in TracesOn(f), WellBegun(t),
         NEW w, w = OpenNewWindow(t)
  PROVE  /\ w \in TracesOn(f) /\ WellBegun(w) /\ SameStart(w, t)
         /\ w.dsoffsets = t.dsoffsets /\ w.sentPktSize = t.sentPktSize
         /\ t.unProcessedSize = 0 => w = t
         /\ t.unProcessedSize # 0 =>
              /\ WindowBytes(t) \in 1 .. MaxWindowSize
              /\ w.unProcessedSize = t.unProcessedSize - WindowBytes(t)
              /\ w.unProcessedSize # 0 => WindowBytes(t) = MaxWindowSize
              /\ \A i \in Servers(f) : w.dataSizeInWindow[i] \in Nat
              /\ \A b \in Nat : BeginsAt(t, b) =>
                   \A i \in Servers(f) :
                     w.dataSizeInWindow[i] = Low(f, i, b + WindowBytes(t)) - Low(f, i, b)
<1> DEFINE n == WindowBytes(t)
           d == Dealt(f, t.offset_start_server, t.offset_start_position, n)
           S == Servers(f)
<1>1. /\ t.pfsFileID = f /\ t.unProcessedSize \in Nat /\ t.offset_start_server \in Servers(f)
      /\ t.offset_start_position \in Nat
  BY TraceTypes
<1>2. CASE t.unProcessedSize = 0
  <2>1. w = t
    BY <1>2 DEF OpenNewWindow
  <2>2. QED
    BY <1>2, <2>1 DEF SameStart
<1>3. CASE t.unProcessedSize # 0
  <2>1. n \in 1 .. MaxWindowSize /\ n \in Nat /\ t.unProcessedSize - n \in Nat
        /\ (t.unProcessedSize - n # 0 => n = MaxWindowSize)
    BY <1>1, <1>3, MaxWindowSizeAssumption DEF WindowBytes
  <2>2. Begins(f, t.offset_start_server, t.offset_start_position, n)
    BY <2>1, TraceBegins
  <2>3. ASSUME NEW b \in Nat, NEW i \in Servers(f), BeginsAt(t, b)
        PROVE  d[i] = Low(f, i, b + n) - Low(f, i, b)
    <3> DEFINE W == WindowSize(f)
               q == b \div W
               x == Before(f, t.offset_start_server)
               y == t.offset_start_position
    <3>1. W \in Nat \ {0} /\ q \in Nat /\ b = q * W + (b % W)
      BY RoundFacts, Division
    <3>2. b % W = x + y
      BY <1>1, <2>3 DEF BeginsAt
    <3>3. q * W \in Nat /\ x \in Nat /\ y \in Nat
      <4>1. t.offset_start_server \in 1 .. ServerNum(f) + 1
        BY <1>1, StripeFacts
      <4>2. QED
        BY <1>1, <3>1, <4>1, ProductGrows, StripeFacts
    <3>4. b = q * W + x + y
      <4> HIDE DEF q, W, x, y
      <4>1. QED
        BY <3>1, <3>2, <3>3
    <3>5. QED
      BY <2>2, <3>1, <3>4, DealtExact
  <2>4. ASSUME NEW i \in Servers(f)
        PROVE  d[i] \in Nat
    <3> DEFINE s == t.offset_start_server
               y == t.offset_start_position
               b == Before(f, s) + y
    <3>1. s \in 1 .. ServerNum(f) + 1 /\ y \in Nat /\ WindowSize(f) \in Nat
      BY <1>1, StripeFacts, RoundFacts
    <3>2. Before(f, s) \in Nat
      BY <3>1, StripeFacts
    <3>3. 0 * WindowSize(f) = 0
      BY <3>1
    <3>4. b \in Nat /\ 0 \in Nat /\ b = 0 * WindowSize(f) + Before(f, s) + y
      <4> HIDE DEF s, y
      <4>1. QED
        BY <3>1, <3>2, <3>3
    <3> HIDE DEF b
    <3>5. QED
      BY <2>2, <3>4, DealtExact
  <2>5. d \in [S -> Slots]
    <3>1. d = [i \in S |-> d[i]]
      BY DEF Dealt
    <3> HIDE DEF d
    <3>2. QED
      BY <2>4, <3>1 DEF Slots
  <2>6. ServerNum(f) \in Nat
    BY StripeFacts
  <2>7. w = [t EXCEPT !.unProcessedSize = t.unProcessedSize - n, !.dataSizeInWindow = d,
                      !.totalSubreqsInWindow = ServerNum(f)]
    BY <1>1, <1>3 DEF OpenNewWindow, WindowBytes
  <2> HIDE DEF S, d, n
  <2>8. w \in TracesOn(f)
    BY <2>1, <2>5, <2>6, <2>7 DEF TracesOn, S
  <2>9. /\ w.ID = t.ID /\ w.pfsFileID = t.pfsFileID /\ w.offset = t.offset
        /\ w.read = t.read /\ w.hasLayout = t.hasLayout
        /\ w.offset_start_server = t.offset_start_server
        /\ w.offset_start_position = t.offset_start_position
    BY <2>7 DEF TracesOn
  <2>10. /\ w.dsoffsets = t.dsoffsets /\ w.sentPktSize = t.sentPktSize
         /\ w.unProcessedSize = t.unProcessedSize - n /\ w.dataSizeInWindow = d
    BY <2>7 DEF TracesOn
  <2>11. WellBegun(w) /\ SameStart(w, t)
    BY <2>9 DEF WellBegun, SameStart
  <2>12. QED
    BY <1>3, <2>1, <2>3, <2>4, <2>8, <2>10, <2>11 DEF S, n
<1>4. QED
  BY <1>2, <1>3

\* The layout tells where the request is; its first window is opened.
LEMMA SetLayoutFacts ==
  ASSUME NEW f \in Files, NEW t \in TracesOn(f), t.unProcessedSize # 0,
         NEW w, w = SetLayout(t)
  PROVE  /\ w \in TracesOn(f) /\ WellBegun(w)
         /\ w.ID = t.ID /\ w.offset = t.offset /\ w.read = t.read /\ w.hasLayout = TRUE
         /\ WindowBytes(t) \in 1 .. MaxWindowSize
         /\ w.unProcessedSize = t.unProcessedSize - WindowBytes(t)
         /\ w.unProcessedSize # 0 => WindowBytes(t) = MaxWindowSize
         /\ BeginsAt(w, t.offset)
         /\ \A i \in Servers(f) :
              /\ w.dsoffsets[i] = Low(f, i, t.offset)
              /\ w.dataSizeInWindow[i] \in Nat
              /\ w.dataSizeInWindow[i]
                   = Low(f, i, t.offset + WindowBytes(t)) - Low(f, i, t.offset)
<1> DEFINE S == Servers(f)
           b == t.offset
           W == WindowSize(f)
           s == StartServer(f, b % W)
           y == (b % W) - Before(f, s)
           ds == [i \in S |-> (b \div W) * Stripes[f][i] + (CASE i < s -> Stripes[f][i]
                                                              [] i = s -> y
                                                              [] OTHER -> 0)]
           none == [i \in S |-> SW_NULL]
           l == [t EXCEPT !.hasLayout = TRUE, !.offset_start_server = s,
                          !.offset_start_position = y, !.dsoffsets = ds,
                          !.dataSizeInWindow = none]
<1>1. t.pfsFileID = f /\ t.unProcessedSize \in Nat /\ b \in Nat
  BY TraceTypes
<1>2. w = OpenNewWindow(l)
  BY <1>1 DEF SetLayout
<1>3. /\ s \in S /\ y \in 0 .. Stripes[f][s] /\ Stripes[f][s] \in Nat
      /\ \A i \in S : ds[i] = Low(f, i, b)
      /\ \A i \in S : Low(f, i, b) \in Nat
  <2>1. s \in S /\ y \in 0 .. Stripes[f][s] /\ \A i \in S : ds[i] = Low(f, i, b)
    BY <1>1, StartFacts
  <2>2. Stripes[f][s] \in Nat
    BY <2>1, StripeFacts
  <2>3. \A i \in S : Low(f, i, b) \in Nat
    BY <1>1, PlaceFacts
  <2>4. QED
    BY <2>1, <2>2, <2>3
<1>4. ds \in [S -> Nat] /\ none \in [S -> Slots]
  <2>1. ds = [i \in S |-> ds[i]] /\ none \in [S -> Slots]
    BY DEF Slots, SW_NULL
  <2> HIDE DEF ds
  <2>2. QED
    BY <1>3, <2>1
<1>5. y + Before(f, s) = b % W
  <2>1. b % W \in Nat /\ Before(f, s) \in Nat
    <3>1. s \in 1 .. ServerNum(f) + 1
      BY <1>3, StripeFacts
    <3>2. QED
      BY <1>1, <3>1, StripeFacts, RoundFacts, Division
  <2>2. QED
    BY <2>1
<1> HIDE DEF S, ds, none
<1>6. l \in TracesOn(f)
  <2> HIDE DEF s, y
  <2>1. y \in Nat
    BY <1>3
  <2>2. QED
    BY <1>3, <1>4, <2>1 DEF TracesOn, S
<1>7. /\ l.ID = t.ID /\ l.pfsFileID = f /\ l.offset = b /\ l.read = t.read
      /\ l.hasLayout = TRUE /\ l.unProcessedSize = t.unProcessedSize
  <2> HIDE DEF s, y
  <2>1. QED
    BY <1>1 DEF TracesOn
<1>8. /\ l.offset_start_server = s /\ l.offset_start_position = y /\ l.dsoffsets = ds
  <2> HIDE DEF s, y, b
  <2>1. QED
    BY DEF TracesOn
<1>9. WellBegun(l)
  <2> HIDE DEF s, y
  <2>1. QED
    BY <1>3, <1>7, <1>8 DEF WellBegun
<1>10. BeginsAt(l, b)
  <2>1. y \in Nat /\ Before(f, s) \in Nat
    <3>1. s \in 1 .. ServerNum(f) + 1
      BY <1>3, StripeFacts DEF S
    <3> HIDE DEF s, y
    <3>2. QED
      BY <1>3, <3>1, StripeFacts
  <2> HIDE DEF s, y
  <2>2. QED
    BY <1>5, <1>7, <1>8, <2>1 DEF BeginsAt
<1> HIDE DEF l, b, W, s, y
<1>11. WindowBytes(l) = WindowBytes(t)
  BY <1>7 DEF WindowBytes
<1>12. /\ w \in TracesOn(f) /\ WellBegun(w) /\ SameStart(w, l)
       /\ w.dsoffsets = l.dsoffsets
       /\ WindowBytes(l) \in 1 .. MaxWindowSize
       /\ w.unProcessedSize = l.unProcessedSize - WindowBytes(l)
       /\ w.unProcessedSize # 0 => WindowBytes(l) = MaxWindowSize
       /\ \A i \in Servers(f) : w.dataSizeInWindow[i] \in Nat
       /\ \A x \in Nat : BeginsAt(l, x) =>
            \A i \in Servers(f) :
              w.dataSizeInWindow[i] = Low(f, i, x + WindowBytes(l)) - Low(f, i, x)
  <2>1. l.unProcessedSize # 0
    BY <1>7
  <2>2. QED
    BY <1>2, <1>6, <1>9, <2>1, OpenNewWindowFacts
<1>13. BeginsAt(w, b)
  BY <1>10, <1>12 DEF BeginsAt, SameStart
<1>14. /\ w.ID = t.ID /\ w.offset = b /\ w.read = t.read /\ w.hasLayout = TRUE
  BY <1>7, <1>12 DEF SameStart
<1>15. /\ w.unProcessedSize = t.unProcessedSize - WindowBytes(t)
       /\ \A i \in Servers(f) :
            w.dataSizeInWindow[i] = Low(f, i, b + WindowBytes(t)) - Low(f, i, b)
  BY <1>1, <1>7, <1>10, <1>11, <1>12 DEF b
<1>16. \A i \in Servers(f) : w.dsoffsets[i] = Low(f, i, b)
  BY <1>3, <1>8, <1>12 DEF S
<1>17. QED
  BY <1>11, <1>12, <1>13, <1>14, <1>15, <1>16 DEF b

\* What the slots of a trace mark.
LEMMA UnsentFacts ==
  ASSUME NEW f \in Files, NEW t \in TracesOn(f)
  PROVE  /\ Unsent(t) = {i \in Servers(f) : t.dataSizeInWindow[i] > 0}
         /\ AwaitedFrom(t) = {i \in Servers(f) : t.dataSizeInWindow[i] = SW_SENT}
         /\ Unsent(t) \subseteq 1 .. ServerNum(f) /\ IsFiniteSet(Unsent(t))
         /\ Cardinality(Unsent(t)) \in Nat /\ Cardinality(Unsent(t)) <= ServerNum(f)
<1>1. t.pfsFileID = f
  BY TraceTypes
<1>2. /\ Unsent(t) = {i \in Servers(f) : t.dataSizeInWindow[i] > 0}
      /\ AwaitedFrom(t) = {i \in Servers(f) : t.dataSizeInWindow[i] = SW_SENT}
  BY <1>1 DEF Unsent, AwaitedFrom
<1>3. Unsent(t) \subseteq 1 .. ServerNum(f) /\ ServerNum(f) \in Nat
  BY <1>2, StripeFacts
<1>4. IsFiniteSet(1 .. ServerNum(f)) /\ Cardinality(1 .. ServerNum(f)) = ServerNum(f)
  BY <1>3, FS_Interval
<1>5. IsFiniteSet(Unsent(t)) /\ Cardinality(Unsent(t)) <= ServerNum(f)
  BY <1>3, <1>4, FS_Subset
<1>6. Cardinality(Unsent(t)) \in Nat
  BY <1>5, FS_CardinalityType
<1>7. QED
  BY <1>2, <1>3, <1>5, <1>6

\* All of a window is sent.
LEMMA AllSentFacts ==
  ASSUME NEW f \in Files, NEW t \in TracesOn(f), NEW w, w = AllSent(t)
  PROVE  /\ w \in TracesOn(f) /\ SameStart(w, t) /\ (WellBegun(t) => WellBegun(w))
         /\ w.dsoffsets = t.dsoffsets /\ w.unProcessedSize = t.unProcessedSize
         /\ Unsent(w) = {}
         /\ \A i \in Servers(f) :
              /\ i \in Unsent(t) => /\ w.dataSizeInWindow[i] = SW_SENT
                                    /\ w.sentPktSize[i] = t.dataSizeInWindow[i]
              /\ i \notin Unsent(t) => /\ w.dataSizeInWindow[i] = t.dataSizeInWindow[i]
                                       /\ w.sentPktSize[i] = t.sentPktSize[i]
<1> DEFINE S == Servers(f)
           sz == [i \in S |-> IF i \in Unsent(t) THEN t.dataSizeInWindow[i]
                              ELSE t.sentPktSize[i]]
           sl == [i \in S |-> IF i \in Unsent(t) THEN SW_SENT ELSE t.dataSizeInWindow[i]]
<1>1. /\ t.pfsFileID = f /\ DOMAIN t.sentPktSize = S /\ DOMAIN t.dataSizeInWindow = S
      /\ \A i \in S : t.sentPktSize[i] \in Nat /\ t.dataSizeInWindow[i] \in Slots
  BY TraceTypes
<1>2. Unsent(t) = {i \in S : t.dataSizeInWindow[i] > 0}
  BY UnsentFacts
<1>3. sz \in [S -> Nat] /\ sl \in [S -> Slots]
  BY <1>1, <1>2 DEF Slots, SW_SENT, SW_RECEIVED
<1>4. w = [t EXCEPT !.sentPktSize = sz, !.dataSizeInWindow = sl]
  BY <1>1 DEF AllSent
<1>5. \A i \in S : sl[i] = (IF i \in Unsent(t) THEN SW_SENT ELSE t.dataSizeInWindow[i])
                   /\ sz[i] = (IF i \in Unsent(t) THEN t.dataSizeInWindow[i]
                               ELSE t.sentPktSize[i])
  OBVIOUS
<1> HIDE DEF S, sz, sl
<1>6. w \in TracesOn(f)
  BY <1>3, <1>4 DEF TracesOn, S
<1>7. /\ w.ID = t.ID /\ w.pfsFileID = t.pfsFileID /\ w.offset = t.offset
      /\ w.read = t.read /\ w.hasLayout = t.hasLayout
      /\ w.offset_start_server = t.offset_start_server
      /\ w.offset_start_position = t.offset_start_position
  BY <1>4 DEF TracesOn
<1>8. /\ w.dsoffsets = t.dsoffsets /\ w.unProcessedSize = t.unProcessedSize
      /\ w.dataSizeInWindow = sl /\ w.sentPktSize = sz
  BY <1>4 DEF TracesOn
<1>9. Unsent(w) = {}
  <2>1. Unsent(w) = {i \in S : sl[i] > 0}
    BY <1>6, <1>8, UnsentFacts DEF S
  <2>2. \A i \in S : ~(sl[i] > 0)
    <3>1. ASSUME NEW i \in S PROVE ~(sl[i] > 0)
      <4>1. CASE i \in Unsent(t)
        BY <1>5, <4>1 DEF SW_SENT
      <4>2. CASE i \notin Unsent(t)
        BY <1>2, <1>5, <4>2
      <4>3. QED
        BY <4>1, <4>2
    <3>2. QED
      BY <3>1
  <2>3. QED
    BY <2>1, <2>2
<1>10. QED
  BY <1>5, <1>6, <1>7, <1>8, <1>9 DEF WellBegun, SameStart, S

\* An answer of server i.
LEMMA ReceivedFacts ==
  ASSUME NEW f \in Files, NEW t \in TracesOn(f), NEW i \in Servers(f),
         NEW w, w = Received(t, i)
  PROVE  /\ w \in TracesOn(f) /\ SameStart(w, t) /\ (WellBegun(t) => WellBegun(w))
         /\ w.unProcessedSize = t.unProcessedSize /\ w.sentPktSize = t.sentPktSize
         /\ w.dataSizeInWindow[i] = SW_RECEIVED
         /\ w.dsoffsets[i] = t.dsoffsets[i] + t.sentPktSize[i]
         /\ \A j \in Servers(f) \ {i} : /\ w.dataSizeInWindow[j] = t.dataSizeInWindow[j]
                                        /\ w.dsoffsets[j] = t.dsoffsets[j]
<1> DEFINE S == Servers(f)
           sl == [t.dataSizeInWindow EXCEPT ![i] = SW_RECEIVED]
           ds == [t.dsoffsets EXCEPT ![i] = t.dsoffsets[i] + t.sentPktSize[i]]
<1>1. sl \in [S -> Slots] /\ ds \in [S -> Nat]
  <2>1. t.dataSizeInWindow \in [S -> Slots] /\ t.dsoffsets \in [S -> Nat]
        /\ t.dsoffsets[i] + t.sentPktSize[i] \in Nat /\ SW_RECEIVED \in Slots
    BY TraceTypes DEF Slots
  <2>2. QED
    BY <2>1
<1>2. /\ sl[i] = SW_RECEIVED /\ ds[i] = t.dsoffsets[i] + t.sentPktSize[i]
      /\ \A j \in S \ {i} : sl[j] = t.dataSizeInWindow[j] /\ ds[j] = t.dsoffsets[j]
  BY TraceTypes
<1>3. w = [t EXCEPT !.dataSizeInWindow = sl, !.dsoffsets = ds]
  BY DEF TracesOn, Received
<1> HIDE DEF S, sl, ds
<1>4. w \in TracesOn(f)
  BY <1>1, <1>3 DEF TracesOn, S
<1>5. /\ w.ID = t.ID /\ w.pfsFileID = t.pfsFileID /\ w.offset = t.offset
      /\ w.read = t.read /\ w.hasLayout = t.hasLayout
      /\ w.offset_start_server = t.offset_start_server
      /\ w.offset_start_position = t.offset_start_position
  BY <1>3 DEF TracesOn
<1>6. /\ w.unProcessedSize = t.unProcessedSize /\ w.sentPktSize = t.sentPktSize
      /\ w.dataSizeInWindow = sl /\ w.dsoffsets = ds
  BY <1>3 DEF TracesOn
<1>7. QED
  BY <1>2, <1>4, <1>5, <1>6 DEF WellBegun, SameStart, S

\* A trace when its next packets are taken: as it is, or with its next window.
LEMMA NextPacketsFacts ==
  ASSUME NEW f \in Files, NEW t \in TracesOn(f), WellBegun(t),
         NEW w, w = AtNextPackets(t)
  PROVE  /\ w \in TracesOn(f) /\ WellBegun(w) /\ SameStart(w, t)
         /\ w.dsoffsets = t.dsoffsets /\ w.sentPktSize = t.sentPktSize
         /\ \/ w = t
            \/ /\ t.unProcessedSize # 0
               /\ WindowBytes(t) \in 1 .. MaxWindowSize
               /\ w.unProcessedSize = t.unProcessedSize - WindowBytes(t)
               /\ w.unProcessedSize # 0 => WindowBytes(t) = MaxWindowSize
               /\ \A i \in Servers(f) : /\ t.dataSizeInWindow[i] \in {SW_NULL, SW_RECEIVED}
                                        /\ w.dataSizeInWindow[i] \in Nat
               /\ \A b \in Nat : BeginsAt(t, b) =>
                    \A i \in Servers(f) :
                      w.dataSizeInWindow[i] = Low(f, i, b + WindowBytes(t)) - Low(f, i, b)
<1>1. CASE w = t
  BY <1>1 DEF SameStart
<1>2. CASE w # t
  <2>1. w = OpenNewWindow(t) /\ Unsent(t) = {} /\ AwaitedFrom(t) = {}
    BY <1>2 DEF AtNextPackets
  <2>2. t.unProcessedSize # 0
    BY <1>2, <2>1, OpenNewWindowFacts
  <2>3. ASSUME NEW i \in Servers(f)
        PROVE  t.dataSizeInWindow[i] \in {SW_NULL, SW_RECEIVED}
    <3>1. ~(t.dataSizeInWindow[i] > 0) /\ t.dataSizeInWindow[i] # SW_SENT
      BY <2>1, UnsentFacts
    <3>2. t.dataSizeInWindow[i] \in Slots
      BY TraceTypes
    <3>3. QED
      BY <3>1, <3>2 DEF Slots, SW_NULL, SW_RECEIVED, SW_SENT
  <2>4. QED
    BY <2>1, <2>2, <2>3, OpenNewWindowFacts
<1>3. QED
  BY <1>1, <1>2

-----------------------------------------------------------------------------
(* The packets of a trace. *)

\* The function RequestIDs(n) is defined by.
IDs(n) == CHOOSE ids : ids = [k \in 1 .. n + 1 |->
                                IF k = 1 THEN requestID ELSE NextRequestID(ids[k-1])]

\* It satisfies its definition.
LEMMA RequestIDsDef ==
  ASSUME NEW n \in Nat
  PROVE  RequestIDs(n) = [k \in 1 .. n + 1 |->
           IF k = 1 THEN requestID ELSE NextRequestID(RequestIDs(n)[k-1])]
<1> DEFINE Good(r, m) == r = [k \in 1 .. m + 1 |->
                                IF k = 1 THEN requestID ELSE NextRequestID(r[k-1])]
           Bad == {m \in Nat : ~\E r : Good(r, m)}
<1>1. ASSUME Bad = {} PROVE \E r : Good(r, n)
  BY <1>1
<1>2. ASSUME Bad # {} PROVE FALSE
  <2>1. PICK m \in Bad : \A j \in Bad : m <= j
    BY <1>2, LeastNat
  <2>2. m # 0
    <3> DEFINE r == [k \in 1 .. 0 + 1 |-> requestID]
    <3>1. \A k \in 1 .. 0 + 1 : requestID = IF k = 1 THEN requestID ELSE NextRequestID(r[k-1])
      OBVIOUS
    <3>2. r = [k \in 1 .. 0 + 1 |-> IF k = 1 THEN requestID ELSE NextRequestID(r[k-1])]
      BY <3>1, Zenon
    <3>3. QED
      BY <3>2
  <2>3. m - 1 \in Nat /\ m \in Nat /\ (m - 1) + 1 = m /\ ~(m <= m - 1)
    BY <2>2
  <2> HIDE DEF Good
  <2>4. PICK r : Good(r, m - 1)
    <3>1. m - 1 \notin Bad
      BY <2>1, <2>3
    <3>2. QED
      BY <2>3, <3>1
  <2> USE DEF Good
  <2>5. r = [k \in 1 .. m |-> IF k = 1 THEN requestID ELSE NextRequestID(r[k-1])]
    BY <2>3, <2>4
  <2> DEFINE s == [k \in 1 .. m + 1 |-> IF k = m + 1 THEN NextRequestID(r[m]) ELSE r[k]]
  <2>6. ASSUME NEW k \in 1 .. m + 1
        PROVE  s[k] = IF k = 1 THEN requestID ELSE NextRequestID(s[k-1])
    <3>1. CASE k = 1
      <4>1. 1 \in 1 .. m /\ 1 # m + 1
        BY <2>2, <2>3
      <4>2. QED
        BY <2>5, <3>1, <4>1
    <3>2. CASE k # 1
      <4>1. k - 1 \in 1 .. m /\ k - 1 \in 1 .. m + 1 /\ k - 1 # m + 1
        BY <2>3, <3>2
      <4>2. s[k-1] = r[k-1]
        BY <4>1
      <4>3. CASE k = m + 1
        <5>1. k - 1 = m
          BY <2>3, <4>3
        <5>2. QED
          BY <3>2, <4>2, <4>3, <5>1
      <4>4. CASE k # m + 1
        <5>1. k \in 1 .. m
          BY <2>3, <4>4
        <5>2. r[k] = NextRequestID(r[k-1])
          BY <2>5, <3>2, <5>1
        <5>3. QED
          BY <3>2, <4>2, <4>4, <5>2
      <4>5. QED
        BY <4>3, <4>4
    <3>3. QED
      BY <3>1, <3>2
  <2> HIDE DEF Good
  <2>7. Good(s, m)
    <3>1. s = [k \in 1 .. m + 1 |-> s[k]]
      BY Zenon
    <3> HIDE DEF s
    <3>2. s = [k \in 1 .. m + 1 |-> IF k = 1 THEN requestID ELSE NextRequestID(s[k-1])]
      BY <2>6, <3>1, Zenon
    <3>3. QED
      BY <3>2 DEF Good
  <2>8. QED
    BY <2>1, <2>7
<1>3. \E r : r = [k \in 1 .. n + 1 |->
                    IF k = 1 THEN requestID ELSE NextRequestID(r[k-1])]
  BY <1>1, <1>2
<1>4. RequestIDs(n) = IDs(n)
  BY Zenon DEF RequestIDs, IDs
<1>5. IDs(n) = [k \in 1 .. n + 1 |->
                  IF k = 1 THEN requestID ELSE NextRequestID(IDs(n)[k-1])]
  BY <1>3, Zenon DEF IDs
<1>6. QED
  BY <1>4, <1>5

\* The identifiers are natural numbers.
LEMMA RequestIDsType ==
  ASSUME requestID \in Nat, NEW n \in Nat
  PROVE  \A k \in 1 .. n + 1 : RequestIDs(n)[k] \in Nat
<1> DEFINE ids == RequestIDs(n)
           Bad == {k \in 1 .. n + 1 : ids[k] \notin Nat}
<1>1. ids = [k \in 1 .. n + 1 |-> IF k = 1 THEN requestID ELSE NextRequestID(ids[k-1])]
  BY RequestIDsDef
<1> HIDE DEF ids
<1>2. \A id \in Nat : NextRequestID(id) \in Nat
  BY PVFS2ClientAssumption DEF NextRequestID
<1>3. ASSUME Bad # {} PROVE FALSE
  <2>1. PICK k \in Bad : \A m \in Bad : k <= m
    <3>1. Bad \subseteq Nat
      OBVIOUS
    <3> HIDE DEF Bad
    <3>2. QED
      BY <1>3, <3>1, LeastNat
  <2>2. CASE k = 1
    <3>1. ids[k] = requestID
      BY <1>1, <2>1, <2>2
    <3>2. QED
      BY <2>1, <3>1
  <2>3. CASE k # 1
    <3>1. k - 1 \in 1 .. n + 1 /\ ~(k <= k - 1)
      BY <2>1, <2>3
    <3>2. ids[k-1] \in Nat
      BY <2>1, <3>1
    <3>3. ids[k] = NextRequestID(ids[k-1])
      BY <1>1, <2>1, <2>3
    <3>4. QED
      BY <1>2, <2>1, <3>2, <3>3
  <2>4. QED
    BY <2>2, <2>3
<1>4. QED
  BY <1>3 DEF ids

\* The place of i among the servers that a window goes to.
Rank(t, i) == Cardinality({j \in Unsent(t) : j <= i})

\* It is one of the first places, and no two have the same.
LEMMA RankFacts ==
  ASSUME NEW f \in Files, NEW t \in TracesOn(f), NEW i \in Unsent(t)
  PROVE  /\ Rank(t, i) \in 1 .. Cardinality(Unsent(t))
         /\ \A j \in Unsent(t) : Rank(t, j) = Rank(t, i) => i = j
<1> DEFINE Upto(k) == {j \in Unsent(t) : j <= k}
<1>1. IsFiniteSet(Unsent(t)) /\ Unsent(t) \subseteq Nat
  BY UnsentFacts
<1>2. ASSUME NEW k \in Unsent(t)
      PROVE  /\ Upto(k) \subseteq Unsent(t) /\ k \in Upto(k)
             /\ IsFiniteSet(Upto(k)) /\ Cardinality(Upto(k)) \in Nat
             /\ Cardinality(Upto(k)) <= Cardinality(Unsent(t))
             /\ Cardinality(Upto(k)) # 0
  <2>1. Upto(k) \subseteq Unsent(t) /\ k \in Upto(k)
    BY <1>1
  <2> HIDE DEF Upto
  <2>2. IsFiniteSet(Upto(k)) /\ Cardinality(Upto(k)) <= Cardinality(Unsent(t))
    BY <1>1, <2>1, FS_Subset
  <2>3. Cardinality(Upto(k)) \in Nat /\ Cardinality(Upto(k)) # 0
    BY <2>1, <2>2, FS_CardinalityType, FS_EmptySet
  <2>4. QED
    BY <2>1, <2>2, <2>3
<1>3. Cardinality(Unsent(t)) \in Nat
  BY UnsentFacts
<1>4. \A k : Rank(t, k) = Cardinality(Upto(k))
  BY DEF Rank
<1>5. ASSUME NEW j \in Unsent(t), NEW k \in Unsent(t), j <= k, Rank(t, j) = Rank(t, k)
      PROVE  j = k
  <2>1. Upto(j) \subseteq Upto(k)
    BY <1>1, <1>5
  <2>2. k \in Upto(j) => k = j
    BY <1>1, <1>5
  <2>3. IsFiniteSet(Upto(k)) /\ k \in Upto(k)
    BY <1>2
  <2> HIDE DEF Upto
  <2>4. Upto(j) = Upto(k)
    BY <1>4, <1>5, <2>1, <2>3, FS_Subset
  <2>5. QED
    BY <2>2, <2>3, <2>4
<1>6. \A j \in Unsent(t) : j <= i \/ i <= j
  BY <1>1
<1>7. Rank(t, i) \in 1 .. Cardinality(Unsent(t))
  <2>1. Rank(t, i) = Cardinality(Upto(i))
    BY <1>4
  <2> HIDE DEF Upto
  <2>2. QED
    BY <1>2, <1>3, <2>1
<1>8. QED
  BY <1>5, <1>6, <1>7

\* The traces.
TraceSet == UNION {TracesOn(f) : f \in Files}

\* A trace is one on its file.
LEMMA TraceSetFacts ==
  ASSUME NEW t \in TraceSet
  PROVE  t.pfsFileID \in Files /\ t \in TracesOn(t.pfsFileID)
<1>1. PICK f \in Files : t \in TracesOn(f)
  BY DEF TraceSet
<1>2. t.pfsFileID = f
  BY <1>1, TraceTypes
<1>3. QED
  BY <1>1, <1>2

\* The identifier of the packet for server i.
IdFor(t, i) == RequestIDs(Cardinality(Unsent(t)))[Rank(t, i)]

\* What is sent of a trace.
PacketsOf(t) == {PacketFor(t, i, IdFor(t, i)) : i \in Unsent(t)}

\* The first trace on the file sends the packets of its window, if there is one.
LEMMA GenerateFacts ==
  ASSUME NEW ts \in Seq(TraceSet), NEW f, NEW pk, GenerateDataPacketRequests(ts, f, pk)
  PROVE  \/ /\ \A k \in DOMAIN ts : ts[k].pfsFileID # f
            /\ traces' = ts /\ net' = pk /\ requestID' = requestID /\ aborted' = aborted
         \/ \E k \in DOMAIN ts : \E t \in {AtNextPackets(ts[k])} :
              /\ ts[k].pfsFileID = f
              /\ traces' = [ts EXCEPT ![k] = AllSent(t)]
              /\ net' = pk \cup PacketsOf(t)
              /\ requestID' = RequestIDs(Cardinality(Unsent(t)))[Cardinality(Unsent(t)) + 1]
              /\ aborted' = (aborted \/ ~t.hasLayout)
<1> DEFINE k == FirstOnFile(ts, f)
           I == {i \in 1 .. Len(ts) : ts[i].pfsFileID = f}
<1>1. k = IF I # {} THEN Min(I) ELSE 0
  BY DEF FirstOnFile, SelectInSeq
<1>2. \/ k = 0 /\ I = {}
      \/ k \in I
  <2>1. Len(ts) \in Nat /\ I \in SUBSET (1 .. Len(ts))
    OBVIOUS
  <2> HIDE DEF I, k
  <2>2. QED
    BY <1>1, <2>1, FirstOfKind
<1>3. DOMAIN ts = 1 .. Len(ts)
  OBVIOUS
<1>4. CASE k = 0 /\ I = {}
  <2>1. \A j \in DOMAIN ts : ts[j].pfsFileID # f
    BY <1>3, <1>4
  <2>2. traces' = ts /\ net' = pk /\ requestID' = requestID /\ aborted' = aborted
    BY <1>4, Zenon DEF GenerateDataPacketRequests
  <2>3. QED
    BY <2>1, <2>2
<1>5. CASE k \in I
  <2>1. k \in DOMAIN ts /\ ts[k].pfsFileID = f /\ k # 0
    BY <1>3, <1>5
  <2> DEFINE t == AtNextPackets(ts[k])
  <2>2. /\ traces' = [ts EXCEPT ![k] = AllSent(t)]
        /\ net' = pk \cup {PacketFor(t, i, IdFor(t, i)) : i \in Unsent(t)}
        /\ requestID' = RequestIDs(Cardinality(Unsent(t)))[Cardinality(Unsent(t)) + 1]
        /\ aborted' = (aborted \/ ~t.hasLayout)
    <3>1. /\ traces' = [ts EXCEPT ![k] = AllSent(t)]
          /\ net' = pk \cup {PacketFor(t, i, RequestIDs(Cardinality(Unsent(t)))[Rank(t, i)]) :
                                i \in Unsent(t)}
          /\ requestID' = RequestIDs(Cardinality(Unsent(t)))[Cardinality(Unsent(t)) + 1]
          /\ aborted' = (aborted \/ ~t.hasLayout)
      <4>1. \E t1 \in {AtNextPackets(ts[k])} :
             /\ traces' = [ts EXCEPT ![k] = AllSent(t1)]
             /\ net' = pk \cup {PacketFor(t1, i, RequestIDs(Cardinality(Unsent(t1)))[Rank(t1, i)]) :
                                  i \in Unsent(t1)}
             /\ requestID' = RequestIDs(Cardinality(Unsent(t1)))[Cardinality(Unsent(t1)) + 1]
             /\ aborted' = (aborted \/ ~t1.hasLayout)
        <5>1. k # 0 /\ FirstOnFile(ts, f) = k
          BY <2>1
        <5> HIDE DEF k, I
        <5>2. \E u \in {ts} : \E t1 \in {AtNextPackets(u[k])} :
                /\ traces' = [u EXCEPT ![k] = AllSent(t1)]
                /\ net' = pk \cup {PacketFor(t1, i, RequestIDs(Cardinality(Unsent(t1)))[
                                         Cardinality({j \in Unsent(t1) : j <= i})]) :
                                     i \in Unsent(t1)}
                /\ requestID' = RequestIDs(Cardinality(Unsent(t1)))[Cardinality(Unsent(t1)) + 1]
                /\ aborted' = (aborted \/ ~t1.hasLayout)
          BY SMTT(20), <5>1 DEF GenerateDataPacketRequests
        <5>3. QED
          BY <5>2 DEF Rank
      <4>2. QED
        BY <4>1, Zenon
    <3>2. QED
      BY <3>1, Zenon DEF IdFor
  <2>3. QED
    BY <2>1, <2>2 DEF PacketsOf
<1>6. QED
  BY <1>2, <1>4, <1>5

-----------------------------------------------------------------------------
(* Traces and packets: every packet belongs to a slot that waits for an answer, and of each *)
(* such slot there is one packet whose turn it is.                                         *)

LayoutKinds == {"LAYOUT_REQ", "LAYOUT_RESP"}
\* The packets whose turn it is in their exchange, and those that go before the last.
Turns       == {"PFS_R_REQ", "PFS_R_DATA_LAST",
                "PFS_W_REQ", "PFS_W_RESP", "PFS_W_DATA_LAST", "PFS_W_FIN"}
DataKinds   == Turns \cup {"PFS_R_DATA", "PFS_W_DATA"}

LayoutPackets == [kind : LayoutKinds, fileId : Files]
DataRecords   == [kind : DataKinds, id : Nat, SubID : Nat, fileId : Files, server : Nat,
                  lowoffset : Nat, size : Nat \ {0}, totalsubreqs : Nat]
Packets       == LayoutPackets \cup DataRecords

\* The packets of the exchange of request r with server i.
Exchange(pk, r, i) == {m \in pk : m.kind \in DataKinds /\ m.SubID = r /\ m.server = i}

\* Packet n of an exchange goes before packet m.
GoesBefore(n, m) ==
  \/ n.kind = "PFS_R_DATA" /\ m.kind = "PFS_R_DATA_LAST"
  \/ n.kind = "PFS_W_DATA" /\ m.kind = "PFS_W_DATA_LAST" /\ n.id < m.id

\* The packets of an exchange: one whose turn it is, and those before it.
OneTurn(X) == \E m \in X : /\ m.kind \in Turns
                           /\ \A n \in X \ {m} : GoesBefore(n, m)

\* The slot that packet m is of waits for an answer.
AwaitedBy(t, m) ==
  /\ t.ID = m.SubID /\ t.pfsFileID = m.fileId /\ m.server \in Servers(t.pfsFileID)
  /\ t.dataSizeInWindow[m.server] = SW_SENT

\* Traces of different requests, and packets.
Lists(ts, pk) ==
  /\ ts \in Seq(TraceSet) /\ pk \subseteq Packets
  /\ \A k \in DOMAIN ts : WellBegun(ts[k])
  /\ \A j, k \in DOMAIN ts : ts[j].ID = ts[k].ID => j = k

\* Every packet belongs to a slot that waits for an answer.
Placed(ts, pk) ==
  \A m \in pk : m.kind \in DataKinds => \E k \in DOMAIN ts : AwaitedBy(ts[k], m)

\* Every slot that waits for an answer has the packets of its exchange.
Answering(ts, pk) ==
  \A k \in DOMAIN ts : \A i \in Servers(ts[k].pfsFileID) :
    ts[k].dataSizeInWindow[i] = SW_SENT => OneTurn(Exchange(pk, ts[k].ID, i))

Matched(ts, pk) == Lists(ts, pk) /\ Placed(ts, pk) /\ Answering(ts, pk)

\* Who packets may be.
LEMMA PacketTypes ==
  ASSUME NEW m \in Packets
  PROVE  /\ m.kind \in LayoutKinds \cup DataKinds
         /\ m.kind \in DataKinds => m \in DataRecords
         /\ m.kind \in LayoutKinds => m \in LayoutPackets /\ m.fileId \in Files
         /\ m.kind \in DataKinds <=> m.kind \notin LayoutKinds
         /\ m \in DataRecords =>
              /\ m.id \in Nat /\ m.SubID \in Nat /\ m.fileId \in Files /\ m.server \in Nat
              /\ m.lowoffset \in Nat /\ m.size \in Nat \ {0} /\ m.totalsubreqs \in Nat
              /\ m.kind \in DataKinds
<1>1. LayoutKinds \cap DataKinds = {}
  BY DEF LayoutKinds, DataKinds, Turns
<1> HIDE DEF LayoutKinds, DataKinds
<1>2. QED
  BY <1>1 DEF Packets, LayoutPackets, DataRecords

\* A packet of a trace.
LEMMA PacketForFacts ==
  ASSUME NEW f \in Files, NEW t \in TracesOn(f), NEW i \in Unsent(t), NEW id \in Nat,
         NEW m, m = PacketFor(t, i, id)
  PROVE  /\ m \in DataRecords
         /\ m.kind = IF t.read THEN "PFS_R_REQ" ELSE "PFS_W_REQ"
         /\ m.id = id /\ m.SubID = t.ID /\ m.fileId = f /\ m.server = i
         /\ m.lowoffset = t.dsoffsets[i] /\ m.size = t.dataSizeInWindow[i]
<1>1. i \in Servers(f) /\ t.dataSizeInWindow[i] > 0
  BY UnsentFacts
<1>2. /\ t.pfsFileID = f /\ t.ID \in Nat /\ t.dsoffsets[i] \in Nat /\ i \in Nat
      /\ t.dataSizeInWindow[i] \in Slots /\ t.totalSubreqsInWindow \in Nat
  BY <1>1, TraceTypes, StripeFacts
<1>3. t.dataSizeInWindow[i] \in Nat \ {0}
  BY <1>1, <1>2 DEF Slots, SW_SENT, SW_RECEIVED
<1>4. m = [kind |-> IF t.read THEN "PFS_R_REQ" ELSE "PFS_W_REQ", id |-> id, SubID |-> t.ID,
           fileId |-> t.pfsFileID, server |-> i, lowoffset |-> t.dsoffsets[i],
           size |-> t.dataSizeInWindow[i], totalsubreqs |-> t.totalSubreqsInWindow]
  BY DEF PacketFor, RequestOf
<1>5. (IF t.read THEN "PFS_R_REQ" ELSE "PFS_W_REQ") \in DataKinds
  BY DEF DataKinds, Turns
<1> HIDE DEF DataKinds
<1>6. m \in DataRecords
  BY <1>2, <1>3, <1>4, <1>5 DEF DataRecords
<1>7. QED
  BY <1>2, <1>4, <1>6

\* The packets of a trace are one to each server.
LEMMA PacketsOfFacts ==
  ASSUME NEW f \in Files, NEW t \in TracesOn(f), requestID \in Nat
  PROVE  /\ \A i \in Unsent(t) : IdFor(t, i) \in Nat
         /\ \A m \in PacketsOf(t) :
              /\ m \in DataRecords /\ m.server \in Unsent(t)
              /\ m = PacketFor(t, m.server, IdFor(t, m.server))
              /\ m.id = IdFor(t, m.server)
              /\ m.kind = IF t.read THEN "PFS_R_REQ" ELSE "PFS_W_REQ"
              /\ m.SubID = t.ID /\ m.fileId = f
              /\ m.lowoffset = t.dsoffsets[m.server]
              /\ m.size = t.dataSizeInWindow[m.server]
         /\ \A i \in Unsent(t) : \E m \in PacketsOf(t) : m.server = i
         /\ \A m, n \in PacketsOf(t) : m.server = n.server => m = n
<1>1. ASSUME NEW i \in Unsent(t)
      PROVE  IdFor(t, i) \in Nat
  <2>1. Rank(t, i) \in 1 .. Cardinality(Unsent(t)) /\ Cardinality(Unsent(t)) \in Nat
    BY RankFacts, UnsentFacts
  <2>2. Rank(t, i) \in 1 .. Cardinality(Unsent(t)) + 1
    BY <2>1
  <2>3. QED
    BY <2>1, <2>2, RequestIDsType DEF IdFor
<1>2. ASSUME NEW i \in Unsent(t), NEW m, m = PacketFor(t, i, IdFor(t, i))
      PROVE  /\ m \in DataRecords /\ m.server = i
             /\ m.kind = IF t.read THEN "PFS_R_REQ" ELSE "PFS_W_REQ"
             /\ m.id = IdFor(t, i) /\ m.SubID = t.ID /\ m.fileId = f
             /\ m.lowoffset = t.dsoffsets[i] /\ m.size = t.dataSizeInWindow[i]
  BY <1>1, <1>2, PacketForFacts
<1>3. ASSUME NEW m \in PacketsOf(t)
      PROVE  \E i \in Unsent(t) : m = PacketFor(t, i, IdFor(t, i))
  BY DEF PacketsOf
<1>4. ASSUME NEW i \in Unsent(t)
      PROVE  PacketFor(t, i, IdFor(t, i)) \in PacketsOf(t)
  BY DEF PacketsOf
<1>5. QED
  BY <1>1, <1>2, <1>3, <1>4

\* The packets of an exchange, when packets are added or taken away.
LEMMA ExchangeFacts ==
  ASSUME NEW pk, NEW r, NEW i
  PROVE  /\ \A P : Exchange(pk \cup P, r, i) = Exchange(pk, r, i) \cup Exchange(P, r, i)
         /\ \A m : Exchange(pk \ {m}, r, i) = Exchange(pk, r, i) \ {m}
BY DEF Exchange

\* A trace of a list and its file.
LEMMA TraceOf ==
  ASSUME NEW ts \in Seq(TraceSet), NEW k \in DOMAIN ts
  PROVE  /\ ts[k] \in TraceSet /\ ts[k].pfsFileID \in Files
         /\ ts[k] \in TracesOn(ts[k].pfsFileID)
<1>1. ts[k] \in TraceSet
  OBVIOUS
<1>2. QED
  BY <1>1, TraceSetFacts

\* A list with another trace at k.
LEMMA TraceChanged ==
  ASSUME NEW ts \in Seq(TraceSet), NEW k \in DOMAIN ts, NEW w \in TraceSet,
         NEW us, us = [ts EXCEPT ![k] = w]
  PROVE  /\ us \in Seq(TraceSet) /\ DOMAIN us = DOMAIN ts /\ us[k] = w
         /\ \A j \in DOMAIN ts : j # k => us[j] = ts[j]
         /\ (w.ID = ts[k].ID /\ \A i, j \in DOMAIN ts : ts[i].ID = ts[j].ID => i = j)
              => \A i, j \in DOMAIN us : us[i].ID = us[j].ID => i = j
         /\ ((\A j \in DOMAIN ts : WellBegun(ts[j])) /\ WellBegun(w))
              => \A j \in DOMAIN us : WellBegun(us[j])
<1>1. /\ us \in Seq(TraceSet) /\ DOMAIN us = DOMAIN ts /\ us[k] = w
      /\ \A j \in DOMAIN ts : j # k => us[j] = ts[j]
  OBVIOUS
<1>2. QED
  BY <1>1

\* When a trace sends its window, its packets match its slots.
LEMMA SendKeeps ==
  ASSUME NEW ts, NEW pk, Matched(ts, pk), NEW k \in DOMAIN ts, requestID \in Nat,
         NEW t, t = AtNextPackets(ts[k]),
         NEW us, us = [ts EXCEPT ![k] = AllSent(t)]
  PROVE  Matched(us, pk \cup PacketsOf(t))
<1> DEFINE f == ts[k].pfsFileID
           w == AllSent(t)
           P == PacketsOf(t)
           r == ts[k].ID
<1> USE DEF Matched
<1>1. ts \in Seq(TraceSet) /\ pk \subseteq Packets /\ WellBegun(ts[k])
  BY DEF Lists
<1>2. f \in Files /\ ts[k] \in TracesOn(f)
  BY <1>1, TraceOf
<1>3. /\ t \in TracesOn(f) /\ WellBegun(t) /\ SameStart(t, ts[k])
      /\ \/ t = ts[k]
         \/ \A i \in Servers(f) : /\ ts[k].dataSizeInWindow[i] \in {SW_NULL, SW_RECEIVED}
                                  /\ t.dataSizeInWindow[i] \in Nat
  BY <1>1, <1>2, NextPacketsFacts
<1>4. /\ w \in TracesOn(f) /\ SameStart(w, t) /\ WellBegun(w)
      /\ \A i \in Servers(f) :
           /\ i \in Unsent(t) => w.dataSizeInWindow[i] = SW_SENT
           /\ i \notin Unsent(t) => w.dataSizeInWindow[i] = t.dataSizeInWindow[i]
  BY <1>2, <1>3, AllSentFacts
<1>5. /\ w.ID = r /\ w.pfsFileID = f /\ t.ID = r
      /\ Unsent(t) = {i \in Servers(f) : t.dataSizeInWindow[i] > 0}
  BY <1>2, <1>3, <1>4, UnsentFacts DEF SameStart
<1>6. w \in TraceSet
  BY <1>2, <1>4 DEF TraceSet
<1> HIDE DEF w, P, f, r
<1>7. /\ us \in Seq(TraceSet) /\ DOMAIN us = DOMAIN ts /\ us[k] = w
      /\ \A j \in DOMAIN ts : j # k => us[j] = ts[j]
      /\ \A i, j \in DOMAIN us : us[i].ID = us[j].ID => i = j
      /\ \A j \in DOMAIN us : WellBegun(us[j])
  <2>1. us = [ts EXCEPT ![k] = w]
    BY DEF w
  <2>2. /\ \A i, j \in DOMAIN ts : ts[i].ID = ts[j].ID => i = j
        /\ \A j \in DOMAIN ts : WellBegun(ts[j])
    BY DEF Lists
  <2>3. w.ID = ts[k].ID
    BY <1>5 DEF r
  <2>4. QED
    BY <1>1, <1>4, <1>6, <2>1, <2>2, <2>3, TraceChanged
<1>8. /\ \A m \in P : /\ m \in DataRecords /\ m.server \in Unsent(t)
                      /\ m.kind \in {"PFS_R_REQ", "PFS_W_REQ"}
                      /\ m.SubID = r /\ m.fileId = f
      /\ \A i \in Unsent(t) : \E m \in P : m.server = i
      /\ \A m, n \in P : m.server = n.server => m = n
  BY <1>2, <1>3, <1>5, PacketsOfFacts DEF P
<1>9. ASSUME NEW i \in Servers(f)
      PROVE  /\ ts[k].dataSizeInWindow[i] = SW_SENT => i \notin Unsent(t)
             /\ i \notin Unsent(t) => (w.dataSizeInWindow[i] = SW_SENT
                                         <=> ts[k].dataSizeInWindow[i] = SW_SENT)
  BY <1>3, <1>4, <1>5 DEF SW_SENT, SW_NULL, SW_RECEIVED
<1>10. Lists(us, pk \cup P)
  <2>1. pk \cup P \subseteq Packets
    BY <1>1, <1>8 DEF Packets
  <2>2. QED
    BY <1>7, <2>1 DEF Lists
<1>11. Placed(us, pk \cup P)
  <2> SUFFICES ASSUME NEW m \in pk \cup P, m.kind \in DataKinds
               PROVE  \E j \in DOMAIN us : AwaitedBy(us[j], m)
    BY DEF Placed
  <2>1. CASE m \in P
    <3>1. m.server \in Unsent(t) /\ m.server \in Servers(f)
      BY <1>5, <1>8, <2>1
    <3>2. AwaitedBy(w, m)
      BY <1>4, <1>5, <1>8, <2>1, <3>1 DEF AwaitedBy
    <3>3. QED
      BY <1>7, <3>2
  <2>2. CASE m \in pk
    <3>1. PICK j \in DOMAIN ts : AwaitedBy(ts[j], m)
      BY <2>2 DEF Placed
    <3>2. CASE j # k
      BY <1>7, <3>1, <3>2
    <3>3. CASE j = k
      <4>1. /\ m.SubID = r /\ m.fileId = f /\ m.server \in Servers(f)
            /\ ts[k].dataSizeInWindow[m.server] = SW_SENT
        BY <3>1, <3>3 DEF AwaitedBy, r, f
      <4>2. w.dataSizeInWindow[m.server] = SW_SENT
        BY <1>9, <4>1
      <4>3. AwaitedBy(w, m)
        BY <1>5, <4>1, <4>2 DEF AwaitedBy
      <4>4. QED
        BY <1>7, <4>3
    <3>4. QED
      BY <3>2, <3>3
  <2>3. QED
    BY <2>1, <2>2
<1>12. Answering(us, pk \cup P)
  <2> SUFFICES ASSUME NEW j \in DOMAIN us, NEW i \in Servers(us[j].pfsFileID),
                      us[j].dataSizeInWindow[i] = SW_SENT
               PROVE  OneTurn(Exchange(pk \cup P, us[j].ID, i))
    BY DEF Answering
  <2>1. Exchange(pk \cup P, us[j].ID, i)
          = Exchange(pk, us[j].ID, i) \cup Exchange(P, us[j].ID, i)
    BY ExchangeFacts
  <2>2. CASE j # k
    <3>1. us[j] = ts[j] /\ us[j].ID # r
      BY <1>5, <1>7, <2>2
    <3>2. Exchange(P, us[j].ID, i) = {}
      BY <1>8, <3>1 DEF Exchange
    <3>3. OneTurn(Exchange(pk, us[j].ID, i))
      BY <1>7, <3>1 DEF Answering
    <3>4. QED
      BY <2>1, <3>2, <3>3
  <2>3. CASE j = k
    <3>1. us[j].ID = r /\ us[j].pfsFileID = f /\ us[j] = w /\ i \in Servers(f)
      BY <1>5, <1>7, <2>3
    <3>2. CASE i \notin Unsent(t)
      <4>1. Exchange(P, r, i) = {}
        BY <1>8, <3>2 DEF Exchange
      <4>2. ts[k].dataSizeInWindow[i] = SW_SENT
        BY <1>9, <3>1, <3>2
      <4>3. OneTurn(Exchange(pk, r, i))
        BY <3>1, <4>2 DEF Answering, r, f
      <4>4. QED
        BY <2>1, <3>1, <4>1, <4>3
    <3>3. CASE i \in Unsent(t)
      <4>1. Exchange(pk, r, i) = {}
        <5> SUFFICES ASSUME NEW m \in pk, m.kind \in DataKinds, m.SubID = r, m.server = i
                     PROVE  FALSE
          BY DEF Exchange
        <5>1. PICK l \in DOMAIN ts : AwaitedBy(ts[l], m)
          BY DEF Placed
        <5>2. l = k
          BY <5>1 DEF AwaitedBy, Lists, r
        <5>3. ts[k].dataSizeInWindow[i] = SW_SENT
          BY <5>1, <5>2 DEF AwaitedBy
        <5>4. QED
          BY <1>9, <3>1, <3>3, <5>3
      <4>2. PICK m \in P : m.server = i
        BY <1>8, <3>3
      <4>3. m.kind \in DataKinds /\ m.kind \in Turns /\ m.SubID = r
        BY <1>8 DEF DataKinds, Turns
      <4>4. Exchange(P, r, i) = {m}
        BY <1>8, <4>2, <4>3 DEF Exchange
      <4>5. OneTurn({m})
        BY <4>3 DEF OneTurn
      <4>6. QED
        BY <2>1, <3>1, <4>1, <4>4, <4>5
    <3>4. QED
      BY <3>2, <3>3
  <2>4. QED
    BY <2>2, <2>3
<1>13. QED
  BY <1>10, <1>11, <1>12 DEF P

\* The packet whose turn it is.
LEMMA TurnFacts ==
  ASSUME NEW X, OneTurn(X), NEW m \in X
  PROVE  /\ m.kind \in {"PFS_R_REQ", "PFS_W_REQ", "PFS_W_RESP", "PFS_W_FIN"} => X = {m}
         /\ m.kind = "PFS_R_DATA_LAST" /\ (\A n \in X : n.kind # "PFS_R_DATA") => X = {m}
         /\ m.kind = "PFS_W_DATA_LAST" /\ (\A n \in X : n.kind = "PFS_W_DATA" => ~(n.id < m.id))
              => X = {m}
         /\ m.kind \in {"PFS_R_DATA", "PFS_W_DATA"} => OneTurn(X \ {m})
         /\ m.kind = "PFS_W_DATA_LAST" => \A n \in X \ {m} : n.kind = "PFS_W_DATA" /\ n.id < m.id
<1>1. PICK h \in X : h.kind \in Turns /\ \A n \in X \ {h} : GoesBefore(n, h)
  BY DEF OneTurn
<1>2. ASSUME NEW n \in X \ {h}
      PROVE  /\ n.kind \in {"PFS_R_DATA", "PFS_W_DATA"}
             /\ h.kind = "PFS_R_DATA_LAST" => n.kind = "PFS_R_DATA"
             /\ h.kind = "PFS_W_DATA_LAST" => n.kind = "PFS_W_DATA" /\ n.id < h.id
             /\ h.kind \in {"PFS_R_DATA_LAST", "PFS_W_DATA_LAST"}
  BY <1>1 DEF GoesBefore
<1>3. CASE m = h
  BY <1>1, <1>2, <1>3 DEF Turns
<1>4. CASE m # h
  <2>1. m.kind \in {"PFS_R_DATA", "PFS_W_DATA"}
    BY <1>2, <1>4
  <2>2. OneTurn(X \ {m})
    BY <1>1, <1>4 DEF OneTurn
  <2>3. QED
    BY <2>1, <2>2
<1>5. QED
  BY <1>3, <1>4

\* When a packet becomes others of the same exchange, one of them has its turn.
LEMMA ReplaceKeeps ==
  ASSUME NEW ts, NEW pk, Matched(ts, pk), NEW m \in pk, m.kind \in DataKinds,
         NEW P \in SUBSET DataRecords,
         \A n \in P : n.SubID = m.SubID /\ n.server = m.server /\ n.fileId = m.fileId,
         OneTurn((Exchange(pk, m.SubID, m.server) \ {m}) \cup P)
  PROVE  Matched(ts, (pk \ {m}) \cup P)
<1> USE DEF Matched
<1>1. Lists(ts, (pk \ {m}) \cup P)
  BY DEF Lists, Packets
<1>2. ASSUME NEW n \in P PROVE n.kind \in DataKinds
  <2>1. n \in Packets /\ n \in DataRecords
    BY DEF Packets
  <2>2. QED
    BY <2>1, PacketTypes
<1>3. Placed(ts, (pk \ {m}) \cup P)
  <2> SUFFICES ASSUME NEW n \in (pk \ {m}) \cup P, n.kind \in DataKinds
               PROVE  \E k \in DOMAIN ts : AwaitedBy(ts[k], n)
    BY DEF Placed
  <2>1. CASE n \in pk
    BY <2>1 DEF Placed
  <2>2. CASE n \in P
    <3>1. PICK k \in DOMAIN ts : AwaitedBy(ts[k], m)
      BY DEF Placed
    <3>2. AwaitedBy(ts[k], n)
      BY <2>2, <3>1 DEF AwaitedBy
    <3>3. QED
      BY <3>2
  <2>3. QED
    BY <2>1, <2>2
<1>4. Answering(ts, (pk \ {m}) \cup P)
  <2> SUFFICES ASSUME NEW k \in DOMAIN ts, NEW i \in Servers(ts[k].pfsFileID),
                      ts[k].dataSizeInWindow[i] = SW_SENT
               PROVE  OneTurn(Exchange((pk \ {m}) \cup P, ts[k].ID, i))
    BY DEF Answering
  <2> DEFINE r == ts[k].ID
  <2>1. Exchange((pk \ {m}) \cup P, r, i) = (Exchange(pk, r, i) \ {m}) \cup Exchange(P, r, i)
    BY DEF Exchange
  <2>2. CASE r = m.SubID /\ i = m.server
    <3>1. Exchange(P, r, i) = P
      BY <1>2, <2>2 DEF Exchange
    <3>2. QED
      BY <2>1, <2>2, <3>1
  <2>3. CASE ~(r = m.SubID /\ i = m.server)
    <3>1. Exchange(P, r, i) = {} /\ m \notin Exchange(pk, r, i)
      BY <2>3 DEF Exchange
    <3>2. OneTurn(Exchange(pk, r, i))
      BY DEF Answering
    <3>3. (Exchange(pk, r, i) \ {m}) \cup {} = Exchange(pk, r, i)
      BY <3>1
    <3>4. QED
      BY <2>1, <3>1, <3>2, <3>3
  <2>4. QED
    BY <2>2, <2>3
<1>5. QED
  BY <1>1, <1>3, <1>4

\* The packets of the metadata server do not matter.
LEMMA LayoutPacketsKeep ==
  ASSUME NEW ts, NEW pk, Matched(ts, pk), NEW P \in SUBSET Packets,
         \A m \in Packets : m.kind \in DataKinds => (m \in P <=> m \in pk)
  PROVE  Matched(ts, P)
<1> USE DEF Matched
<1>1. Lists(ts, P)
  BY DEF Lists
<1>2. pk \subseteq Packets
  BY DEF Lists
<1>3. Placed(ts, P)
  BY <1>2 DEF Placed
<1>4. \A r, i : Exchange(P, r, i) = Exchange(pk, r, i)
  BY <1>2 DEF Exchange
<1>5. Answering(ts, P)
  BY <1>4 DEF Answering
<1>6. QED
  BY <1>1, <1>3, <1>5

\* When the last packet of an exchange is handled, its slot waits no more.
LEMMA ReceiveKeeps ==
  ASSUME NEW ts, NEW pk, Matched(ts, pk), NEW m \in pk, m.kind \in DataKinds,
         Exchange(pk, m.SubID, m.server) = {m},
         NEW k \in DOMAIN ts, ts[k].ID = m.SubID,
         NEW us, us = [ts EXCEPT ![k] = Received(ts[k], m.server)]
  PROVE  /\ Matched(us, pk \ {m})
         /\ m.server \in Servers(ts[k].pfsFileID) /\ m.fileId = ts[k].pfsFileID
         /\ ts[k].dataSizeInWindow[m.server] = SW_SENT
<1> DEFINE f == ts[k].pfsFileID
           s == m.server
           w == Received(ts[k], s)
           r == ts[k].ID
<1> USE DEF Matched
<1>1. ts \in Seq(TraceSet) /\ pk \subseteq Packets /\ WellBegun(ts[k])
  BY DEF Lists
<1>2. f \in Files /\ ts[k] \in TracesOn(f)
  BY <1>1, TraceOf
<1>3. s \in Servers(f) /\ m.fileId = f /\ ts[k].dataSizeInWindow[s] = SW_SENT
  <2>1. PICK j \in DOMAIN ts : AwaitedBy(ts[j], m)
    BY DEF Placed
  <2>2. j = k
    BY <2>1 DEF AwaitedBy, Lists
  <2>3. QED
    BY <2>1, <2>2 DEF AwaitedBy
<1>4. /\ w \in TracesOn(f) /\ SameStart(w, ts[k]) /\ WellBegun(w)
      /\ w.dataSizeInWindow[s] = SW_RECEIVED
      /\ \A j \in Servers(f) \ {s} : w.dataSizeInWindow[j] = ts[k].dataSizeInWindow[j]
  BY <1>1, <1>2, <1>3, ReceivedFacts
<1>5. w.ID = r /\ w.pfsFileID = f
  BY <1>4 DEF SameStart
<1>6. w \in TraceSet
  BY <1>2, <1>4 DEF TraceSet
<1> HIDE DEF w, f, s
<1>7. /\ us \in Seq(TraceSet) /\ DOMAIN us = DOMAIN ts /\ us[k] = w
      /\ \A j \in DOMAIN ts : j # k => us[j] = ts[j]
      /\ \A i, j \in DOMAIN us : us[i].ID = us[j].ID => i = j
      /\ \A j \in DOMAIN us : WellBegun(us[j])
  <2>1. us = [ts EXCEPT ![k] = w]
    BY DEF w, s
  <2>2. /\ \A i, j \in DOMAIN ts : ts[i].ID = ts[j].ID => i = j
        /\ \A j \in DOMAIN ts : WellBegun(ts[j])
    BY DEF Lists
  <2>3. QED
    BY <1>1, <1>4, <1>5, <1>6, <2>1, <2>2, TraceChanged
<1>8. Lists(us, pk \ {m})
  BY <1>1, <1>7 DEF Lists
<1>9. \A j, i : /\ j \in DOMAIN us /\ i \in Servers(us[j].pfsFileID)
                /\ us[j].dataSizeInWindow[i] = SW_SENT
                => /\ j \in DOMAIN ts /\ i \in Servers(ts[j].pfsFileID)
                   /\ ts[j].dataSizeInWindow[i] = SW_SENT /\ us[j].ID = ts[j].ID
                   /\ ~(ts[j].ID = m.SubID /\ i = s)
  <2> SUFFICES ASSUME NEW j \in DOMAIN us, NEW i \in Servers(us[j].pfsFileID),
                      us[j].dataSizeInWindow[i] = SW_SENT
               PROVE  /\ j \in DOMAIN ts /\ i \in Servers(ts[j].pfsFileID)
                      /\ ts[j].dataSizeInWindow[i] = SW_SENT /\ us[j].ID = ts[j].ID
                      /\ ~(ts[j].ID = m.SubID /\ i = s)
    OBVIOUS
  <2>1. CASE j = k
    <3>1. i \in Servers(f) /\ w.dataSizeInWindow[i] = SW_SENT
      BY <1>5, <1>7, <2>1
    <3>2. i # s
      BY <1>4, <3>1 DEF SW_SENT, SW_RECEIVED
    <3>3. QED
      BY <1>4, <1>5, <1>7, <2>1, <3>1, <3>2 DEF f
  <2>2. CASE j # k
    <3>1. us[j] = ts[j] /\ ts[j].ID # r /\ j \in DOMAIN ts
      BY <1>7, <2>2 DEF Lists
    <3>2. QED
      BY <3>1
  <2>3. QED
    BY <2>1, <2>2
<1>10. Placed(us, pk \ {m})
  <2> SUFFICES ASSUME NEW n \in pk, n # m, n.kind \in DataKinds
               PROVE  \E j \in DOMAIN us : AwaitedBy(us[j], n)
    BY DEF Placed
  <2>1. PICK j \in DOMAIN ts : AwaitedBy(ts[j], n)
    BY DEF Placed
  <2>2. ~(n.SubID = m.SubID /\ n.server = m.server)
    BY DEF Exchange
  <2>3. AwaitedBy(us[j], n)
    <3>1. CASE j # k
      BY <1>7, <2>1, <3>1
    <3>2. CASE j = k
      <4>1. /\ n.SubID = r /\ n.fileId = f /\ n.server \in Servers(f)
            /\ ts[k].dataSizeInWindow[n.server] = SW_SENT
        BY <2>1, <3>2 DEF AwaitedBy, f
      <4>2. n.server # s
        BY <2>2, <4>1 DEF s
      <4>3. w.dataSizeInWindow[n.server] = SW_SENT
        BY <1>4, <4>1, <4>2
      <4>4. QED
        BY <1>5, <1>7, <3>2, <4>1, <4>3 DEF AwaitedBy
    <3>3. QED
      BY <3>1, <3>2
  <2>4. QED
    BY <1>7, <2>3
<1>11. Answering(us, pk \ {m})
  <2> SUFFICES ASSUME NEW j \in DOMAIN us, NEW i \in Servers(us[j].pfsFileID),
                      us[j].dataSizeInWindow[i] = SW_SENT
               PROVE  OneTurn(Exchange(pk \ {m}, us[j].ID, i))
    BY DEF Answering
  <2>1. /\ j \in DOMAIN ts /\ i \in Servers(ts[j].pfsFileID)
        /\ ts[j].dataSizeInWindow[i] = SW_SENT /\ us[j].ID = ts[j].ID
        /\ ~(ts[j].ID = m.SubID /\ i = s)
    BY <1>9
  <2>2. OneTurn(Exchange(pk, ts[j].ID, i))
    BY <2>1 DEF Answering
  <2>3. m \notin Exchange(pk, ts[j].ID, i)
    BY <2>1 DEF Exchange, s
  <2>4. Exchange(pk \ {m}, ts[j].ID, i) = Exchange(pk, ts[j].ID, i)
    BY <2>3 DEF Exchange
  <2>5. QED
    BY <2>1, <2>2, <2>4
<1>12. QED
  BY <1>3, <1>8, <1>10, <1>11 DEF f, s

\* A trace that waits for no server may be added ...
LEMMA AddKeeps ==
  ASSUME NEW ts, NEW pk, Matched(ts, pk), NEW t \in TraceSet, WellBegun(t),
         \A j \in DOMAIN ts : ts[j].ID # t.ID,
         \A i \in Servers(t.pfsFileID) : t.dataSizeInWindow[i] # SW_SENT,
         NEW us, us = Append(ts, t)
  PROVE  /\ Matched(us, pk)
         /\ DOMAIN us = 1 .. Len(ts) + 1 /\ us[Len(ts) + 1] = t
         /\ \A j \in DOMAIN ts : j \in DOMAIN us /\ us[j] = ts[j]
         /\ \A j \in DOMAIN us : (j \in DOMAIN ts /\ us[j] = ts[j]) \/ us[j] = t
<1> USE DEF Matched
<1>1. ts \in Seq(TraceSet)
  BY DEF Lists
<1>2. /\ us \in Seq(TraceSet) /\ DOMAIN us = 1 .. Len(ts) + 1 /\ us[Len(ts) + 1] = t
      /\ \A j \in DOMAIN ts : j \in DOMAIN us /\ us[j] = ts[j]
      /\ \A j \in DOMAIN us : (j \in DOMAIN ts /\ us[j] = ts[j]) \/ j = Len(ts) + 1
  BY <1>1
<1>3. Lists(us, pk)
  BY <1>2 DEF Lists
<1>4. Placed(us, pk)
  BY <1>2 DEF Placed
<1>5. Answering(us, pk)
  BY <1>2 DEF Answering
<1>6. QED
  BY <1>2, <1>3, <1>4, <1>5

\* ... and removed.
LEMMA RemoveKeeps ==
  ASSUME NEW ts, NEW pk, Matched(ts, pk), NEW k \in DOMAIN ts,
         \A i \in Servers(ts[k].pfsFileID) : ts[k].dataSizeInWindow[i] # SW_SENT,
         NEW us, us = RemoveAt(ts, k)
  PROVE  /\ Matched(us, pk)
         /\ \A j \in DOMAIN us : \E i \in DOMAIN ts \ {k} : us[j] = ts[i]
         /\ \A i \in DOMAIN ts \ {k} : \E j \in DOMAIN us : us[j] = ts[i]
<1> USE DEF Matched
<1>1. ts \in Seq(TraceSet) /\ DOMAIN ts = 1 .. Len(ts) /\ Len(ts) \in Nat /\ k \in 1 .. Len(ts)
  BY DEF Lists
<1>2. /\ us \in Seq(TraceSet) /\ Len(us) = Len(ts) - 1
      /\ \A i \in 1 .. Len(ts) - 1 : us[i] = IF i < k THEN ts[i] ELSE ts[i+1]
  BY <1>1, RemoveAtElements
<1>3. DOMAIN us = 1 .. Len(ts) - 1
  BY <1>2
<1> DEFINE Was(j) == IF j < k THEN j ELSE j + 1
<1>4. /\ \A j \in DOMAIN us : Was(j) \in DOMAIN ts \ {k} /\ us[j] = ts[Was(j)]
      /\ \A i, j \in DOMAIN us : Was(i) = Was(j) => i = j
  BY <1>1, <1>2, <1>3
<1>5. ASSUME NEW i \in DOMAIN ts \ {k}
      PROVE  \E j \in DOMAIN us : us[j] = ts[i]
  <2>1. CASE i < k
    <3>1. i \in DOMAIN us /\ us[i] = ts[i]
      BY <1>1, <1>2, <1>3, <2>1
    <3>2. QED
      BY <3>1
  <2>2. CASE i > k
    <3>1. i - 1 \in DOMAIN us /\ us[i-1] = ts[i]
      BY <1>1, <1>2, <1>3, <2>2
    <3>2. QED
      BY <3>1
  <2>3. QED
    BY <1>1, <2>1, <2>2
<1> HIDE DEF Was
<1>6. Lists(us, pk)
  BY <1>2, <1>4 DEF Lists
<1>7. Placed(us, pk)
  <2> SUFFICES ASSUME NEW m \in pk, m.kind \in DataKinds
               PROVE  \E j \in DOMAIN us : AwaitedBy(us[j], m)
    BY DEF Placed
  <2>1. PICK i \in DOMAIN ts : AwaitedBy(ts[i], m)
    BY DEF Placed
  <2>2. i # k
    BY <2>1 DEF AwaitedBy
  <2>3. QED
    BY <1>5, <2>1, <2>2
<1>8. Answering(us, pk)
  BY <1>4 DEF Answering
<1>9. QED
  BY <1>4, <1>5, <1>6, <1>7, <1>8

\* The traces that a layout leaves.
WithLayout(ts, f) == [k \in DOMAIN ts |-> IF ts[k].pfsFileID = f THEN SetLayout(ts[k])
                                          ELSE ts[k]]

\* Traces that have sent nothing may get their layout.
LEMMA LayoutKeeps ==
  ASSUME NEW ts, NEW pk, Matched(ts, pk), NEW f \in Files,
         \A k \in DOMAIN ts : ts[k].pfsFileID = f =>
           /\ ts[k].unProcessedSize # 0
           /\ \A i \in Servers(f) : ts[k].dataSizeInWindow[i] # SW_SENT,
         NEW us, us = WithLayout(ts, f)
  PROVE  /\ Matched(us, pk) /\ DOMAIN us = DOMAIN ts
         /\ \A k \in DOMAIN ts : /\ us[k].ID = ts[k].ID /\ us[k].pfsFileID = ts[k].pfsFileID
                                 /\ us[k] = IF ts[k].pfsFileID = f THEN SetLayout(ts[k])
                                            ELSE ts[k]
                                 /\ us[k].hasLayout = (ts[k].hasLayout \/ ts[k].pfsFileID = f)
<1> USE DEF Matched
<1>1. ts \in Seq(TraceSet) /\ DOMAIN ts = 1 .. Len(ts) /\ Len(ts) \in Nat
  BY DEF Lists
<1>2. /\ DOMAIN us = DOMAIN ts
      /\ \A k \in DOMAIN ts : us[k] = IF ts[k].pfsFileID = f THEN SetLayout(ts[k]) ELSE ts[k]
  BY DEF WithLayout
<1>3. ASSUME NEW k \in DOMAIN ts
      PROVE  /\ us[k] \in TraceSet /\ WellBegun(us[k])
             /\ us[k].ID = ts[k].ID /\ us[k].pfsFileID = ts[k].pfsFileID
             /\ us[k].hasLayout = (ts[k].hasLayout \/ ts[k].pfsFileID = f)
             /\ ts[k].pfsFileID = f =>
                  \A i \in Servers(f) : us[k].dataSizeInWindow[i] # SW_SENT
  <2>1. ts[k] \in TraceSet /\ ts[k] \in TracesOn(ts[k].pfsFileID) /\ WellBegun(ts[k])
    BY <1>1, TraceOf DEF Lists
  <2>2. CASE ts[k].pfsFileID # f
    <3>1. ts[k].hasLayout \in BOOLEAN
      BY <2>1, TraceTypes
    <3>2. QED
      BY <1>2, <2>1, <2>2, <3>1
  <2>3. CASE ts[k].pfsFileID = f
    <3>1. ts[k] \in TracesOn(f) /\ ts[k].unProcessedSize # 0 /\ us[k] = SetLayout(ts[k])
      BY <1>2, <2>1, <2>3
    <3>2. /\ us[k] \in TracesOn(f) /\ WellBegun(us[k])
          /\ us[k].ID = ts[k].ID /\ us[k].hasLayout = TRUE
          /\ \A i \in Servers(f) : us[k].dataSizeInWindow[i] \in Nat
      BY ZenonT(40), <3>1, SetLayoutFacts
    <3>3. us[k].pfsFileID = f
      BY <3>2, TraceTypes
    <3>4. us[k] \in TraceSet
      BY <3>2 DEF TraceSet
    <3>5. us[k].hasLayout = (ts[k].hasLayout \/ ts[k].pfsFileID = f)
      BY <2>3, <3>2
    <3>6. \A i \in Servers(f) : us[k].dataSizeInWindow[i] # SW_SENT
      BY <3>2 DEF SW_SENT
    <3>7. QED
      BY <2>3, <3>2, <3>3, <3>4, <3>5, <3>6
  <2>4. QED
    BY <2>2, <2>3
<1>4. us \in Seq(TraceSet)
  <2>1. us = [k \in 1 .. Len(ts) |-> us[k]]
    BY <1>1 DEF WithLayout
  <2>2. \A k \in 1 .. Len(ts) : us[k] \in TraceSet
    BY <1>1, <1>3
  <2>3. us \in [1 .. Len(ts) -> TraceSet]
    BY <2>1, <2>2
  <2>4. QED
    BY <1>1, <2>3
<1>5. Lists(us, pk)
  BY <1>2, <1>3, <1>4 DEF Lists
<1>6. Placed(us, pk)
  <2> SUFFICES ASSUME NEW m \in pk, m.kind \in DataKinds
               PROVE  \E j \in DOMAIN us : AwaitedBy(us[j], m)
    BY DEF Placed
  <2>1. PICK i \in DOMAIN ts : AwaitedBy(ts[i], m)
    BY DEF Placed
  <2>2. ts[i].pfsFileID # f
    BY <2>1 DEF AwaitedBy
  <2>3. us[i] = ts[i]
    BY <1>2, <2>2
  <2>4. QED
    BY <1>2, <2>1, <2>3
<1>7. Answering(us, pk)
  <2> SUFFICES ASSUME NEW j \in DOMAIN us, NEW i \in Servers(us[j].pfsFileID),
                      us[j].dataSizeInWindow[i] = SW_SENT
               PROVE  OneTurn(Exchange(pk, us[j].ID, i))
    BY DEF Answering
  <2>1. ts[j].pfsFileID # f /\ j \in DOMAIN ts
    BY <1>2, <1>3
  <2>2. us[j] = ts[j]
    BY <1>2, <2>1
  <2>3. QED
    BY <2>1, <2>2 DEF Answering
<1>8. QED
  BY <1>2, <1>3, <1>5, <1>6, <1>7

-----------------------------------------------------------------------------
(* The application's requests. *)

Known == {"unknown", "queried", "set"}

\* A trace has its layout when the layout of its file is known; before that it waits for
\* nothing and sends nothing.
Laid(ts, known) ==
  \A k \in DOMAIN ts :
    /\ ts[k].hasLayout = (known[ts[k].pfsFileID] = "set")
    /\ known[ts[k].pfsFileID] # "set" =>
         /\ ts[k].unProcessedSize # 0
         /\ \A i \in Servers(ts[k].pfsFileID) : ts[k].dataSizeInWindow[i] = SW_NULL

\* The layout of a file is asked for once.
Asked(known, pk) ==
  /\ \A m \in pk : m.kind \in LayoutKinds => known[m.fileId] = "queried"
  /\ \A m, n \in pk : /\ m.kind \in LayoutKinds /\ n.kind \in LayoutKinds
                      /\ m.fileId = n.fileId
                      => m = n

\* The open requests are those that appRequestQ let out ...
Queued(q, open) ==
  /\ q \in [waitQ : {<<>>}, osQ : Seq([id : Nat])]
  /\ IsInjective(q.osQ) /\ ToSet(q.osQ) = {[id |-> r] : r \in open}
  /\ open \subseteq Nat /\ IsFiniteSet(open) /\ Len(q.osQ) = Cardinality(open)

\* ... and those that have a trace.
OpenTraces(ts, open) ==
  /\ \A k \in DOMAIN ts : ts[k].ID \in open
  /\ \A r \in open : \E k \in DOMAIN ts : ts[k].ID = r

\* What generateDataPacketRequests keeps.
LEMMA GenerateKeeps ==
  ASSUME NEW ts, NEW pk, NEW f \in Files, NEW known, NEW open,
         GenerateDataPacketRequests(ts, f, pk),
         Matched(ts, pk), Laid(ts, known), known[f] = "set", OpenTraces(ts, open),
         Asked(known, pk), requestID \in Nat, aborted = FALSE
  PROVE  /\ Matched(traces', net') /\ Laid(traces', known) /\ OpenTraces(traces', open)
         /\ Asked(known, net') /\ requestID' \in Nat /\ aborted' = FALSE
<1>1. ts \in Seq(TraceSet) /\ \A k \in DOMAIN ts : WellBegun(ts[k])
  BY DEF Matched, Lists
<1>2. CASE traces' = ts /\ net' = pk /\ requestID' = requestID /\ aborted' = aborted
  BY <1>2
<1>3. CASE \E k \in DOMAIN ts : \E t \in {AtNextPackets(ts[k])} :
             /\ ts[k].pfsFileID = f
             /\ traces' = [ts EXCEPT ![k] = AllSent(t)]
             /\ net' = pk \cup PacketsOf(t)
             /\ requestID' = RequestIDs(Cardinality(Unsent(t)))[Cardinality(Unsent(t)) + 1]
             /\ aborted' = (aborted \/ ~t.hasLayout)
  <2>0. PICK k \in DOMAIN ts : \E t \in {AtNextPackets(ts[k])} :
             /\ ts[k].pfsFileID = f
             /\ traces' = [ts EXCEPT ![k] = AllSent(t)]
             /\ net' = pk \cup PacketsOf(t)
             /\ requestID' = RequestIDs(Cardinality(Unsent(t)))[Cardinality(Unsent(t)) + 1]
             /\ aborted' = (aborted \/ ~t.hasLayout)
    BY <1>3
  <2>1. PICK t \in {AtNextPackets(ts[k])} :
             /\ ts[k].pfsFileID = f
             /\ traces' = [ts EXCEPT ![k] = AllSent(t)]
             /\ net' = pk \cup PacketsOf(t)
             /\ requestID' = RequestIDs(Cardinality(Unsent(t)))[Cardinality(Unsent(t)) + 1]
             /\ aborted' = (aborted \/ ~t.hasLayout)
    BY <2>0
  <2>2. t = AtNextPackets(ts[k]) /\ ts[k] \in TracesOn(f) /\ WellBegun(ts[k])
    BY <1>1, <2>1, TraceOf
  <2>3. t \in TracesOn(f) /\ SameStart(t, ts[k])
    BY <2>2, NextPacketsFacts
  <2>4. AllSent(t) \in TracesOn(f) /\ SameStart(AllSent(t), t)
    BY <2>3, AllSentFacts
  <2>5. Matched(traces', net')
    BY <2>1, <2>2, SendKeeps
  <2>6. ts[k].hasLayout = TRUE
    BY <2>1 DEF Laid
  <2> DEFINE w == AllSent(t)
  <2> HIDE DEF w
  <2>7. w.ID = ts[k].ID /\ w.pfsFileID = f /\ w.hasLayout = TRUE /\ t.hasLayout = TRUE
    BY <2>1, <2>3, <2>4, <2>6 DEF SameStart, w
  <2>8. /\ DOMAIN traces' = DOMAIN ts /\ traces'[k] = w
        /\ \A j \in DOMAIN ts : j # k => traces'[j] = ts[j]
    BY <2>1 DEF w
  <2>9. Laid(traces', known)
    <3> SUFFICES ASSUME NEW j \in DOMAIN traces'
                 PROVE  /\ traces'[j].hasLayout = (known[traces'[j].pfsFileID] = "set")
                        /\ known[traces'[j].pfsFileID] # "set" =>
                             /\ traces'[j].unProcessedSize # 0
                             /\ \A i \in Servers(traces'[j].pfsFileID) :
                                  traces'[j].dataSizeInWindow[i] = SW_NULL
      BY DEF Laid
    <3>1. CASE j # k
      BY <2>8, <3>1 DEF Laid
    <3>2. CASE j = k
      <4>1. traces'[j].hasLayout = TRUE /\ known[traces'[j].pfsFileID] = "set"
        BY <2>7, <2>8, <3>2
      <4>2. QED
        BY <4>1
    <3>3. QED
      BY <3>1, <3>2
  <2>10. OpenTraces(traces', open)
    BY <2>7, <2>8 DEF OpenTraces
  <2>11. aborted' = FALSE
    BY <2>1, <2>7
  <2>12. requestID' \in Nat
    <3>1. Cardinality(Unsent(t)) \in Nat
      BY <2>3, UnsentFacts
    <3>2. Cardinality(Unsent(t)) + 1 \in 1 .. Cardinality(Unsent(t)) + 1
      BY <3>1
    <3>3. QED
      BY <2>1, <3>1, <3>2, RequestIDsType
  <2>13. Asked(known, net')
    <3>1. \A m \in PacketsOf(t) : m.kind \notin LayoutKinds
      BY <2>3, PacketsOfFacts DEF LayoutKinds
    <3>2. QED
      BY <2>1, <3>1 DEF Asked
  <2>14. QED
    BY <2>5, <2>9, <2>10, <2>11, <2>12, <2>13
<1>4. \/ traces' = ts /\ net' = pk /\ requestID' = requestID /\ aborted' = aborted
      \/ \E k \in DOMAIN ts : \E t \in {AtNextPackets(ts[k])} :
             /\ ts[k].pfsFileID = f
             /\ traces' = [ts EXCEPT ![k] = AllSent(t)]
             /\ net' = pk \cup PacketsOf(t)
             /\ requestID' = RequestIDs(Cardinality(Unsent(t)))[Cardinality(Unsent(t)) + 1]
             /\ aborted' = (aborted \/ ~t.hasLayout)
  BY <1>1, GenerateFacts
<1>5. QED
  BY <1>2, <1>3, <1>4

\* A new request goes to the server at once as long as there is room.
LEMMA QueuePush ==
  ASSUME NEW q, NEW open, Queued(q, open), NEW r \in Nat, r \notin open,
         Cardinality(open) < AppDegree,
         NEW p, p = DispatchedNext(PushedBack(q, [id |-> r]), AppDegree)
  PROVE  Queued(p, open \cup {r})
<1> USE DEF Queued
<1> DEFINE job == [id |-> r]
           Jobs == [id : Nat]
<1>1. /\ q.waitQ = <<>> /\ q.osQ \in Seq(Jobs) /\ job \in Jobs
      /\ q = [waitQ |-> <<>>, osQ |-> q.osQ]
  OBVIOUS
<1> HIDE DEF job, Jobs
<1>2. PushedBack(q, job) = [waitQ |-> <<job>>, osQ |-> q.osQ]
  BY <1>1 DEF PushedBack
<1>3. Len(q.osQ) < AppDegree
  OBVIOUS
<1>4. p = [waitQ |-> <<>>, osQ |-> Append(q.osQ, job)]
  <2> DEFINE b == [waitQ |-> <<job>>, osQ |-> q.osQ]
  <2>1. p = DispatchedNext(b, AppDegree)
    BY <1>2 DEF job
  <2>2. b.waitQ = <<job>> /\ b.osQ = q.osQ
    OBVIOUS
  <2> HIDE DEF b
  <2>3. CanDispatch(b, AppDegree)
    BY <1>3, <2>2 DEF CanDispatch
  <2>4. Tail(<<job>>) = <<>> /\ Head(<<job>>) = job
    OBVIOUS
  <2>5. QED
    BY <2>1, <2>2, <2>3, <2>4 DEF DispatchedNext, Dispatched
<1>5. job \notin ToSet(q.osQ)
  BY DEF job
<1>6. /\ Append(q.osQ, job) \in Seq(Jobs)
      /\ ToSet(Append(q.osQ, job)) = ToSet(q.osQ) \cup {job}
      /\ IsInjective(Append(q.osQ, job))
  BY <1>1, <1>5, AppendElements
<1>7. Len(Append(q.osQ, job)) = Len(q.osQ) + 1
  BY <1>1
<1>8. p \in [waitQ : {<<>>}, osQ : Seq(Jobs)] /\ p.osQ = Append(q.osQ, job)
  <2> DEFINE a == Append(q.osQ, job)
  <2>1. a \in Seq(Jobs) /\ p = [waitQ |-> <<>>, osQ |-> a]
    BY <1>4, <1>6
  <2> HIDE DEF a
  <2>2. p \in [waitQ : {<<>>}, osQ : Seq(Jobs)] /\ p.osQ = a
    BY <2>1
  <2>3. QED
    BY <2>2 DEF a
<1>9. ToSet(p.osQ) = {[id |-> x] : x \in open \cup {r}}
  BY <1>6, <1>8 DEF job
<1>10. IsFiniteSet(open \cup {r}) /\ Cardinality(open \cup {r}) = Cardinality(open) + 1
  BY FS_AddElement
<1>11. QED
  BY <1>6, <1>7, <1>8, <1>9, <1>10 DEF Jobs

\* A request that is open is found, and leaves.
LEMMA QueuePop ==
  ASSUME NEW q, NEW open, Queued(q, open), NEW r \in open
  PROVE  IsOutstanding(q, r) /\ Queued(Popped(q, r), open \ {r})
<1> USE DEF Queued
<1> DEFINE Jobs == [id : Nat]
           s == q.osQ
           k == Position(q, r)
           I == {i \in 1 .. Len(s) : s[i].id = r}
           u == RemoveAt(s, k)
<1>1. /\ q.waitQ = <<>> /\ s \in Seq(Jobs) /\ q = [waitQ |-> <<>>, osQ |-> s]
      /\ Len(s) \in Nat /\ DOMAIN s = 1 .. Len(s) /\ open \subseteq Nat
  OBVIOUS
<1>2. k = IF I # {} THEN Min(I) ELSE 0
  BY DEF Position, SelectInSeq
<1>3. /\ \A i \in 1 .. Len(s) : s[i].id \in open /\ s[i] = [id |-> s[i].id]
      /\ \E i \in 1 .. Len(s) : s[i] = [id |-> r]
      /\ \A i, j \in 1 .. Len(s) : s[i] = s[j] => i = j
  <2>1. ToSet(s) = {[id |-> x] : x \in open}
    OBVIOUS
  <2>2. \A i \in 1 .. Len(s) : s[i] \in ToSet(s)
    BY <1>1 DEF ToSet
  <2>3. \E i \in 1 .. Len(s) : s[i] = [id |-> r]
    BY <1>1, <2>1 DEF ToSet
  <2>4. \A i \in 1 .. Len(s) : s[i].id \in open /\ s[i] = [id |-> s[i].id]
    BY <2>1, <2>2
  <2>5. \A i, j \in 1 .. Len(s) : s[i] = s[j] => i = j
    BY <1>1 DEF IsInjective
  <2>6. QED
    BY <2>3, <2>4, <2>5
<1>4. I # {} /\ I \in SUBSET (1 .. Len(s))
  BY <1>3
<1> HIDE DEF k, I, s
<1>5. k \in I
  BY <1>1, <1>2, <1>4, FirstOfKind
<1>6. k \in 1 .. Len(s) /\ s[k] = [id |-> r] /\ k \in DOMAIN s /\ k # 0
  BY <1>1, <1>3, <1>5 DEF I
<1>7. IsOutstanding(q, r)
  BY <1>6 DEF IsOutstanding, k
<1>8. /\ u \in Seq(Jobs) /\ Len(u) = Len(s) - 1
      /\ \A i \in 1 .. Len(s) - 1 : u[i] = IF i < k THEN s[i] ELSE s[i+1]
  BY <1>1, <1>6, RemoveAtElements
<1> HIDE DEF u, Jobs
<1>9. Popped(q, r) = [waitQ |-> <<>>, osQ |-> u]
  BY <1>1, <1>7 DEF Popped, u, k, s
<1>10. DOMAIN u = 1 .. Len(s) - 1
  BY <1>1, <1>8
<1> DEFINE Was(i) == IF i < k THEN i ELSE i + 1
<1>11. /\ \A i \in DOMAIN u : Was(i) \in 1 .. Len(s) /\ Was(i) # k /\ u[i] = s[Was(i)]
       /\ \A i, j \in DOMAIN u : Was(i) = Was(j) => i = j
  <2> DEFINE n == Len(s)
  <2>1. /\ n \in Nat /\ k \in 1 .. n /\ DOMAIN u = 1 .. n - 1
        /\ \A i \in 1 .. n - 1 : u[i] = IF i < k THEN s[i] ELSE s[i+1]
    BY <1>1, <1>6, <1>8, <1>10
  <2> HIDE DEF n
  <2>2. \A i \in 1 .. n - 1 : Was(i) \in 1 .. n /\ Was(i) # k /\ u[i] = s[Was(i)]
    BY <2>1
  <2>3. \A i, j \in 1 .. n - 1 : Was(i) = Was(j) => i = j
    BY <2>1
  <2>4. QED
    BY <2>1, <2>2, <2>3 DEF n
<1>12. ASSUME NEW i \in 1 .. Len(s), i # k
       PROVE  \E j \in DOMAIN u : u[j] = s[i]
  <2>1. CASE i < k
    <3>1. i \in DOMAIN u /\ u[i] = s[i]
      BY <1>6, <1>8, <1>10, <2>1
    <3>2. QED
      BY <3>1
  <2>2. CASE i > k
    <3>1. i - 1 \in DOMAIN u /\ u[i-1] = s[i]
      BY <1>6, <1>8, <1>10, <2>2
    <3>2. QED
      BY <3>1
  <2>3. QED
    BY <1>6, <1>12, <2>1, <2>2
<1> HIDE DEF Was
<1>13. IsInjective(u)
  BY <1>3, <1>11 DEF IsInjective
<1>14. ToSet(u) = {[id |-> x] : x \in open \ {r}}
  <2>1. \A i \in DOMAIN u : \E x \in open \ {r} : u[i] = [id |-> x]
    <3> SUFFICES ASSUME NEW i \in DOMAIN u
                 PROVE  \E x \in open \ {r} : u[i] = [id |-> x]
      OBVIOUS
    <3>1. PICK j \in 1 .. Len(s) : j # k /\ u[i] = s[j]
      BY <1>11
    <3>2. s[j].id \in open /\ s[j] = [id |-> s[j].id]
      BY <1>3
    <3>3. s[j].id # r
      BY <1>3, <1>6, <3>1, <3>2
    <3>4. QED
      BY <3>1, <3>2, <3>3
  <2>2. \A x \in open \ {r} : \E i \in DOMAIN u : u[i] = [id |-> x]
    <3> SUFFICES ASSUME NEW x \in open \ {r}
                 PROVE  \E i \in DOMAIN u : u[i] = [id |-> x]
      OBVIOUS
    <3>1. [id |-> x] \in ToSet(s)
      BY DEF s
    <3>2. PICK j \in 1 .. Len(s) : s[j] = [id |-> x]
      BY <1>1, <3>1 DEF ToSet
    <3>3. j # k
      <4>1. [id |-> x].id # [id |-> r].id
        OBVIOUS
      <4>2. QED
        BY <1>6, <3>2, <4>1
    <3>4. QED
      BY <1>12, <3>2, <3>3
  <2>3. ToSet(u) = {u[i] : i \in DOMAIN u}
    BY DEF ToSet
  <2>4. ToSet(u) \subseteq {[id |-> x] : x \in open \ {r}}
    BY <2>1, <2>3
  <2>5. {[id |-> x] : x \in open \ {r}} \subseteq ToSet(u)
    <3> SUFFICES ASSUME NEW x \in open \ {r} PROVE [id |-> x] \in ToSet(u)
      OBVIOUS
    <3>1. PICK i \in DOMAIN u : u[i] = [id |-> x]
      BY <2>2
    <3>2. QED
      BY <2>3, <3>1
  <2>6. QED
    BY <2>4, <2>5
<1>15. IsFiniteSet(open \ {r}) /\ Cardinality(open \ {r}) = Cardinality(open) - 1
  BY FS_RemoveElement
<1>16. Len(u) = Cardinality(open \ {r})
  BY <1>8, <1>15 DEF s
<1>17. QED
  BY <1>1, <1>7, <1>8, <1>9, <1>13, <1>14, <1>15, <1>16 DEF Jobs

-----------------------------------------------------------------------------
(* The inductive invariant of traces, packets and requests. *)

\* appRequestQ lets all requests out that the application may have open.
RoomForRequests == \A c \in Configurations : c.flows <= AppDegree

\* What the variables hold; the simulation does not end on an error.
ClientTypes ==
  /\ config \in Configurations /\ pfsFiles \in [Files -> Known] /\ requestID \in Nat
  /\ aborted = FALSE /\ answers \in [Requests -> Nat]
  /\ issued \in Seq(SUBSET (Nat \X Nat)) /\ Len(issued) <= config.requests
  /\ \A r \in Requests \ DOMAIN issued : answers[r] = 0

\* The types; windows match packets; each file is asked for once, and its traces have their
\* layout when it is known; the open requests are those of the traces and of appRequestQ.
ClientInv ==
  /\ ClientTypes
  /\ Matched(traces, net)
  /\ Laid(traces, pfsFiles) /\ Asked(pfsFiles, net)
  /\ OpenTraces(traces, Open) /\ Queued(appRequestQ, Open)

\* What a configuration is.
LEMMA ConfigFacts ==
  ASSUME NEW c \in Configurations
  PROVE  /\ c.files \subseteq Files /\ c.offsets \subseteq Nat
         /\ c.lengths \subseteq Nat \ {0} /\ c.flows \in Nat /\ c.requests \in Nat
         /\ 1 .. c.requests \subseteq Requests /\ Requests \subseteq Nat \ {0}
BY PVFS2ClientAssumption DEF Requests

\* The invariant holds at the start.
LEMMA ClientInit ==
  Init => ClientInv
<1> SUFFICES ASSUME Init PROVE ClientInv
  OBVIOUS
<1> USE DEF Init
<1>1. Open = {} /\ DOMAIN issued = {} /\ DOMAIN traces = {}
  BY DEF Open
<1>2. ClientTypes
  <2>1. /\ pfsFiles \in [Files -> Known] /\ answers \in [Requests -> Nat]
        /\ \A r \in Requests \ DOMAIN issued : answers[r] = 0
    BY DEF Known
  <2>2. requestID \in Nat /\ issued \in Seq(SUBSET (Nat \X Nat)) /\ Len(issued) = 0
    BY PVFS2ClientAssumption
  <2>3. 0 <= config.requests
    BY ConfigFacts
  <2>4. QED
    BY <2>1, <2>2, <2>3 DEF ClientTypes
<1>3. Matched(traces, net)
  <2>1. traces \in Seq(TraceSet)
    OBVIOUS
  <2>2. QED
    BY <1>1, <2>1 DEF Matched, Lists, Placed, Answering
<1>4. Laid(traces, pfsFiles) /\ Asked(pfsFiles, net) /\ OpenTraces(traces, Open)
  BY <1>1 DEF Laid, Asked, OpenTraces
<1>5. Queued(appRequestQ, Open)
  <2>1. appRequestQ = [waitQ |-> <<>>, osQ |-> <<>>]
    BY DEF EmptyQueue
  <2>2. /\ IsInjective(<<>>) /\ ToSet(<<>>) = {}
    BY DEF IsInjective, ToSet
  <2>3. /\ appRequestQ.osQ = <<>> /\ appRequestQ \in [waitQ : {<<>>}, osQ : Seq([id : Nat])]
        /\ Len(appRequestQ.osQ) = 0
    BY <2>1
  <2>4. {[id |-> r] : r \in Open} = {} /\ IsFiniteSet(Open) /\ Cardinality(Open) = 0
    BY <1>1, FS_EmptySet
  <2>5. QED
    BY <1>1, <2>2, <2>3, <2>4 DEF Queued
<1>6. QED
  BY <1>2, <1>3, <1>4, <1>5 DEF ClientInv

\* Places are of a server and a natural number.
LEMMA PlacesType ==
  ASSUME NEW f \in Files, NEW b \in Nat, NEW n \in Nat
  PROVE  PlacesOf(f, b, n) \in SUBSET (Nat \X Nat)
<1>1. PlacesOf(f, b, n) = PlacesBetween(f, b, b + n)
  BY PlacesOfFacts
<1>2. Servers(f) \subseteq Nat
  BY StripeFacts
<1>3. QED
  BY <1>1, <1>2 DEF PlacesBetween

\* What a new request makes of the history.
Issues(f, o, s) ==
  /\ Len(issued) + 1 \in Requests /\ Len(issued) + 1 \notin Open
  /\ Open' = Open \cup {Len(issued) + 1}
  /\ issued' \in Seq(SUBSET (Nat \X Nat)) /\ Len(issued') <= config'.requests
  /\ DOMAIN issued' = DOMAIN issued \cup {Len(issued) + 1}
  /\ \A r \in DOMAIN issued : issued'[r] = issued[r]
  /\ issued'[Len(issued) + 1] = PlacesOf(f, o, s)
  /\ \A r \in Requests \ DOMAIN issued' : answers'[r] = 0
  /\ f \in Files /\ o \in Nat /\ s \in Nat \ {0}
  /\ answers' = answers /\ moved' = moved

\* A new request is open.
LEMMA IssueFacts ==
  ASSUME ClientTypes, NEW f \in config.files, NEW o \in config.offsets,
         NEW s \in config.lengths, NEW read \in BOOLEAN, HandleNewTrace(f, o, s, read),
         config' = config
  PROVE  Issues(f, o, s)
<1> DEFINE r == Len(issued) + 1
<1>1. /\ issued \in Seq(SUBSET (Nat \X Nat)) /\ r <= config.requests
      /\ issued' = Append(issued, PlacesOf(f, o, s)) /\ answers' = answers /\ moved' = moved
      /\ config \in Configurations
  BY Zenon DEF HandleNewTrace, ClientTypes
<1>2. f \in Files /\ o \in Nat /\ s \in Nat \ {0}
  BY <1>1, ConfigFacts
<1>3. PlacesOf(f, o, s) \in SUBSET (Nat \X Nat)
  BY <1>2, PlacesType
<1>4. r \in Requests
  <2>1. r \in 1 .. config.requests
    BY <1>1, ConfigFacts
  <2>2. QED
    BY <1>1, <2>1, ConfigFacts
<1>5. /\ issued' \in Seq(SUBSET (Nat \X Nat)) /\ Len(issued') = r
      /\ DOMAIN issued = 1 .. Len(issued) /\ DOMAIN issued' = 1 .. Len(issued) + 1
      /\ \A x \in DOMAIN issued : issued'[x] = issued[x]
      /\ issued'[r] = PlacesOf(f, o, s)
  BY <1>1, <1>3
<1>6. DOMAIN issued' = DOMAIN issued \cup {r} /\ r \notin DOMAIN issued
  BY <1>1, <1>5
<1>7. answers[r] = 0
  BY <1>4, <1>6 DEF ClientTypes
<1>8. Open' = Open \cup {r} /\ r \notin Open
  BY <1>1, <1>6, <1>7 DEF Open
<1>9. \A x \in Requests \ DOMAIN issued' : answers'[x] = 0
  BY <1>1, <1>6 DEF ClientTypes
<1>10. QED
  BY <1>1, <1>2, <1>4, <1>5, <1>6, <1>8, <1>9 DEF Issues

\* Trace t of a file whose layout is known joins the traces.
Joins(f, t, us) ==
  /\ GenerateDataPacketRequests(us, f, net) /\ pfsFiles' = pfsFiles
  /\ Matched(us, net) /\ Laid(us, pfsFiles)
  /\ OpenTraces(us, Open \cup {Len(issued) + 1})
  /\ \A j \in DOMAIN us : (j \in DOMAIN traces /\ us[j] = traces[j]) \/ us[j] = SetLayout(t)

\* A new trace on a file whose layout is known gets the layout at once.
LEMMA NewTraceSet ==
  ASSUME ClientInv, NEW f \in config.files, NEW o \in config.offsets,
         NEW s \in config.lengths, NEW read \in BOOLEAN, HandleNewTrace(f, o, s, read),
         config' = config, pfsFiles[f] = "set",
         NEW t, t = NewTrace(Len(issued) + 1, f, o, s, read),
         NEW us, us = Append(traces, SetLayout(t))
  PROVE  Joins(f, t, us)
<1> DEFINE r == Len(issued) + 1
           w == SetLayout(t)
<1> USE DEF ClientInv
<1>0. Issues(f, o, s)
  BY IssueFacts
<1>1. /\ r \in Requests /\ r \notin Open
      /\ f \in Files /\ o \in Nat /\ s \in Nat \ {0}
  BY <1>0 DEF Issues
<1>2. r \in Nat /\ config \in Configurations
  BY <1>1, ConfigFacts DEF ClientTypes
<1>3. /\ t \in TracesOn(f) /\ WellBegun(t)
      /\ t.ID = r /\ t.pfsFileID = f /\ t.unProcessedSize = s /\ ~t.hasLayout
      /\ \A i \in Servers(f) : t.dataSizeInWindow[i] = SW_NULL
  <2>1. t = NewTrace(r, f, o, s, read)
    OBVIOUS
  <2>2. f \in Files /\ r \in Nat /\ o \in Nat /\ s \in Nat /\ read \in BOOLEAN
    BY <1>1, <1>2
  <2> HIDE DEF r
  <2>3. Fresh(NewTrace(r, f, o, s, read), r, f, o, s)
    BY <2>2, NewTraceFacts
  <2>4. Fresh(t, r, f, o, s)
    BY <2>1, <2>3
  <2>5. QED
    BY <2>4 DEF Fresh
<1>4. \A j \in DOMAIN traces : traces[j].ID # r
  BY <1>1 DEF OpenTraces
<1>5. pfsFiles[f] = "set"
  OBVIOUS
<1>6. GenerateDataPacketRequests(us, f, net) /\ pfsFiles' = pfsFiles
  BY <1>5 DEF HandleNewTrace
<1>7. /\ w \in TracesOn(f) /\ WellBegun(w) /\ w.ID = r /\ w.hasLayout = TRUE
      /\ \A i \in Servers(f) : w.dataSizeInWindow[i] \in Nat
  <2>1. t.unProcessedSize # 0 /\ w = SetLayout(t) /\ f \in Files /\ t \in TracesOn(f)
    BY <1>1, <1>3
  <2>2. t.ID = r
    BY <1>3
  <2> HIDE DEF w, r
  <2>3. QED
    BY <2>1, <2>2, SetLayoutFacts
<1>8. w.pfsFileID = f /\ w \in TraceSet
  BY <1>1, <1>7, TraceTypes DEF TraceSet
<1> DEFINE v == Append(traces, w)
<1>81. v = us
  OBVIOUS
<1> HIDE DEF w
<1>9. /\ Matched(v, net)
      /\ DOMAIN v = 1 .. Len(traces) + 1 /\ v[Len(traces) + 1] = w
      /\ \A j \in DOMAIN traces : j \in DOMAIN v /\ v[j] = traces[j]
      /\ \A j \in DOMAIN v : (j \in DOMAIN traces /\ v[j] = traces[j]) \/ v[j] = w
  <2>1. \A i \in Servers(w.pfsFileID) : w.dataSizeInWindow[i] # SW_SENT
    BY <1>7, <1>8 DEF SW_SENT
  <2>2. \A j \in DOMAIN traces : traces[j].ID # w.ID
    BY <1>4, <1>7
  <2>3. Matched(traces, net) /\ WellBegun(w)
    BY <1>7
  <2>4. v = Append(traces, w) /\ w \in TraceSet
    BY <1>8
  <2> HIDE DEF v
  <2>5. Matched(v, net)
    BY <2>1, <2>2, <2>3, <2>4, AddKeeps
  <2>6. /\ DOMAIN v = 1 .. Len(traces) + 1 /\ v[Len(traces) + 1] = w
        /\ \A j \in DOMAIN traces : j \in DOMAIN v /\ v[j] = traces[j]
    BY <2>1, <2>2, <2>3, <2>4, AddKeeps
  <2>7. \A j \in DOMAIN v : (j \in DOMAIN traces /\ v[j] = traces[j]) \/ v[j] = w
    BY <2>1, <2>2, <2>3, <2>4, AddKeeps
  <2>8. QED
    BY <2>5, <2>6, <2>7
<1> HIDE DEF v
<1>10. OpenTraces(v, Open \cup {r})
  <2>1. Len(traces) + 1 \in DOMAIN v
    <3>1. traces \in Seq(TraceSet)
      BY DEF Matched, Lists
    <3>2. QED
      BY <1>9, <3>1
  <2>2. QED
    BY <1>7, <1>9, <2>1 DEF OpenTraces
<1>11. Laid(v, pfsFiles)
  <2> SUFFICES ASSUME NEW j \in DOMAIN v
               PROVE  /\ v[j].hasLayout = (pfsFiles[v[j].pfsFileID] = "set")
                      /\ pfsFiles[v[j].pfsFileID] # "set" =>
                           /\ v[j].unProcessedSize # 0
                           /\ \A i \in Servers(v[j].pfsFileID) :
                                v[j].dataSizeInWindow[i] = SW_NULL
    BY DEF Laid
  <2>1. CASE j \in DOMAIN traces /\ v[j] = traces[j]
    BY <2>1 DEF Laid
  <2>2. CASE v[j] = w
    BY <1>5, <1>7, <1>8, <2>2
  <2>3. QED
    BY <1>9, <2>1, <2>2
<1>12. QED
  BY <1>6, <1>81, <1>9, <1>10, <1>11 DEF w, Joins

\* The application issues a request.
LEMMA NewTraceKeeps ==
  ASSUME RoomForRequests, ClientInv, NEW f \in config.files, NEW o \in config.offsets,
         NEW s \in config.lengths, NEW read \in BOOLEAN, HandleNewTrace(f, o, s, read),
         config' = config
  PROVE  ClientInv'
<1> DEFINE r == Len(issued) + 1
           t == NewTrace(r, f, o, s, read)
<1> USE DEF ClientInv
<1>0. Issues(f, o, s)
  BY IssueFacts
<1>1. /\ r \in Requests /\ r \notin Open /\ Open' = Open \cup {r}
      /\ issued' \in Seq(SUBSET (Nat \X Nat)) /\ Len(issued') <= config'.requests
      /\ \A x \in Requests \ DOMAIN issued' : answers'[x] = 0
      /\ f \in Files /\ o \in Nat /\ s \in Nat \ {0} /\ answers' = answers
  BY <1>0 DEF Issues
<1>2. r \in Nat /\ config \in Configurations
  BY <1>1, ConfigFacts DEF ClientTypes
<1>3. Queued(appRequestQ', Open')
  <2>1. /\ Cardinality(Open) < config.flows
        /\ appRequestQ' = DispatchedNext(PushedBack(appRequestQ, [id |-> r]), AppDegree)
    BY Zenon DEF HandleNewTrace
  <2>2. Cardinality(Open) < AppDegree
    <3>1. config.flows <= AppDegree /\ config.flows \in Nat /\ AppDegree \in Nat
      BY <1>2, ConfigFacts, PVFS2ClientAssumption DEF RoomForRequests
    <3>2. Cardinality(Open) \in Nat
      BY FS_CardinalityType DEF Queued
    <3>3. QED
      BY <2>1, <3>1, <3>2
  <2>3. Queued(appRequestQ', Open \cup {r})
    BY <1>1, <1>2, <2>1, <2>2, QueuePush
  <2>4. QED
    BY <1>1, <2>3
<1>4. /\ t \in TracesOn(f) /\ WellBegun(t)
      /\ t.ID = r /\ t.pfsFileID = f /\ t.unProcessedSize = s /\ ~t.hasLayout
      /\ \A i \in Servers(f) : t.dataSizeInWindow[i] = SW_NULL
  <2>1. t = NewTrace(r, f, o, s, read)
    OBVIOUS
  <2>2. f \in Files /\ r \in Nat /\ o \in Nat /\ s \in Nat /\ read \in BOOLEAN
    BY <1>1, <1>2
  <2> HIDE DEF t, r
  <2>3. Fresh(NewTrace(r, f, o, s, read), r, f, o, s)
    BY <2>2, NewTraceFacts
  <2>4. Fresh(t, r, f, o, s)
    BY <2>1, <2>3
  <2>5. QED
    BY <2>4 DEF Fresh
<1> HIDE DEF t
<1>5. ClientTypes' <=> pfsFiles' \in [Files -> Known] /\ requestID' \in Nat /\ aborted' = FALSE
  BY <1>1, <1>2 DEF ClientTypes
<1>6. \A j \in DOMAIN traces : traces[j].ID # r
  BY <1>1 DEF OpenTraces
<1>7. pfsFiles \in [Files -> Known] /\ aborted = FALSE /\ requestID \in Nat
  BY DEF ClientTypes
<1>8. CASE pfsFiles[f] # "set"
  <2>1. /\ traces' = Append(traces, t) /\ requestID' = requestID /\ aborted' = aborted
        /\ \/ /\ pfsFiles[f] = "unknown" /\ pfsFiles' = [pfsFiles EXCEPT ![f] = "queried"]
              /\ net' = net \cup {[kind |-> "LAYOUT_REQ", fileId |-> f]}
           \/ /\ pfsFiles[f] = "queried" /\ pfsFiles' = pfsFiles /\ net' = net
    <3>1. pfsFiles[f] \in Known
      BY <1>1, <1>7
    <3>2. CASE pfsFiles[f] = "unknown"
      BY <3>2 DEF HandleNewTrace, t
    <3>3. CASE pfsFiles[f] = "queried"
      BY <3>3 DEF HandleNewTrace, t
    <3>4. QED
      BY <1>8, <3>1, <3>2, <3>3 DEF Known
  <2>2. /\ Matched(traces', net)
        /\ DOMAIN traces' = 1 .. Len(traces) + 1 /\ traces'[Len(traces) + 1] = t
        /\ \A j \in DOMAIN traces : j \in DOMAIN traces' /\ traces'[j] = traces[j]
        /\ \A j \in DOMAIN traces' :
             (j \in DOMAIN traces /\ traces'[j] = traces[j]) \/ traces'[j] = t
    <3>1. t \in TraceSet
      BY <1>1, <1>4 DEF TraceSet
    <3>2. \A i \in Servers(t.pfsFileID) : t.dataSizeInWindow[i] # SW_SENT
      BY <1>4 DEF SW_NULL, SW_SENT
    <3>3. \A j \in DOMAIN traces : traces[j].ID # t.ID
      BY <1>4, <1>6
    <3>4. traces' = Append(traces, t) /\ Matched(traces, net) /\ WellBegun(t)
      BY <1>4, <2>1
    <3>5. Matched(traces', net)
      BY <3>1, <3>2, <3>3, <3>4, AddKeeps
    <3>6. /\ DOMAIN traces' = 1 .. Len(traces) + 1 /\ traces'[Len(traces) + 1] = t
          /\ \A j \in DOMAIN traces : j \in DOMAIN traces' /\ traces'[j] = traces[j]
      BY <3>1, <3>2, <3>3, <3>4, AddKeeps
    <3>7. \A j \in DOMAIN traces' :
            (j \in DOMAIN traces /\ traces'[j] = traces[j]) \/ traces'[j] = t
      BY <3>1, <3>2, <3>3, <3>4, AddKeeps
    <3>8. QED
      BY <3>5, <3>6, <3>7
  <2>3. OpenTraces(traces', Open')
    <3>1. Len(traces) + 1 \in DOMAIN traces'
      <4>1. traces \in Seq(TraceSet)
        BY DEF Matched, Lists
      <4>2. QED
        BY <2>2, <4>1
    <3>2. QED
      BY <1>1, <1>4, <2>2, <3>1 DEF OpenTraces
  <2>4. \A x \in Files : pfsFiles'[x] = "set" <=> pfsFiles[x] = "set"
    BY <1>7, <1>8, <2>1
  <2>5. Laid(traces', pfsFiles')
    <3> SUFFICES ASSUME NEW j \in DOMAIN traces'
                 PROVE  /\ traces'[j].hasLayout = (pfsFiles'[traces'[j].pfsFileID] = "set")
                        /\ pfsFiles'[traces'[j].pfsFileID] # "set" =>
                             /\ traces'[j].unProcessedSize # 0
                             /\ \A i \in Servers(traces'[j].pfsFileID) :
                                  traces'[j].dataSizeInWindow[i] = SW_NULL
      BY DEF Laid
    <3>1. CASE j \in DOMAIN traces /\ traces'[j] = traces[j]
      <4>1. traces[j].pfsFileID \in Files
        <5>1. traces \in Seq(TraceSet)
          BY DEF Matched, Lists
        <5>2. QED
          BY <3>1, <5>1, TraceOf
      <4>2. QED
        BY <2>4, <3>1, <4>1 DEF Laid
    <3>2. CASE traces'[j] = t
      <4>1. t.hasLayout = FALSE
        BY <1>4, TraceTypes
      <4>2. QED
        BY <1>1, <1>4, <1>8, <2>4, <3>2, <4>1
    <3>3. QED
      BY <2>2, <3>1, <3>2
  <2>6. CASE pfsFiles[f] = "unknown"
    <3> DEFINE q == [kind |-> "LAYOUT_REQ", fileId |-> f]
    <3>1. /\ q \in LayoutPackets /\ q.kind \in LayoutKinds /\ q.fileId = f
      BY <1>1 DEF LayoutPackets, LayoutKinds
    <3>2. net' = net \cup {q} /\ pfsFiles' = [pfsFiles EXCEPT ![f] = "queried"]
      BY <2>1, <2>6
    <3> HIDE DEF q
    <3>3. net \subseteq Packets
      BY DEF Matched, Lists
    <3>4. Matched(traces', net')
      <4>1. net' \in SUBSET Packets
        BY <3>1, <3>2, <3>3 DEF Packets
      <4>2. q.kind \notin DataKinds
        BY <3>1 DEF LayoutKinds, DataKinds, Turns
      <4>3. \A m \in Packets : m.kind \in DataKinds => (m \in net' <=> m \in net)
        BY <3>2, <4>2
      <4>4. QED
        BY <2>2, <4>1, <4>3, LayoutPacketsKeep
    <3>5. \A m \in net : m.kind \in LayoutKinds => m.fileId # f /\ m.fileId \in Files
      BY <2>6, <3>3, PacketTypes DEF Asked
    <3>6. Asked(pfsFiles', net')
      BY <1>1, <1>7, <3>1, <3>2, <3>5 DEF Asked
    <3>7. pfsFiles' \in [Files -> Known]
      BY <1>7, <3>2 DEF Known
    <3>8. QED
      BY <1>3, <1>5, <1>7, <2>1, <2>3, <2>5, <3>4, <3>6, <3>7
  <2>7. CASE pfsFiles[f] = "queried"
    <3>1. pfsFiles' = pfsFiles /\ net' = net
      BY <2>1, <2>7
    <3>2. Asked(pfsFiles', net')
      BY <3>1 DEF Asked
    <3>3. QED
      BY <1>3, <1>5, <1>7, <2>1, <2>2, <2>3, <2>5, <3>1, <3>2
  <2>8. QED
    BY <2>1, <2>6, <2>7
<1>9. CASE pfsFiles[f] = "set"
  <2> DEFINE us == Append(traces, SetLayout(t))
  <2>1. t = NewTrace(r, f, o, s, read) /\ us = Append(traces, SetLayout(t))
    BY DEF t
  <2>10. Joins(f, t, us)
    BY <1>9, <2>1, NewTraceSet
  <2>2. /\ GenerateDataPacketRequests(us, f, net) /\ pfsFiles' = pfsFiles
        /\ Matched(us, net) /\ Laid(us, pfsFiles) /\ OpenTraces(us, Open \cup {r})
    BY <2>10 DEF Joins
  <2> HIDE DEF us
  <2>3. /\ Matched(traces', net') /\ Laid(traces', pfsFiles) /\ OpenTraces(traces', Open \cup {r})
        /\ Asked(pfsFiles, net') /\ requestID' \in Nat /\ aborted' = FALSE
    BY <1>1, <1>7, <1>9, <2>2, GenerateKeeps
  <2>4. QED
    BY <1>1, <1>3, <1>5, <1>7, <2>2, <2>3
<1>10. QED
  BY <1>8, <1>9

\* What the answer m about the layout of file f makes of the client, and of the traces us.
LaidOut(m, f, us) ==
  /\ pfsFiles' = [pfsFiles EXCEPT ![f] = "set"]
  /\ GenerateDataPacketRequests(us, f, net \ {m})
  /\ appRequestQ' = appRequestQ /\ issued' = issued /\ answers' = answers
  /\ f \in Files /\ m.kind = "LAYOUT_RESP" /\ pfsFiles[f] # "set"
  /\ DOMAIN us = DOMAIN traces
  /\ \A k \in DOMAIN traces :
       us[k] = IF traces[k].pfsFileID = f THEN SetLayout(traces[k]) ELSE traces[k]
  /\ Matched(us, net \ {m}) /\ Laid(us, pfsFiles') /\ Asked(pfsFiles', net \ {m})
  /\ OpenTraces(us, Open) /\ pfsFiles'[f] = "set" /\ pfsFiles' \in [Files -> Known]

\* The layout of a file arrives: its traces get it.
LEMMA LayoutResponseFacts ==
  ASSUME ClientInv, NEW m \in net, HandleMetadataPacketResponse(m), NEW f, f = m.fileId,
         NEW us, us = WithLayout(traces, f)
  PROVE  LaidOut(m, f, us)
<1> USE DEF ClientInv
<1>1. /\ m.kind = "LAYOUT_RESP" /\ pfsFiles' = [pfsFiles EXCEPT ![f] = "set"]
      /\ GenerateDataPacketRequests(us, f, net \ {m})
      /\ appRequestQ' = appRequestQ /\ issued' = issued /\ answers' = answers
  BY Zenon DEF HandleMetadataPacketResponse, WithLayout
<1>2. /\ pfsFiles \in [Files -> Known] /\ aborted = FALSE /\ requestID \in Nat
  BY DEF ClientTypes
<1>3. net \subseteq Packets /\ traces \in Seq(TraceSet)
  BY DEF Matched, Lists
<1>4. m.kind \in LayoutKinds /\ f \in Files
  BY <1>1, <1>3, PacketTypes DEF LayoutKinds
<1>5. pfsFiles[f] = "queried" /\ \A n \in net \ {m} : n.kind \in LayoutKinds => n.fileId # f
  BY <1>4 DEF Asked
<1>6. \A k \in DOMAIN traces : traces[k].pfsFileID = f =>
        /\ traces[k].unProcessedSize # 0
        /\ \A i \in Servers(f) : traces[k].dataSizeInWindow[i] # SW_SENT
  <2> SUFFICES ASSUME NEW k \in DOMAIN traces, traces[k].pfsFileID = f
               PROVE  /\ traces[k].unProcessedSize # 0
                      /\ \A i \in Servers(f) : traces[k].dataSizeInWindow[i] # SW_SENT
    OBVIOUS
  <2>1. pfsFiles[traces[k].pfsFileID] # "set"
    BY <1>5
  <2>2. QED
    BY <2>1 DEF Laid, SW_NULL, SW_SENT
<1>7. us = WithLayout(traces, f)
  OBVIOUS
<1>8. Matched(traces, net)
  OBVIOUS
<1>9. /\ Matched(us, net) /\ DOMAIN us = DOMAIN traces
      /\ \A k \in DOMAIN traces :
           /\ us[k].ID = traces[k].ID /\ us[k].pfsFileID = traces[k].pfsFileID
           /\ us[k] = IF traces[k].pfsFileID = f THEN SetLayout(traces[k]) ELSE traces[k]
           /\ us[k].hasLayout = (traces[k].hasLayout \/ traces[k].pfsFileID = f)
  BY <1>4, <1>6, <1>7, <1>8, LayoutKeeps
<1>10. Matched(us, net \ {m})
  <2>1. net \ {m} \in SUBSET Packets
    BY <1>3
  <2>2. \A n \in Packets : n.kind \in DataKinds => (n \in net \ {m} <=> n \in net)
    BY <1>1 DEF DataKinds, Turns
  <2>3. QED
    BY <1>9, <2>1, <2>2, LayoutPacketsKeep
<1>11. /\ pfsFiles'[f] = "set" /\ \A x \in Files : x # f => pfsFiles'[x] = pfsFiles[x]
       /\ pfsFiles' \in [Files -> Known]
  BY <1>1, <1>2, <1>4 DEF Known
<1>12. Laid(us, pfsFiles')
  <2> SUFFICES ASSUME NEW k \in DOMAIN traces
               PROVE  /\ us[k].hasLayout = (pfsFiles'[us[k].pfsFileID] = "set")
                      /\ pfsFiles'[us[k].pfsFileID] # "set" =>
                           /\ us[k].unProcessedSize # 0
                           /\ \A i \in Servers(us[k].pfsFileID) :
                                us[k].dataSizeInWindow[i] = SW_NULL
    BY <1>9 DEF Laid
  <2>1. traces[k].pfsFileID \in Files
    BY <1>3, TraceOf
  <2>2. CASE traces[k].pfsFileID = f
    <3>1. us[k].hasLayout = TRUE /\ pfsFiles'[us[k].pfsFileID] = "set"
      BY <1>9, <1>11, <2>2
    <3>2. QED
      BY <3>1
  <2>3. CASE traces[k].pfsFileID # f
    <3>1. us[k] = traces[k] /\ pfsFiles'[us[k].pfsFileID] = pfsFiles[traces[k].pfsFileID]
      BY <1>9, <1>11, <2>1, <2>3
    <3>2. QED
      BY <3>1 DEF Laid
  <2>4. QED
    BY <2>2, <2>3
<1>13. Asked(pfsFiles', net \ {m})
  <2>1. \A n \in net : n.kind \in LayoutKinds => n.fileId \in Files
    BY <1>3, PacketTypes
  <2>2. QED
    BY <1>5, <1>11, <2>1 DEF Asked
<1>14. OpenTraces(us, Open)
  BY <1>9 DEF OpenTraces
<1>15. QED
  BY <1>1, <1>4, <1>5, <1>9, <1>10, <1>11, <1>12, <1>13, <1>14 DEF LaidOut

\* The step keeps the invariant.
LEMMA LayoutResponseKeeps ==
  ASSUME ClientInv, NEW m \in net, HandleMetadataPacketResponse(m), config' = config
  PROVE  ClientInv'
<1> DEFINE f == m.fileId
           us == WithLayout(traces, f)
<1> USE DEF ClientInv
<1>1. f = m.fileId /\ us = WithLayout(traces, f)
  OBVIOUS
<1> HIDE DEF f, us
<1>11. LaidOut(m, f, us)
  BY <1>1, LayoutResponseFacts
<1>2. /\ GenerateDataPacketRequests(us, f, net \ {m}) /\ f \in Files
      /\ Matched(us, net \ {m}) /\ Laid(us, pfsFiles') /\ Asked(pfsFiles', net \ {m})
      /\ OpenTraces(us, Open) /\ pfsFiles'[f] = "set" /\ pfsFiles' \in [Files -> Known]
      /\ appRequestQ' = appRequestQ /\ issued' = issued /\ answers' = answers
  BY <1>11 DEF LaidOut
<1>3. aborted = FALSE /\ requestID \in Nat
  BY DEF ClientTypes
<1>4. /\ Matched(traces', net') /\ Laid(traces', pfsFiles') /\ OpenTraces(traces', Open)
      /\ Asked(pfsFiles', net') /\ requestID' \in Nat /\ aborted' = FALSE
  BY <1>2, <1>3, GenerateKeeps
<1>5. Open' = Open
  BY <1>2 DEF Open
<1>6. ClientTypes'
  BY <1>2, <1>4 DEF ClientTypes
<1>7. QED
  BY <1>2, <1>4, <1>5, <1>6

\* A step that only takes a packet of an exchange and puts others in its place.
LEMMA ReplacedKeeps ==
  ASSUME ClientInv, UNCHANGED client, config' = config,
         NEW m \in net, m.kind \in DataKinds, NEW P \in SUBSET DataRecords,
         \A n \in P : n.SubID = m.SubID /\ n.server = m.server /\ n.fileId = m.fileId,
         OneTurn((Exchange(net, m.SubID, m.server) \ {m}) \cup P),
         net' = (net \ {m}) \cup P
  PROVE  ClientInv'
<1> USE DEF ClientInv
<1>1. /\ traces' = traces /\ pfsFiles' = pfsFiles /\ appRequestQ' = appRequestQ
      /\ requestID' = requestID /\ aborted' = aborted /\ issued' = issued
      /\ answers' = answers
  BY DEF client
<1>2. Matched(traces, (net \ {m}) \cup P)
  BY ReplaceKeeps
<1>3. \A n \in P : n.kind \notin LayoutKinds
  BY PacketTypes DEF Packets
<1>4. Asked(pfsFiles, (net \ {m}) \cup P)
  BY <1>3 DEF Asked
<1>5. Open' = Open
  BY <1>1 DEF Open
<1>6. ClientTypes'
  BY <1>1 DEF ClientTypes
<1>7. QED
  BY <1>1, <1>2, <1>4, <1>5, <1>6

\* A packet of data that arrived is of an exchange.
LEMMA DataPacketFacts ==
  ASSUME ClientInv, NEW m \in net, m.kind \in DataKinds
  PROVE  /\ m \in DataRecords /\ m \in Exchange(net, m.SubID, m.server)
         /\ OneTurn(Exchange(net, m.SubID, m.server))
         /\ \E k \in DOMAIN traces : AwaitedBy(traces[k], m)
<1>1. net \subseteq Packets
  BY DEF ClientInv, Matched, Lists
<1>2. m \in DataRecords /\ m \in Exchange(net, m.SubID, m.server)
  BY <1>1, PacketTypes DEF Exchange
<1>3. PICK k \in DOMAIN traces : AwaitedBy(traces[k], m)
  BY DEF ClientInv, Matched, Placed
<1>4. OneTurn(Exchange(net, m.SubID, m.server))
  BY <1>3 DEF ClientInv, Matched, Answering, AwaitedBy
<1>5. QED
  BY <1>2, <1>3, <1>4

\* A packet of a read that is not its last one is dropped.
LEMMA ReadDataKeeps ==
  ASSUME ClientInv, NEW m \in net, HandleReadData(m), config' = config
  PROVE  ClientInv'
<1> DEFINE X == Exchange(net, m.SubID, m.server)
<1>1. m.kind = "PFS_R_DATA" /\ net' = net \ {m} /\ UNCHANGED client
  BY DEF HandleReadData
<1>2. m.kind \in DataKinds
  BY <1>1 DEF DataKinds
<1>3. OneTurn(X) /\ m \in X
  BY <1>2, DataPacketFacts
<1>4. OneTurn((X \ {m}) \cup {})
  <2>1. OneTurn(X \ {m})
    BY <1>1, <1>3, TurnFacts
  <2>2. (X \ {m}) \cup {} = X \ {m}
    OBVIOUS
  <2>3. QED
    BY <2>1, <2>2
<1> DEFINE P == {}
<1>5. P \in SUBSET DataRecords /\ \A n : n \notin P
  OBVIOUS
<1>6. net' = (net \ {m}) \cup P /\ OneTurn((X \ {m}) \cup P)
  BY <1>1, <1>4
<1> HIDE DEF DataKinds, P
<1>7. QED
  BY <1>1, <1>2, <1>5, <1>6, ReplacedKeeps

\* A data server lets a write start.
LEMMA ServeWriteRequestKeeps ==
  ASSUME ClientInv, NEW m \in net, ServeWriteRequest(m), config' = config
  PROVE  ClientInv'
<1> DEFINE X == Exchange(net, m.SubID, m.server)
           n == [m EXCEPT !.kind = "PFS_W_RESP"]
<1>1. m.kind = "PFS_W_REQ" /\ net' = (net \ {m}) \cup {n} /\ UNCHANGED client
  BY DEF ServeWriteRequest
<1>2. m.kind \in DataKinds /\ "PFS_W_RESP" \in DataKinds /\ "PFS_W_RESP" \in Turns
  BY <1>1 DEF DataKinds, Turns
<1>3. OneTurn(X) /\ m \in X /\ m \in DataRecords
  BY <1>2, DataPacketFacts
<1>4. X = {m}
  <2>1. m.kind = "PFS_W_REQ"
    BY <1>1
  <2> HIDE DEF X, n
  <2>2. QED
    BY <1>3, <2>1, TurnFacts
<1> HIDE DEF DataKinds, Turns
<1>5. /\ n \in DataRecords /\ n.kind = "PFS_W_RESP" /\ n.SubID = m.SubID
      /\ n.server = m.server /\ n.fileId = m.fileId
  BY <1>2, <1>3 DEF DataRecords
<1> HIDE DEF n
<1>6. OneTurn((X \ {m}) \cup {n})
  <2>1. (X \ {m}) \cup {n} = {n}
    BY <1>4
  <2>2. OneTurn({n})
    BY <1>2, <1>5 DEF OneTurn
  <2>3. QED
    BY <2>1, <2>2
<1>7. QED
  <2> DEFINE P == {n}
  <2>1. P \in SUBSET DataRecords /\ net' = (net \ {m}) \cup P
    BY <1>1, <1>5
  <2>2. \A p \in P : p.SubID = m.SubID /\ p.server = m.server /\ p.fileId = m.fileId
    BY <1>5
  <2>3. OneTurn((X \ {m}) \cup P)
    BY <1>6
  <2> HIDE DEF P
  <2>4. QED
    BY <1>1, <1>2, <2>1, <2>2, <2>3, ReplacedKeeps

\* A data server reads.
LEMMA ServeReadKeeps ==
  ASSUME ClientInv, NEW m \in net, ServeRead(m), config' = config
  PROVE  ClientInv'
<1> DEFINE X == Exchange(net, m.SubID, m.server)
           n == [m EXCEPT !.kind = "PFS_R_DATA_LAST"]
           d == [m EXCEPT !.kind = "PFS_R_DATA", !.id = @ + 1]
<1>1. /\ m.kind = "PFS_R_REQ" /\ UNCHANGED client
      /\ \E before \in {{}, {d}} : net' = (net \ {m}) \cup before \cup {n}
  BY DEF ServeRead
<1>2. /\ m.kind \in DataKinds /\ "PFS_R_DATA_LAST" \in DataKinds
      /\ "PFS_R_DATA" \in DataKinds /\ "PFS_R_DATA_LAST" \in Turns
  BY <1>1 DEF DataKinds, Turns
<1>3. OneTurn(X) /\ m \in X /\ m \in DataRecords
  BY <1>2, DataPacketFacts
<1>4. X = {m}
  BY <1>1, <1>3, TurnFacts
<1> HIDE DEF DataKinds, Turns
<1>5. /\ n \in DataRecords /\ n.kind = "PFS_R_DATA_LAST" /\ n.SubID = m.SubID
      /\ n.server = m.server /\ n.fileId = m.fileId
      /\ d \in DataRecords /\ d.kind = "PFS_R_DATA" /\ d.SubID = m.SubID
      /\ d.server = m.server /\ d.fileId = m.fileId
  <2>1. /\ n \in DataRecords /\ n.kind = "PFS_R_DATA_LAST" /\ n.SubID = m.SubID
        /\ n.server = m.server /\ n.fileId = m.fileId
    BY <1>2, <1>3 DEF DataRecords
  <2>2. /\ d \in DataRecords /\ d.kind = "PFS_R_DATA" /\ d.SubID = m.SubID
        /\ d.server = m.server /\ d.fileId = m.fileId
    <3> DEFINE x == m.id + 1
    <3>1. x \in Nat
      BY <1>3, PacketTypes DEF Packets
    <3>2. d = [m EXCEPT !.kind = "PFS_R_DATA", !.id = x]
      BY <1>3 DEF DataRecords
    <3> HIDE DEF x, d
    <3>3. QED
      BY <1>2, <1>3, <3>1, <3>2 DEF DataRecords
  <2>3. QED
    BY <2>1, <2>2
<1> HIDE DEF n, d
<1>6. PICK before \in {{}, {d}} : net' = (net \ {m}) \cup before \cup {n}
  BY <1>1
<1> DEFINE P == before \cup {n}
<1>7. /\ P \in SUBSET DataRecords /\ net' = (net \ {m}) \cup P
      /\ \A p \in P : p.SubID = m.SubID /\ p.server = m.server /\ p.fileId = m.fileId
  BY <1>5, <1>6
<1>8. OneTurn((X \ {m}) \cup P)
  <2>1. (X \ {m}) \cup P = before \cup {n}
    BY <1>4
  <2>2. \A p \in (before \cup {n}) \ {n} : GoesBefore(p, n)
    BY <1>5, <1>6 DEF GoesBefore
  <2>3. OneTurn(before \cup {n})
    BY <1>2, <1>5, <2>2 DEF OneTurn
  <2>4. QED
    BY <2>1, <2>3
<1> HIDE DEF P
<1>9. QED
  BY <1>1, <1>2, <1>7, <1>8, ReplacedKeeps

\* A data server writes.
LEMMA ServeWriteDataKeeps ==
  ASSUME ClientInv, NEW m \in net, ServeWriteData(m), config' = config
  PROVE  ClientInv'
<1> DEFINE X == Exchange(net, m.SubID, m.server)
           n == [m EXCEPT !.kind = "PFS_W_FIN"]
<1>1. /\ m.kind \in {"PFS_W_DATA", "PFS_W_DATA_LAST"} /\ UNCHANGED client
      /\ \A p \in Earlier(m, "PFS_W_DATA") : p.id >= m.id
      /\ net' = (net \ {m}) \cup (IF m.kind = "PFS_W_DATA" THEN {} ELSE {n})
  BY DEF ServeWriteData
<1>2. m.kind \in DataKinds /\ "PFS_W_FIN" \in DataKinds /\ "PFS_W_FIN" \in Turns
  BY <1>1 DEF DataKinds, Turns
<1>3. OneTurn(X) /\ m \in X /\ m \in DataRecords
  BY <1>2, DataPacketFacts
<1>4. CASE m.kind = "PFS_W_DATA"
  <2>1. OneTurn((X \ {m}) \cup {})
    <3>1. OneTurn(X \ {m})
      BY <1>3, <1>4, TurnFacts
    <3>2. (X \ {m}) \cup {} = X \ {m}
      OBVIOUS
    <3>3. QED
      BY <3>1, <3>2
  <2>2. net' = (net \ {m}) \cup {}
    BY <1>1, <1>4
  <2> DEFINE P == {}
  <2>3. P \in SUBSET DataRecords /\ \A p : p \notin P
    OBVIOUS
  <2>4. net' = (net \ {m}) \cup P /\ OneTurn((X \ {m}) \cup P)
    BY <2>1, <2>2
  <2> HIDE DEF DataKinds, P
  <2>5. QED
    BY <1>1, <1>2, <2>3, <2>4, ReplacedKeeps
<1>5. CASE m.kind = "PFS_W_DATA_LAST"
  <2>1. X = {m}
    <3>1. \A p \in X : p.kind = "PFS_W_DATA" => ~(p.id < m.id)
      <4> SUFFICES ASSUME NEW p \in X, p.kind = "PFS_W_DATA" PROVE ~(p.id < m.id)
        OBVIOUS
      <4>1. p \in Earlier(m, "PFS_W_DATA") /\ p \in net /\ p.kind \in DataKinds
        BY DEF Exchange, Earlier
      <4>2. p.id >= m.id
        BY <1>1, <4>1
      <4>3. p \in DataRecords
        BY <4>1, DataPacketFacts
      <4>4. p.id \in Nat /\ m.id \in Nat
        BY <1>3, <4>3 DEF DataRecords
      <4>5. QED
        BY <4>2, <4>4
    <3>2. QED
      BY ZenonT(40), <1>3, <1>5, <3>1, TurnFacts
  <2> HIDE DEF DataKinds, Turns
  <2>2. /\ n \in DataRecords /\ n.kind = "PFS_W_FIN" /\ n.SubID = m.SubID
        /\ n.server = m.server /\ n.fileId = m.fileId
    BY <1>2, <1>3 DEF DataRecords
  <2>3. net' = (net \ {m}) \cup {n}
    BY <1>1, <1>5
  <2> HIDE DEF n
  <2>4. OneTurn((X \ {m}) \cup {n})
    BY <1>2, <2>1, <2>2 DEF OneTurn
  <2>5. QED
    BY <1>1, <1>2, <2>2, <2>3, <2>4, ReplacedKeeps
<1>6. QED
  BY <1>1, <1>4, <1>5

\* The metadata server answers.
LEMMA LayoutRequestKeeps ==
  ASSUME ClientInv, NEW m \in net, HandleMetadataPacket(m), config' = config
  PROVE  ClientInv'
<1> DEFINE n == [m EXCEPT !.kind = "LAYOUT_RESP"]
<1> USE DEF ClientInv
<1>1. m.kind = "LAYOUT_REQ" /\ net' = (net \ {m}) \cup {n} /\ UNCHANGED client
  BY DEF HandleMetadataPacket
<1>2. net \subseteq Packets /\ m.kind \in LayoutKinds /\ "LAYOUT_RESP" \in LayoutKinds
  BY <1>1 DEF Matched, Lists, LayoutKinds
<1>3. m \in LayoutPackets
  BY <1>2, PacketTypes
<1>4. n \in LayoutPackets /\ n.kind = "LAYOUT_RESP" /\ n.fileId = m.fileId
  BY <1>2, <1>3 DEF LayoutPackets
<1> HIDE DEF n
<1>5. Matched(traces, net')
  <2>1. net' \in SUBSET Packets
    BY <1>1, <1>2, <1>4 DEF Packets
  <2>2. m.kind \notin DataKinds /\ n.kind \notin DataKinds
    BY <1>1, <1>4 DEF DataKinds, Turns
  <2>3. \A p \in Packets : p.kind \in DataKinds => (p \in net' <=> p \in net)
    BY <1>1, <2>2
  <2>4. QED
    BY <2>1, <2>3, LayoutPacketsKeep
<1>6. Asked(pfsFiles, net')
  BY <1>1, <1>2, <1>4 DEF Asked
<1>7. /\ traces' = traces /\ pfsFiles' = pfsFiles /\ appRequestQ' = appRequestQ
      /\ requestID' = requestID /\ aborted' = aborted /\ issued' = issued
      /\ answers' = answers
  BY <1>1 DEF client
<1>8. Open' = Open
  BY <1>7 DEF Open
<1>9. ClientTypes'
  BY <1>7 DEF ClientTypes
<1>10. QED
  BY <1>5, <1>6, <1>7, <1>8, <1>9

\* The fragments the data of a write is cut into.
LastFragment(m) == (m.size - 1) \div PacketSizeLimit

Fragment(m, k) ==
  [m EXCEPT !.kind = IF k = LastFragment(m) THEN "PFS_W_DATA_LAST" ELSE "PFS_W_DATA",
            !.id = @ + 1 + k,
            !.lowoffset = @ + k * PacketSizeLimit,
            !.size = IF k = LastFragment(m) THEN @ - k * PacketSizeLimit
                     ELSE PacketSizeLimit]

Fragments(m) == {Fragment(m, k) : k \in 0 .. LastFragment(m)}

\* Each begins where the one before it ends, and the last one ends where the data does.
LEMMA FragmentFacts ==
  ASSUME NEW m \in DataRecords
  PROVE  /\ LastFragment(m) \in Nat
         /\ \A k \in 0 .. LastFragment(m) :
              /\ Fragment(m, k) \in DataRecords
              /\ Fragment(m, k).kind = IF k = LastFragment(m) THEN "PFS_W_DATA_LAST"
                                       ELSE "PFS_W_DATA"
              /\ Fragment(m, k).id = m.id + 1 + k
              /\ Fragment(m, k).SubID = m.SubID /\ Fragment(m, k).server = m.server
              /\ Fragment(m, k).fileId = m.fileId
              /\ Fragment(m, k).lowoffset = m.lowoffset + k * PacketSizeLimit
              /\ k * PacketSizeLimit \in Nat
              /\ Fragment(m, k).lowoffset + Fragment(m, k).size
                   = IF k = LastFragment(m) THEN m.lowoffset + m.size
                     ELSE m.lowoffset + (k + 1) * PacketSizeLimit
<1> DEFINE L == PacketSizeLimit
           last == LastFragment(m)
<1>1. L \in Nat \ {0} /\ m.size \in Nat \ {0} /\ m.id \in Nat /\ m.lowoffset \in Nat
  BY PacketTypes, PVFS2ClientAssumption DEF Packets
<1>2. m.size - 1 \in Nat /\ last = (m.size - 1) \div L
  BY <1>1 DEF LastFragment
<1>3. /\ last \in Nat /\ (m.size - 1) % L \in Nat
      /\ m.size - 1 = last * L + ((m.size - 1) % L)
  BY <1>1, <1>2, Division
<1>4. ASSUME NEW k \in 0 .. last
      PROVE  /\ k * L \in Nat /\ (k + 1) * L = k * L + L
             /\ k = last => m.size - k * L \in Nat \ {0}
  <2>1. k \in Nat /\ k \in Int /\ L \in Int /\ 1 \in Int
    BY <1>1
  <2>2. k * L \in Nat /\ (k + 1) * L = k * L + L
    BY <1>1, <2>1, ProductGrows, Distributes
  <2>3. ASSUME k = last PROVE m.size - k * L \in Nat \ {0}
    <3> DEFINE p == k * L
    <3>1. p \in Nat /\ m.size - 1 = p + ((m.size - 1) % L)
      BY <1>3, <2>2, <2>3
    <3> HIDE DEF p
    <3> DEFINE y == (m.size - 1) % L
    <3>2. y \in Nat /\ m.size - 1 = p + y
      BY <1>3, <3>1
    <3> HIDE DEF y
    <3>3. m.size - p \in Nat \ {0}
      BY <1>1, <3>1, <3>2
    <3>4. QED
      BY <3>3 DEF p
  <2>4. QED
    BY <2>2, <2>3
<1> HIDE DEF L, last
<1>5. ASSUME NEW k \in 0 .. last
      PROVE  /\ Fragment(m, k) \in DataRecords
             /\ Fragment(m, k).kind = IF k = last THEN "PFS_W_DATA_LAST" ELSE "PFS_W_DATA"
             /\ Fragment(m, k).id = m.id + 1 + k
             /\ Fragment(m, k).SubID = m.SubID /\ Fragment(m, k).server = m.server
             /\ Fragment(m, k).fileId = m.fileId
             /\ Fragment(m, k).lowoffset = m.lowoffset + k * L
             /\ Fragment(m, k).lowoffset + Fragment(m, k).size
                  = IF k = last THEN m.lowoffset + m.size ELSE m.lowoffset + (k + 1) * L
  <2> DEFINE kind == IF k = last THEN "PFS_W_DATA_LAST" ELSE "PFS_W_DATA"
             id == m.id + 1 + k
             p == k * L
             low == m.lowoffset + p
             size == IF k = last THEN m.size - p ELSE L
             n == Fragment(m, k)
  <2>1. kind \in DataKinds
    BY DEF DataKinds, Turns
  <2>2. p \in Nat /\ (k = last => m.size - p \in Nat \ {0}) /\ (k + 1) * L = p + L
    BY <1>4
  <2>3. n = [m EXCEPT !.kind = kind, !.id = id, !.lowoffset = low, !.size = size]
    BY DEF DataRecords, Fragment, L, last
  <2>4. k \in Nat
    BY <1>3
  <2> HIDE DEF p
  <2>5. /\ id \in Nat /\ low \in Nat /\ size \in Nat \ {0}
        /\ low + size = IF k = last THEN m.lowoffset + m.size ELSE m.lowoffset + (k + 1) * L
    BY <1>1, <2>2, <2>4
  <2>6. low = m.lowoffset + k * L
    BY DEF p
  <2> HIDE DEF kind, id, low, size, n
  <2>7. /\ n \in DataRecords /\ n.kind = kind /\ n.id = id /\ n.SubID = m.SubID
        /\ n.server = m.server /\ n.fileId = m.fileId
        /\ n.lowoffset = low /\ n.size = size
    BY <2>1, <2>3, <2>5 DEF DataRecords
  <2>8. QED
    BY <2>5, <2>6, <2>7 DEF n, kind, id
<1>6. QED
  BY <1>3, <1>4, <1>5 DEF L, last

\* The data of a write is cut into its fragments.
LEMMA WriteResponseKeeps ==
  ASSUME ClientInv, NEW m \in net, HandleWriteResponse(m), config' = config
  PROVE  ClientInv'
<1> DEFINE X == Exchange(net, m.SubID, m.server)
           P == Fragments(m)
<1>1. m.kind = "PFS_W_RESP" /\ net' = (net \ {m}) \cup P /\ UNCHANGED client
  BY DEF HandleWriteResponse, Fragments, Fragment, LastFragment
<1>2. m.kind \in DataKinds /\ "PFS_W_DATA_LAST" \in Turns
  BY <1>1 DEF DataKinds, Turns
<1>3. OneTurn(X) /\ m \in X /\ m \in DataRecords
  BY <1>2, DataPacketFacts
<1>4. X = {m}
  <2>1. m.kind = "PFS_W_RESP"
    BY <1>1
  <2> HIDE DEF X, P
  <2>2. QED
    BY <1>3, <2>1, TurnFacts
<1>5. /\ P \in SUBSET DataRecords
      /\ \A n \in P : n.SubID = m.SubID /\ n.server = m.server /\ n.fileId = m.fileId
  BY <1>3, FragmentFacts DEF Fragments
<1>6. OneTurn(P)
  <2> DEFINE last == LastFragment(m)
             h == Fragment(m, last)
  <2>1. last \in Nat /\ last \in 0 .. last
    BY <1>3, FragmentFacts
  <2>2. h \in P /\ h.kind = "PFS_W_DATA_LAST" /\ h.id = m.id + 1 + last
    BY <1>3, <2>1, FragmentFacts DEF Fragments
  <2>3. ASSUME NEW n \in P \ {h} PROVE GoesBefore(n, h)
    <3>1. PICK k \in 0 .. last : n = Fragment(m, k)
      BY DEF Fragments
    <3>2. k # last
      BY <3>1
    <3>3. n.kind = "PFS_W_DATA" /\ n.id = m.id + 1 + k
      BY <1>3, <3>1, <3>2, FragmentFacts
    <3>4. m.id \in Nat
      BY <1>3, PacketTypes DEF Packets
    <3> HIDE DEF last, h
    <3>5. n.id < h.id
      BY <2>1, <2>2, <3>2, <3>3, <3>4
    <3>6. QED
      BY <2>2, <3>3, <3>5 DEF GoesBefore
  <2> HIDE DEF h, P
  <2>4. QED
    BY <1>2, <2>2, <2>3 DEF OneTurn
<1>7. OneTurn((X \ {m}) \cup P)
  <2>1. (X \ {m}) \cup P = P
    BY <1>4
  <2>2. QED
    BY <1>6, <2>1
<1> HIDE DEF P, DataKinds
<1>8. QED
  BY <1>1, <1>2, <1>5, <1>7, ReplacedKeeps

\* Changing a trace that is removed does not matter.
LEMMA RemoveChanged ==
  ASSUME NEW ts \in Seq(TraceSet), NEW k \in DOMAIN ts, NEW w \in TraceSet
  PROVE  RemoveAt([ts EXCEPT ![k] = w], k) = RemoveAt(ts, k)
<1> DEFINE us == [ts EXCEPT ![k] = w]
<1>1. /\ us \in Seq(TraceSet) /\ DOMAIN us = DOMAIN ts /\ Len(us) = Len(ts)
      /\ \A j \in DOMAIN ts : j # k => us[j] = ts[j]
      /\ Len(ts) \in Nat /\ k \in 1 .. Len(ts) /\ DOMAIN ts = 1 .. Len(ts)
  OBVIOUS
<1> HIDE DEF us
<1>2. /\ RemoveAt(ts, k) \in Seq(TraceSet) /\ Len(RemoveAt(ts, k)) = Len(ts) - 1
      /\ \A i \in 1 .. Len(ts) - 1 : RemoveAt(ts, k)[i] = IF i < k THEN ts[i] ELSE ts[i+1]
  BY RemoveAtElements
<1>3. /\ RemoveAt(us, k) \in Seq(TraceSet) /\ Len(RemoveAt(us, k)) = Len(ts) - 1
      /\ \A i \in 1 .. Len(ts) - 1 : RemoveAt(us, k)[i] = IF i < k THEN us[i] ELSE us[i+1]
  <2>1. us \in Seq(TraceSet) /\ k \in DOMAIN us
    BY <1>1
  <2>2. \A u \in Seq(TraceSet) : k \in DOMAIN u =>
          /\ RemoveAt(u, k) \in Seq(TraceSet) /\ Len(RemoveAt(u, k)) = Len(u) - 1
          /\ \A i \in 1 .. Len(u) - 1 : RemoveAt(u, k)[i] = IF i < k THEN u[i] ELSE u[i+1]
    BY RemoveAtElements
  <2>3. QED
    BY <1>1, <2>1, <2>2
<1>4. \A i \in 1 .. Len(ts) - 1 : RemoveAt(us, k)[i] = RemoveAt(ts, k)[i]
  <2> SUFFICES ASSUME NEW i \in 1 .. Len(ts) - 1
               PROVE  RemoveAt(us, k)[i] = RemoveAt(ts, k)[i]
    OBVIOUS
  <2>1. i < k => i \in DOMAIN ts /\ i # k
    BY <1>1
  <2>2. ~(i < k) => i + 1 \in DOMAIN ts /\ i + 1 # k
    BY <1>1
  <2>3. QED
    BY <1>1, <1>2, <1>3, <2>1, <2>2
<1> DEFINE a == RemoveAt(us, k)
           b == RemoveAt(ts, k)
<1> HIDE DEF a, b
<1>5. /\ a \in Seq(TraceSet) /\ b \in Seq(TraceSet) /\ Len(a) = Len(b)
      /\ Len(b) = Len(ts) - 1
      /\ \A i \in 1 .. Len(ts) - 1 : a[i] = b[i]
  BY <1>2, <1>3, <1>4 DEF a, b
<1>6. a = b
  BY <1>5
<1>7. QED
  BY <1>6 DEF a, b, us

\* What happens when the last packet of an exchange is handled: it finds its trace and its
\* request.
LEMMA LastFacts ==
  ASSUME ClientInv, NEW m \in net, HandleLastDataPacket(m)
  PROVE  /\ m \in DataRecords /\ m.kind \in DataKinds
         /\ Exchange(net, m.SubID, m.server) = {m}
         /\ m.SubID \in Open
         /\ pfsFiles' = pfsFiles /\ issued' = issued /\ moved' = moved
         /\ \E k \in DOMAIN traces : \E t \in {Received(traces[k], m.server)} :
              /\ traces[k].ID = m.SubID
              /\ \/ /\ Status(t) = "NEED_WAIT"
                    /\ traces' = [traces EXCEPT ![k] = t]
                    /\ net' = net \ {m}
                    /\ appRequestQ' = appRequestQ /\ requestID' = requestID
                    /\ aborted' = aborted /\ answers' = answers
                 \/ /\ Status(t) = "ALL_DONE"
                    /\ traces' = RemoveAt(traces, k)
                    /\ appRequestQ' = Popped(appRequestQ, m.SubID)
                    /\ answers' = [answers EXCEPT ![m.SubID] = @ + 1]
                    /\ net' = net \ {m} /\ requestID' = requestID /\ aborted' = aborted
                 \/ /\ Status(t) = "MORE_TO_SEND"
                    /\ GenerateDataPacketRequests([traces EXCEPT ![k] = t], m.fileId,
                                                  net \ {m})
                    /\ appRequestQ' = appRequestQ /\ answers' = answers
<1> USE DEF ClientInv
<1>1. /\ m.kind \in {"PFS_R_DATA_LAST", "PFS_W_FIN"} /\ Earlier(m, "PFS_R_DATA") = {}
      /\ pfsFiles' = pfsFiles /\ issued' = issued /\ moved' = moved
  BY Zenon DEF HandleLastDataPacket
<1>2. m.kind \in DataKinds
  BY <1>1 DEF DataKinds, Turns
<1>3. /\ m \in DataRecords /\ m \in Exchange(net, m.SubID, m.server)
      /\ OneTurn(Exchange(net, m.SubID, m.server))
  BY <1>2, DataPacketFacts
<1>4. Exchange(net, m.SubID, m.server) = {m}
  <2> DEFINE X == Exchange(net, m.SubID, m.server)
  <2>1. \A n \in X : n.kind # "PFS_R_DATA"
    BY <1>1 DEF Exchange, Earlier
  <2>2. OneTurn(X) /\ m \in X
    BY <1>3
  <2> HIDE DEF X
  <2>3. X = {m}
    BY <1>1, <2>1, <2>2, TurnFacts
  <2>4. QED
    BY <2>3 DEF X
<1>5. PICK j \in DOMAIN traces : AwaitedBy(traces[j], m)
  BY <1>2, DataPacketFacts
<1>6. m.SubID \in Open /\ traces[j].ID = m.SubID
  BY <1>5 DEF AwaitedBy, OpenTraces
<1>7. IsOutstanding(appRequestQ, m.SubID)
  BY <1>6, QueuePop
<1> DEFINE k == SelectInSeq(traces, LAMBDA t : t.ID = m.SubID)
           I == {i \in 1 .. Len(traces) : traces[i].ID = m.SubID}
<1>8. k \in DOMAIN traces /\ traces[k].ID = m.SubID /\ k # 0
  <2>1. k = IF I # {} THEN Min(I) ELSE 0
    BY DEF SelectInSeq
  <2>2. DOMAIN traces = 1 .. Len(traces) /\ Len(traces) \in Nat
    BY DEF Matched, Lists
  <2>3. I # {} /\ I \in SUBSET (1 .. Len(traces))
    BY <1>6, <2>2
  <2> HIDE DEF k, I
  <2>4. k \in I
    BY <2>1, <2>2, <2>3, FirstOfKind
  <2>5. QED
    BY <2>2, <2>4 DEF I
<1>9. \E t \in {Received(traces[k], m.server)} :
        \/ /\ Status(t) = "NEED_WAIT"
           /\ traces' = [traces EXCEPT ![k] = t]
           /\ net' = net \ {m}
           /\ appRequestQ' = appRequestQ /\ requestID' = requestID
           /\ aborted' = aborted /\ answers' = answers
        \/ /\ Status(t) = "ALL_DONE"
           /\ traces' = RemoveAt(traces, k)
           /\ appRequestQ' = Popped(appRequestQ, m.SubID)
           /\ answers' = [answers EXCEPT ![m.SubID] = @ + 1]
           /\ net' = net \ {m} /\ requestID' = requestID /\ aborted' = aborted
        \/ /\ Status(t) = "MORE_TO_SEND"
           /\ GenerateDataPacketRequests([traces EXCEPT ![k] = t], m.fileId, net \ {m})
           /\ appRequestQ' = appRequestQ /\ answers' = answers
  <2>1. ~(k = 0 \/ ~IsOutstanding(appRequestQ, m.SubID))
    BY <1>7, <1>8
  <2>2. /\ HandleLastDataPacket(m) <=>
           (/\ ~aborted
            /\ m \in net /\ m.kind \in {"PFS_R_DATA_LAST", "PFS_W_FIN"}
            /\ Earlier(m, "PFS_R_DATA") = {}
            /\ IF k = 0 \/ ~IsOutstanding(appRequestQ, m.SubID)
               THEN /\ aborted' = TRUE
                    /\ UNCHANGED <<traces, appRequestQ, requestID, net, answers>>
               ELSE \E t \in {Received(traces[k], m.server)} :
                 \/ /\ Status(t) = "NEED_WAIT"
                    /\ traces' = [traces EXCEPT ![k] = t]
                    /\ net' = net \ {m}
                    /\ UNCHANGED <<appRequestQ, requestID, aborted, answers>>
                 \/ /\ Status(t) = "ALL_DONE"
                    /\ traces' = RemoveAt(traces, k)
                    /\ appRequestQ' = Popped(appRequestQ, m.SubID)
                    /\ answers' = [answers EXCEPT ![m.SubID] = @ + 1]
                    /\ net' = net \ {m}
                    /\ UNCHANGED <<requestID, aborted>>
                 \/ /\ Status(t) = "MORE_TO_SEND"
                    /\ GenerateDataPacketRequests([traces EXCEPT ![k] = t], m.fileId,
                                                  net \ {m})
                    /\ UNCHANGED <<appRequestQ, answers>>
            /\ UNCHANGED <<pfsFiles, issued, moved>>)
    BY DEF HandleLastDataPacket
  <2> HIDE DEF k
  <2>3. QED
    BY <2>1, <2>2
<1> HIDE DEF k, I
<1>10. QED
  BY <1>1, <1>2, <1>3, <1>4, <1>6, <1>8, <1>9

\* The traces when the packets of server i for trace k have all arrived.
WithAnswer(ts, k, i) == [ts EXCEPT ![k] = Received(ts[k], i)]

\* Packet m answers what trace k asked of a server, which makes the trace t and the list us.
Answers(m, f, k, t, us) ==
  /\ f \in Files /\ m.server \in Servers(f) /\ traces[k] \in TracesOn(f)
  /\ traces[k].dataSizeInWindow[m.server] = SW_SENT
  /\ t \in TracesOn(f) /\ t \in TraceSet /\ t.ID = m.SubID /\ t.pfsFileID = f
  /\ DOMAIN us = DOMAIN traces /\ us[k] = t
  /\ \A j \in DOMAIN traces : j # k => us[j] = traces[j]
  /\ pfsFiles[f] = "set"
  /\ Matched(us, net \ {m}) /\ Laid(us, pfsFiles) /\ OpenTraces(us, Open)
  /\ Asked(pfsFiles, net \ {m})

\* The last packet of an exchange arrives: its slot is marked.
LEMMA AnswerFacts ==
  ASSUME NEW m \in net, NEW k \in DOMAIN traces, NEW f, NEW t, NEW us, ClientInv,
         HandleLastDataPacket(m), f = m.fileId, traces[k].ID = m.SubID,
         t = Received(traces[k], m.server), us = WithAnswer(traces, k, m.server)
  PROVE  Answers(m, f, k, t, us)
<1> USE DEF ClientInv
<1>1. /\ m \in DataRecords /\ m.kind \in DataKinds
      /\ Exchange(net, m.SubID, m.server) = {m}
      /\ m.SubID \in Open
  BY LastFacts
<1>2. traces[k].ID = m.SubID
  OBVIOUS
<1>3. traces \in Seq(TraceSet) /\ net \subseteq Packets /\ f \in Files /\ Matched(traces, net)
  BY <1>1, PacketTypes DEF Matched, Lists, Packets
<1>4. /\ Matched(us, net \ {m}) /\ m.server \in Servers(traces[k].pfsFileID)
      /\ traces[k].pfsFileID = f /\ traces[k].dataSizeInWindow[m.server] = SW_SENT
  <2>1. traces[k].ID = m.SubID
    BY <1>2
  <2>2. us = [traces EXCEPT ![k] = Received(traces[k], m.server)]
    BY DEF WithAnswer
  <2>3. Matched(traces, net) /\ m.kind \in DataKinds /\ Exchange(net, m.SubID, m.server) = {m}
    BY <1>1, <1>3
  <2>4. Matched(us, net \ {m})
    BY <2>1, <2>2, <2>3, ReceiveKeeps
  <2>5. AwaitedBy(traces[k], m)
    <3>1. PICK j \in DOMAIN traces : AwaitedBy(traces[j], m)
      BY <2>3, DataPacketFacts
    <3>2. j = k
      BY <2>1, <2>3, <3>1 DEF AwaitedBy, Matched, Lists
    <3>3. QED
      BY <3>1, <3>2
  <2>6. QED
    BY <2>4, <2>5 DEF AwaitedBy
<1>5. t \in TracesOn(f) /\ t \in TraceSet /\ SameStart(t, traces[k])
      /\ traces[k] \in TracesOn(f)
  <2>1. traces[k] \in TracesOn(f)
    BY <1>3, <1>4, TraceOf
  <2>2. t \in TracesOn(f) /\ SameStart(t, traces[k])
    BY <1>3, <1>4, <2>1, ReceivedFacts
  <2>3. QED
    BY <1>3, <2>1, <2>2 DEF TraceSet
<1>6. /\ DOMAIN us = DOMAIN traces /\ us[k] = t
      /\ \A j \in DOMAIN traces : j # k => us[j] = traces[j]
  BY DEF WithAnswer
<1>7. t.ID = m.SubID /\ t.pfsFileID = f /\ t.hasLayout = traces[k].hasLayout
  BY <1>2, <1>4, <1>5 DEF SameStart
<1>8. pfsFiles[f] = "set"
  BY <1>4 DEF Laid, SW_SENT, SW_NULL
<1>9. Laid(us, pfsFiles)
  <2> SUFFICES ASSUME NEW j \in DOMAIN us
               PROVE  /\ us[j].hasLayout = (pfsFiles[us[j].pfsFileID] = "set")
                      /\ pfsFiles[us[j].pfsFileID] # "set" =>
                           /\ us[j].unProcessedSize # 0
                           /\ \A i \in Servers(us[j].pfsFileID) :
                                us[j].dataSizeInWindow[i] = SW_NULL
    BY DEF Laid
  <2>1. CASE j # k
    BY <1>6, <2>1 DEF Laid
  <2>2. CASE j = k
    <3>1. traces[k].hasLayout = TRUE
      BY <1>4, <1>8 DEF Laid
    <3>2. us[j].hasLayout = TRUE /\ pfsFiles[us[j].pfsFileID] = "set"
      BY <1>6, <1>7, <1>8, <2>2, <3>1
    <3>3. QED
      BY <3>2
  <2>3. QED
    BY <2>1, <2>2
<1>10. OpenTraces(us, Open)
  BY <1>2, <1>6, <1>7 DEF OpenTraces
<1>11. Asked(pfsFiles, net \ {m})
  BY DEF Asked
<1>12. QED
  BY <1>3, <1>4, <1>5, <1>6, <1>7, <1>8, <1>9, <1>10, <1>11 DEF Answers

\* The last packet of an exchange arrives.
LEMMA LastDataKeeps ==
  ASSUME ClientInv, NEW m \in net, HandleLastDataPacket(m), config' = config
  PROVE  ClientInv'
<1> USE DEF ClientInv
<1>1. /\ m \in DataRecords /\ m.kind \in DataKinds
      /\ Exchange(net, m.SubID, m.server) = {m}
      /\ m.SubID \in Open
      /\ pfsFiles' = pfsFiles /\ issued' = issued
  BY LastFacts
<1>2. PICK k \in DOMAIN traces : \E t \in {Received(traces[k], m.server)} :
              /\ traces[k].ID = m.SubID
              /\ \/ /\ Status(t) = "NEED_WAIT"
                    /\ traces' = [traces EXCEPT ![k] = t]
                    /\ net' = net \ {m}
                    /\ appRequestQ' = appRequestQ /\ requestID' = requestID
                    /\ aborted' = aborted /\ answers' = answers
                 \/ /\ Status(t) = "ALL_DONE"
                    /\ traces' = RemoveAt(traces, k)
                    /\ appRequestQ' = Popped(appRequestQ, m.SubID)
                    /\ answers' = [answers EXCEPT ![m.SubID] = @ + 1]
                    /\ net' = net \ {m} /\ requestID' = requestID /\ aborted' = aborted
                 \/ /\ Status(t) = "MORE_TO_SEND"
                    /\ GenerateDataPacketRequests([traces EXCEPT ![k] = t], m.fileId,
                                                  net \ {m})
                    /\ appRequestQ' = appRequestQ /\ answers' = answers
  BY LastFacts, Zenon
<1> DEFINE t == Received(traces[k], m.server)
           us == [traces EXCEPT ![k] = t]
           f == m.fileId
<1>3. traces[k].ID = m.SubID /\ t = Received(traces[k], m.server) /\ f = m.fileId
      /\ us = [traces EXCEPT ![k] = t] /\ traces \in Seq(TraceSet)
  BY <1>2 DEF Matched, Lists
<1> HIDE DEF t, us, f
<1> HIDE DEF ClientInv
<1>31. HandleLastDataPacket(m) /\ k \in DOMAIN traces /\ ClientInv /\ m \in net
       /\ us = WithAnswer(traces, k, m.server)
  BY <1>3 DEF WithAnswer
<1>4a. Answers(m, f, k, t, us)
  BY <1>3, <1>31, AnswerFacts
<1>4. /\ f \in Files /\ t \in TraceSet /\ t.ID = m.SubID /\ t.pfsFileID = f
      /\ DOMAIN us = DOMAIN traces /\ us[k] = t
      /\ pfsFiles[f] = "set"
      /\ Matched(us, net \ {m}) /\ Laid(us, pfsFiles) /\ OpenTraces(us, Open)
      /\ Asked(pfsFiles, net \ {m})
  BY <1>4a DEF Answers
<1> USE DEF ClientInv
<1>5. CASE /\ Status(t) = "NEED_WAIT"
            /\ traces' = us /\ net' = net \ {m}
            /\ appRequestQ' = appRequestQ /\ requestID' = requestID
            /\ aborted' = aborted /\ answers' = answers
  <2>1. Open' = Open
    BY <1>1, <1>5 DEF Open
  <2>2. ClientTypes'
    BY <1>1, <1>5 DEF ClientTypes
  <2>3. QED
    BY <1>1, <1>4, <1>5, <2>1, <2>2
<1>6. CASE /\ Status(t) = "ALL_DONE"
            /\ traces' = RemoveAt(traces, k)
            /\ appRequestQ' = Popped(appRequestQ, m.SubID)
            /\ answers' = [answers EXCEPT ![m.SubID] = @ + 1]
            /\ net' = net \ {m} /\ requestID' = requestID /\ aborted' = aborted
  <2>1. traces' = RemoveAt(us, k)
    BY <1>3, <1>4, <1>6, RemoveChanged
  <2>2. \A i \in Servers(t.pfsFileID) : t.dataSizeInWindow[i] # SW_SENT
    <3>1. AwaitedFrom(t) = {}
      BY <1>6 DEF Status
    <3>2. QED
      BY <3>1 DEF AwaitedFrom
  <2>3. /\ Matched(traces', net \ {m})
        /\ \A j \in DOMAIN traces' : \E i \in DOMAIN us \ {k} : traces'[j] = us[i]
        /\ \A i \in DOMAIN us \ {k} : \E j \in DOMAIN traces' : traces'[j] = us[i]
    <3>1. k \in DOMAIN us /\ \A i \in Servers(us[k].pfsFileID) :
                               us[k].dataSizeInWindow[i] # SW_SENT
      BY <1>4, <2>2
    <3>2. QED
      BY <1>4, <2>1, <3>1, RemoveKeeps
  <2>4. /\ answers \in [Requests -> Nat] /\ m.SubID \in Requests
    <3>1. DOMAIN issued \subseteq Requests
      BY ConfigFacts DEF ClientTypes
    <3>2. QED
      BY <1>1, <3>1 DEF Open, ClientTypes
  <2>5. /\ answers' \in [Requests -> Nat] /\ answers'[m.SubID] # 0
        /\ \A r \in Requests \ {m.SubID} : answers'[r] = answers[r]
    BY <1>6, <2>4
  <2>6. Open' = Open \ {m.SubID}
    <3>1. DOMAIN issued \subseteq Requests
      BY ConfigFacts DEF ClientTypes
    <3>2. QED
      BY <1>1, <2>5, <3>1 DEF Open
  <2>7. Queued(appRequestQ', Open')
    <3>1. Queued(Popped(appRequestQ, m.SubID), Open \ {m.SubID})
      BY <1>1, QueuePop
    <3>2. QED
      BY <1>6, <2>6, <3>1
  <2>8. OpenTraces(traces', Open')
    <3>1. \A i, j \in DOMAIN us : us[i].ID = us[j].ID => i = j
      BY <1>4 DEF Matched, Lists
    <3>2. QED
      BY <1>4, <2>3, <2>6, <3>1 DEF OpenTraces
  <2>9. Laid(traces', pfsFiles)
    BY <1>4, <2>3 DEF Laid
  <2>10. \A r \in Requests \ DOMAIN issued : answers'[r] = 0
    BY <1>1, <2>5 DEF ClientTypes, Open
  <2>11. ClientTypes'
    BY <1>1, <1>6, <2>5, <2>10 DEF ClientTypes
  <2>12. QED
    BY <1>1, <1>4, <1>6, <2>3, <2>7, <2>8, <2>9, <2>11
<1>7. CASE /\ Status(t) = "MORE_TO_SEND"
            /\ GenerateDataPacketRequests(us, f, net \ {m})
            /\ appRequestQ' = appRequestQ /\ answers' = answers
  <2>1. requestID \in Nat /\ aborted = FALSE
    BY DEF ClientTypes
  <2>2. /\ Matched(traces', net') /\ Laid(traces', pfsFiles) /\ OpenTraces(traces', Open)
        /\ Asked(pfsFiles, net') /\ requestID' \in Nat /\ aborted' = FALSE
    BY <1>4, <1>7, <2>1, GenerateKeeps
  <2>3. Open' = Open
    BY <1>1, <1>7 DEF Open
  <2>4. ClientTypes'
    BY <1>1, <1>7, <2>2 DEF ClientTypes
  <2>5. QED
    BY <1>1, <1>7, <2>2, <2>3, <2>4
<1>8. QED
  BY <1>2, <1>5, <1>6, <1>7 DEF t, us, f

\* A step that changes nothing.
LEMMA StutterKeeps ==
  ASSUME ClientInv, UNCHANGED vars
  PROVE  ClientInv'
<1>1. /\ config' = config /\ traces' = traces /\ pfsFiles' = pfsFiles
      /\ appRequestQ' = appRequestQ /\ requestID' = requestID /\ net' = net
      /\ aborted' = aborted /\ issued' = issued /\ answers' = answers
  BY DEF vars
<1>2. Open' = Open
  BY <1>1 DEF Open
<1>3. ClientTypes'
  BY <1>1 DEF ClientInv, ClientTypes
<1>4. QED
  BY <1>1, <1>2, <1>3 DEF ClientInv

\* Every step keeps the invariant.
LEMMA ClientStepKeeps ==
  ASSUME RoomForRequests, ClientInv, [Next]_vars
  PROVE  ClientInv'
<1>1. CASE UNCHANGED vars
  BY <1>1, StutterKeeps
<1>2. CASE Next
  <2>1. config' = config
    BY <1>2 DEF Next
  <2>2. CASE \E f \in config.files, o \in config.offsets, s \in config.lengths, read \in BOOLEAN :
               HandleNewTrace(f, o, s, read)
    <3>1. PICK f \in config.files, o \in config.offsets, s \in config.lengths,
               read \in BOOLEAN : HandleNewTrace(f, o, s, read)
      BY <2>2
    <3>2. QED
      BY <2>1, <3>1, NewTraceKeeps
  <2>3. CASE ClientStep
    <3>1. PICK m \in net : \/ HandleMetadataPacketResponse(m) \/ HandleWriteResponse(m)
                           \/ HandleReadData(m) \/ HandleLastDataPacket(m)
      BY <2>3 DEF ClientStep
    <3>2. QED
      BY <2>1, <3>1, LayoutResponseKeeps, WriteResponseKeeps, ReadDataKeeps, LastDataKeeps
  <2>4. CASE ServerStep
    <3>1. PICK m \in net : \/ HandleMetadataPacket(m) \/ ServeRead(m)
                           \/ ServeWriteRequest(m) \/ ServeWriteData(m)
      BY <2>4 DEF ServerStep
    <3>2. QED
      BY <2>1, <3>1, LayoutRequestKeeps, ServeReadKeeps, ServeWriteRequestKeeps,
         ServeWriteDataKeeps
  <2>5. QED
    BY <1>2, <2>2, <2>3, <2>4 DEF Next
<1>3. QED
  BY <1>1, <1>2

\* The invariant says that windows and packets match.
LEMMA ClientInvMatches ==
  ASSUME ClientInv
  PROVE  WindowMatchesPackets
<1>1. /\ pfsFiles \in [Files -> {"unknown", "queried", "set"}] /\ requestID \in Nat
      /\ aborted = FALSE /\ answers \in [Requests -> Nat]
  BY DEF ClientInv, ClientTypes, Known
<1>2. \A k \in DOMAIN traces : traces[k].ID \in DOMAIN issued
  BY DEF ClientInv, OpenTraces, Open
<1>3. ASSUME NEW k \in DOMAIN traces, NEW i \in Servers(traces[k].pfsFileID)
      PROVE  traces[k].dataSizeInWindow[i] = SW_SENT <=>
               \E m \in DataPackets : m.SubID = traces[k].ID /\ m.server = i
  <2>1. \A m \in net : m \in DataPackets <=> m.kind \in DataKinds
    <3>1. net \subseteq Packets
      BY DEF ClientInv, Matched, Lists
    <3>2. \A m \in net : m.kind \in DataKinds <=> m.kind \notin LayoutKinds
      BY <3>1, PacketTypes
    <3>3. QED
      BY <3>2 DEF DataPackets, LayoutKinds
  <2>2. DataPackets \subseteq net
    BY DEF DataPackets
  <2>3. ASSUME traces[k].dataSizeInWindow[i] = SW_SENT
        PROVE  \E m \in DataPackets : m.SubID = traces[k].ID /\ m.server = i
    <3>1. OneTurn(Exchange(net, traces[k].ID, i))
      BY <2>3 DEF ClientInv, Matched, Answering
    <3>2. PICK m \in Exchange(net, traces[k].ID, i) : TRUE
      BY <3>1 DEF OneTurn
    <3>3. QED
      BY <2>1, <3>2 DEF Exchange
  <2>4. ASSUME NEW m \in DataPackets, m.SubID = traces[k].ID, m.server = i
        PROVE  traces[k].dataSizeInWindow[i] = SW_SENT
    <3>1. PICK j \in DOMAIN traces : AwaitedBy(traces[j], m)
      BY <2>1, <2>2, DataPacketFacts
    <3>2. j = k
      BY <2>4, <3>1 DEF AwaitedBy, ClientInv, Matched, Lists
    <3>3. QED
      BY <2>4, <3>1, <3>2 DEF AwaitedBy
  <2>5. QED
    BY <2>3, <2>4
<1>4. TypeOK
  BY <1>1, <1>2 DEF TypeOK
<1>5. QED
  BY <1>1, <1>3, <1>4 DEF WindowMatchesPackets

\* When appRequestQ lets out as many requests as the application may have open, the
\* invariant holds of every state.
THEOREM ClientInvariant ==
  RoomForRequests => (Spec => []ClientInv)
<1> SUFFICES ASSUME RoomForRequests
             PROVE  Spec => []ClientInv
  OBVIOUS
<1>1. Init => ClientInv
  BY ClientInit
<1>2. ClientInv /\ [Next]_vars => ClientInv'
  BY ClientStepKeeps
<1>3. QED
  BY <1>1, <1>2, PTL DEF Spec

\* As long as a slot waits for an answer one is on its way, and no answer that it does not
\* wait for; no packet ends the simulation (processLastDataPacketResponse,
\* generateDataPacketRequests).
THEOREM WindowMatchesPacketsAlways ==
  RoomForRequests => (Spec => []WindowMatchesPackets)
<1> SUFFICES ASSUME RoomForRequests
             PROVE  Spec => []WindowMatchesPackets
  OBVIOUS
<1>1. Spec => []ClientInv
  BY ClientInvariant
<1>2. ClientInv => WindowMatchesPackets
  BY ClientInvMatches
<1>3. QED
  BY <1>1, <1>2, PTL

-----------------------------------------------------------------------------
(* What was transferred: of every trace, the places its packets were sent for, without those *)
(* that a packet is still to be served for.                                                  *)

\* A request that needs more than one window has windows of whole rounds: the windows of a
\* trace all begin on the server, and in the stripe, where the first one does.
FitsRounds(f, n) == n <= MaxWindowSize \/ MaxWindowSize % WindowSize(f) = 0
WholeRounds == \A c \in Configurations : \A f \in c.files, s \in c.lengths : FitsRounds(f, s)

\* What is still to be transferred of a slot, and the place it is sent up to.
Pending(t, i) == IF t.dataSizeInWindow[i] = SW_SENT THEN t.sentPktSize[i]
                 ELSE IF t.dataSizeInWindow[i] > 0 THEN t.dataSizeInWindow[i] ELSE 0
SentTo(t, i)  == IF t.dataSizeInWindow[i] = SW_SENT THEN t.dsoffsets[i] + t.sentPktSize[i]
                 ELSE t.dsoffsets[i]

\* The packets of an exchange that a server is still to serve.
ToServe == {"PFS_R_REQ", "PFS_W_REQ", "PFS_W_RESP", "PFS_W_DATA", "PFS_W_DATA_LAST"}
Ahead(pk, r, i) == {m \in Exchange(pk, r, i) : m.kind \in ToServe}
Spans(m, x) == m.lowoffset <= x /\ x < m.lowoffset + m.size

\* The window of a trace goes up to byte e.
Reaches(t, e) ==
  /\ t.offset <= e
  /\ t.unProcessedSize # 0 => BeginsAt(t, e)
  /\ \A i \in Servers(t.pfsFileID) :
       /\ Low(t.pfsFileID, i, t.offset) <= t.dsoffsets[i]
       /\ t.dsoffsets[i] + Pending(t, i) = Low(t.pfsFileID, i, e)

\* What is sent and what is not processed yet makes up the places of the request.
Extents(t, places) ==
  /\ FitsRounds(t.pfsFileID, t.unProcessedSize)
  /\ t.hasLayout => \E e \in Nat : /\ Reaches(t, e)
                                   /\ places = PlacesBetween(t.pfsFileID, t.offset,
                                                             e + t.unProcessedSize)
  /\ ~t.hasLayout => /\ places = PlacesBetween(t.pfsFileID, t.offset,
                                               t.offset + t.unProcessedSize)
                     /\ \A i \in Servers(t.pfsFileID) :
                          t.dsoffsets[i] = 0 /\ t.dataSizeInWindow[i] = SW_NULL

\* The packets to serve are for different places of their slot.
Spanned(t, pk) ==
  \A i \in Servers(t.pfsFileID) :
    /\ \A m \in Ahead(pk, t.ID, i) : /\ t.dataSizeInWindow[i] = SW_SENT
                                     /\ t.dsoffsets[i] <= m.lowoffset
                                     /\ m.lowoffset + m.size <= SentTo(t, i)
    /\ \A m, n \in Ahead(pk, t.ID, i) : \A x \in Nat : Spans(m, x) /\ Spans(n, x) => m = n

MovedOf(t, pk) ==
  {p \in Servers(t.pfsFileID) \X Nat :
     /\ Low(t.pfsFileID, p[1], t.offset) <= p[2] /\ p[2] < SentTo(t, p[1])
     /\ \A m \in Ahead(pk, t.ID, p[1]) : ~Spans(m, p[2])}

Exact(t, pk, places, bag) ==
  Extents(t, places) /\ Spanned(t, pk) /\ bag = SetToBag(MovedOf(t, pk))

Told(ts, pk, wanted, mv) ==
  \A k \in DOMAIN ts : Exact(ts[k], pk, wanted[ts[k].ID], mv[ts[k].ID])

TransferInv ==
  /\ moved = [r \in Requests |-> moved[r]]
  /\ \A r \in Requests \ DOMAIN issued : moved[r] = EmptyBag
  /\ Told(traces, net, issued, moved)

\* Packets of another exchange do not matter.
LEMMA AheadDecides ==
  ASSUME NEW t, NEW pk, NEW P, NEW places, NEW bag, Exact(t, pk, places, bag),
         \A i \in Servers(t.pfsFileID) : Ahead(P, t.ID, i) = Ahead(pk, t.ID, i)
  PROVE  Exact(t, P, places, bag)
<1>1. Spanned(t, P)
  BY DEF Exact, Spanned
<1>2. MovedOf(t, P) = MovedOf(t, pk)
  <2>1. ASSUME NEW p \in Servers(t.pfsFileID) \X Nat
        PROVE  Ahead(P, t.ID, p[1]) = Ahead(pk, t.ID, p[1])
    OBVIOUS
  <2>2. QED
    BY <2>1 DEF MovedOf
<1>3. QED
  BY <1>1, <1>2 DEF Exact

\* The size of a slot that is still to be transferred, and the place it is sent up to.
LEMMA PendingFacts ==
  ASSUME NEW f \in Files, NEW t \in TracesOn(f), NEW i \in Servers(f)
  PROVE  /\ Pending(t, i) \in Nat /\ SentTo(t, i) \in Nat /\ t.dsoffsets[i] \in Nat
         /\ t.dsoffsets[i] <= SentTo(t, i)
<1>1. t.dsoffsets[i] \in Nat /\ t.sentPktSize[i] \in Nat /\ t.dataSizeInWindow[i] \in Slots
  BY TraceTypes
<1>2. QED
  BY <1>1 DEF Pending, SentTo, Slots, SW_SENT, SW_RECEIVED

\* A window is opened when all before it was transferred.
LEMMA OpenExact ==
  ASSUME NEW f \in Files, NEW t \in TracesOn(f), WellBegun(t), t.hasLayout,
         NEW w, w = AtNextPackets(t), NEW pk, NEW places, NEW bag, Exact(t, pk, places, bag)
  PROVE  Exact(w, pk, places, bag)
<1> DEFINE n == WindowBytes(t)
           u == t.unProcessedSize
<1>1. CASE w = t
  BY <1>1
<1>2. CASE w # t
  <2>1. /\ w \in TracesOn(f) /\ SameStart(w, t)
        /\ w.dsoffsets = t.dsoffsets /\ w.sentPktSize = t.sentPktSize
        /\ u # 0 /\ n \in 1 .. MaxWindowSize
        /\ w.unProcessedSize = u - n
        /\ w.unProcessedSize # 0 => n = MaxWindowSize
        /\ \A i \in Servers(f) : /\ t.dataSizeInWindow[i] \in {SW_NULL, SW_RECEIVED}
                                 /\ w.dataSizeInWindow[i] \in Nat
        /\ \A b \in Nat : BeginsAt(t, b) =>
             \A i \in Servers(f) :
               w.dataSizeInWindow[i] = Low(f, i, b + n) - Low(f, i, b)
    BY <1>2, NextPacketsFacts
  <2>2. /\ t.pfsFileID = f /\ t.offset \in Nat /\ u \in Nat
        /\ \A i \in Servers(f) : t.dsoffsets[i] \in Nat
    BY TraceTypes
  <2>3. /\ w.pfsFileID = f /\ w.ID = t.ID /\ w.offset = t.offset /\ w.hasLayout
        /\ w.offset_start_server = t.offset_start_server
        /\ w.offset_start_position = t.offset_start_position
    BY <2>1, <2>2 DEF SameStart
  <2>4. /\ MaxWindowSize \in Nat \ {0} /\ WindowSize(f) \in Nat \ {0}
        /\ u - n \in Nat /\ n \in Nat /\ (u <= MaxWindowSize => n = u)
    BY <2>1, <2>2, MaxWindowSizeAssumption, RoundFacts DEF WindowBytes
  <2>5. PICK e \in Nat : Reaches(t, e) /\ places = PlacesBetween(f, t.offset, e + u)
    BY <2>2 DEF Exact, Extents
  <2>6. ASSUME NEW i \in Servers(f)
        PROVE  /\ Pending(t, i) = 0 /\ SentTo(t, i) = t.dsoffsets[i]
               /\ Pending(w, i) = w.dataSizeInWindow[i] /\ SentTo(w, i) = w.dsoffsets[i]
    BY <2>1 DEF Pending, SentTo, SW_SENT, SW_NULL, SW_RECEIVED
  <2>7. BeginsAt(t, e) /\ t.offset <= e
    BY <2>1, <2>5 DEF Reaches
  <2>8. ASSUME NEW i \in Servers(f)
        PROVE  /\ Low(f, i, t.offset) <= w.dsoffsets[i]
               /\ w.dsoffsets[i] + Pending(w, i) = Low(f, i, e + n)
    <3>1. Low(f, i, t.offset) <= t.dsoffsets[i] /\ t.dsoffsets[i] + 0 = Low(f, i, e)
      BY <2>2, <2>5, <2>6 DEF Reaches
    <3>2. w.dataSizeInWindow[i] = Low(f, i, e + n) - Low(f, i, e)
      BY <2>1, <2>7
    <3>3. Low(f, i, e) \in Nat /\ Low(f, i, e + n) \in Nat
      BY <2>4, LowGrows
    <3> HIDE DEF n
    <3>4. QED
      BY <2>1, <2>2, <2>6, <3>1, <3>2, <3>3
  <2>9. FitsRounds(f, u)
    BY <2>2 DEF Exact, Extents
  <2>10. w.unProcessedSize # 0 => BeginsAt(w, e + n)
    <3> SUFFICES ASSUME w.unProcessedSize # 0 PROVE BeginsAt(w, e + n)
      OBVIOUS
    <3>1. n = MaxWindowSize /\ ~(u <= MaxWindowSize)
      BY <2>1, <2>4
    <3>2. n % WindowSize(f) = 0
      BY <2>9, <3>1 DEF FitsRounds
    <3> HIDE DEF n
    <3>3. (e + n) % WindowSize(f) = e % WindowSize(f)
      BY <2>4, <3>2, WholeRoundsFit
    <3>4. QED
      BY <2>2, <2>3, <2>7, <3>3 DEF BeginsAt
  <2>11. FitsRounds(f, u - n)
    BY <2>2, <2>4, <2>9 DEF FitsRounds
  <2> HIDE DEF n, u
  <2>12. e + n \in Nat /\ (e + n) + (u - n) = e + u /\ t.offset <= e + n
    BY <2>2, <2>4, <2>7 DEF u
  <2>13. Reaches(w, e + n)
    BY <2>3, <2>8, <2>10, <2>12 DEF Reaches
  <2>14. places = PlacesBetween(f, t.offset, (e + n) + w.unProcessedSize)
    BY <2>1, <2>5, <2>12
  <2>15. Extents(w, places)
    BY <2>1, <2>3, <2>11, <2>12, <2>13, <2>14 DEF Extents
  <2>16. \A i \in Servers(f) : Ahead(pk, t.ID, i) = {}
    <3>1. \A i \in Servers(f) : t.dataSizeInWindow[i] # SW_SENT
      BY <2>1 DEF SW_NULL, SW_RECEIVED, SW_SENT
    <3>2. QED
      BY <2>2, <3>1 DEF Exact, Spanned
  <2>17. Spanned(w, pk)
    BY <2>3, <2>16 DEF Spanned
  <2>18. MovedOf(w, pk) = MovedOf(t, pk)
    <3>1. \A p \in Servers(f) \X Nat : SentTo(w, p[1]) = SentTo(t, p[1])
      BY <2>1, <2>6
    <3>2. QED
      BY <2>2, <2>3, <3>1 DEF MovedOf
  <2>19. QED
    BY <2>15, <2>17, <2>18 DEF Exact
<1>3. QED
  BY <1>1, <1>2

\* The packets of a window are for the places that it adds.
LEMMA SentExact ==
  ASSUME NEW f \in Files, NEW t \in TracesOn(f), t.hasLayout, requestID \in Nat,
         NEW w, w = AllSent(t), NEW pk, NEW places, NEW bag, Exact(t, pk, places, bag)
  PROVE  Exact(w, pk \cup PacketsOf(t), places, bag)
<1> DEFINE P == PacketsOf(t)
           r == t.ID
<1>1. /\ w \in TracesOn(f) /\ SameStart(w, t)
      /\ w.dsoffsets = t.dsoffsets /\ w.unProcessedSize = t.unProcessedSize
      /\ \A i \in Servers(f) :
           /\ i \in Unsent(t) => /\ w.dataSizeInWindow[i] = SW_SENT
                                 /\ w.sentPktSize[i] = t.dataSizeInWindow[i]
           /\ i \notin Unsent(t) => /\ w.dataSizeInWindow[i] = t.dataSizeInWindow[i]
                                    /\ w.sentPktSize[i] = t.sentPktSize[i]
  BY AllSentFacts
<1>2. /\ t.pfsFileID = f /\ t.offset \in Nat
      /\ \A i \in Servers(f) : /\ t.dsoffsets[i] \in Nat /\ t.sentPktSize[i] \in Nat
                               /\ t.dataSizeInWindow[i] \in Slots
  BY TraceTypes
<1>3. /\ w.pfsFileID = f /\ w.ID = r /\ w.offset = t.offset /\ w.hasLayout
      /\ w.offset_start_server = t.offset_start_server
      /\ w.offset_start_position = t.offset_start_position
  BY <1>1, <1>2 DEF SameStart
<1>4. Unsent(t) = {i \in Servers(f) : t.dataSizeInWindow[i] > 0}
  BY UnsentFacts
<1>5. /\ \A m \in P : /\ m \in DataRecords /\ m.server \in Unsent(t)
                      /\ m.kind \in {"PFS_R_REQ", "PFS_W_REQ"}
                      /\ m.SubID = r
                      /\ m.lowoffset = t.dsoffsets[m.server]
                      /\ m.size = t.dataSizeInWindow[m.server]
      /\ \A i \in Unsent(t) : \E m \in P : m.server = i
      /\ \A m, n \in P : m.server = n.server => m = n
  BY PacketsOfFacts
<1> HIDE DEF P, r
<1>6. ASSUME NEW i \in Servers(f)
      PROVE  /\ Pending(w, i) = Pending(t, i)
             /\ i \notin Unsent(t) => SentTo(w, i) = SentTo(t, i)
             /\ i \in Unsent(t) => /\ SentTo(w, i) = t.dsoffsets[i] + t.dataSizeInWindow[i]
                                   /\ SentTo(t, i) = t.dsoffsets[i]
                                   /\ t.dataSizeInWindow[i] \in Nat \ {0}
                                   /\ t.dataSizeInWindow[i] # SW_SENT
  BY <1>1, <1>2, <1>4 DEF Pending, SentTo, SW_SENT, SW_RECEIVED, Slots
<1>7. Extents(w, places)
  <2>1. PICK e \in Nat : Reaches(t, e) /\ places = PlacesBetween(f, t.offset,
                                                                  e + t.unProcessedSize)
    BY <1>2 DEF Exact, Extents
  <2>2. Reaches(w, e)
    BY <1>1, <1>2, <1>3, <1>6, <2>1 DEF Reaches, BeginsAt
  <2>3. FitsRounds(w.pfsFileID, w.unProcessedSize)
    BY <1>1, <1>2, <1>3 DEF Exact, Extents
  <2>4. QED
    BY <1>1, <1>3, <2>1, <2>2, <2>3 DEF Extents
<1>8. ASSUME NEW i \in Servers(f), i \notin Unsent(t)
      PROVE  Ahead(pk \cup P, r, i) = Ahead(pk, r, i)
  BY <1>5, <1>8 DEF Ahead, Exchange
<1>9. ASSUME NEW i \in Unsent(t)
      PROVE  \E m \in P : /\ Ahead(pk \cup P, r, i) = {m} /\ Ahead(pk, r, i) = {}
                          /\ m.lowoffset = t.dsoffsets[i] /\ m.size = t.dataSizeInWindow[i]
  <2>1. Ahead(pk, r, i) = {}
    BY <1>2, <1>4, <1>6 DEF Exact, Spanned, r
  <2>2. PICK m \in P : m.server = i
    BY <1>5
  <2>3. m.kind \in ToServe /\ m.kind \in DataKinds /\ m.SubID = r
    BY <1>5 DEF ToServe, DataKinds, Turns
  <2>4. \A n \in P : n.server = i => n = m
    BY <1>5, <2>2
  <2>5. Ahead(pk \cup P, r, i) = {m}
    <3>1. \A n \in Ahead(pk \cup P, r, i) : n = m
      BY <2>1, <2>4 DEF Ahead, Exchange
    <3>2. m \in Ahead(pk \cup P, r, i)
      BY <2>2, <2>3 DEF Ahead, Exchange
    <3>3. QED
      BY <3>1, <3>2
  <2>6. QED
    BY <1>5, <2>1, <2>2, <2>5
<1>10. Spanned(w, pk \cup P)
  <2> SUFFICES ASSUME NEW i \in Servers(f)
               PROVE  /\ \A m \in Ahead(pk \cup P, r, i) :
                           /\ w.dataSizeInWindow[i] = SW_SENT
                           /\ w.dsoffsets[i] <= m.lowoffset
                           /\ m.lowoffset + m.size <= SentTo(w, i)
                      /\ \A m, n \in Ahead(pk \cup P, r, i) :
                           \A x \in Nat : Spans(m, x) /\ Spans(n, x) => m = n
    BY <1>3 DEF Spanned
  <2>1. CASE i \in Unsent(t)
    <3>1. PICK m \in P : /\ Ahead(pk \cup P, r, i) = {m}
                         /\ m.lowoffset = t.dsoffsets[i] /\ m.size = t.dataSizeInWindow[i]
      BY <1>9, <2>1
    <3>2. /\ w.dataSizeInWindow[i] = SW_SENT /\ w.dsoffsets[i] = t.dsoffsets[i]
          /\ SentTo(w, i) = t.dsoffsets[i] + t.dataSizeInWindow[i]
          /\ t.dsoffsets[i] \in Nat /\ t.dataSizeInWindow[i] \in Nat
      BY <1>1, <1>2, <1>6, <2>1
    <3>3. \A q \in Ahead(pk \cup P, r, i) : q = m
      BY <3>1
    <3>4. w.dsoffsets[i] <= m.lowoffset /\ m.lowoffset + m.size <= SentTo(w, i)
      BY <3>1, <3>2
    <3>5. QED
      BY <3>2, <3>3, <3>4
  <2>2. CASE i \notin Unsent(t)
    <3>1. Ahead(pk \cup P, r, i) = Ahead(pk, r, i)
      BY <1>8, <2>2
    <3>2. /\ w.dataSizeInWindow[i] = t.dataSizeInWindow[i]
          /\ w.dsoffsets[i] = t.dsoffsets[i] /\ SentTo(w, i) = SentTo(t, i)
      BY <1>1, <1>6, <2>2
    <3>3. QED
      BY <1>2, <3>1, <3>2 DEF Exact, Spanned, r
  <2>3. QED
    BY <2>1, <2>2
<1>11. MovedOf(w, pk \cup P) = MovedOf(t, pk)
  <2>1. ASSUME NEW p \in Servers(f) \X Nat
        PROVE  (/\ p[2] < SentTo(w, p[1])
                /\ \A m \in Ahead(pk \cup P, r, p[1]) : ~Spans(m, p[2]))
               <=> (/\ p[2] < SentTo(t, p[1])
                    /\ \A m \in Ahead(pk, r, p[1]) : ~Spans(m, p[2]))
    <3> DEFINE i == p[1]
               x == p[2]
    <3>1. i \in Servers(f) /\ x \in Nat
      OBVIOUS
    <3> HIDE DEF i, x
    <3>2. CASE i \in Unsent(t)
      <4>1. PICK m \in P : /\ Ahead(pk \cup P, r, i) = {m} /\ Ahead(pk, r, i) = {}
                           /\ m.lowoffset = t.dsoffsets[i] /\ m.size = t.dataSizeInWindow[i]
        BY <1>9, <3>2
      <4>2. /\ SentTo(w, i) = t.dsoffsets[i] + t.dataSizeInWindow[i]
            /\ SentTo(t, i) = t.dsoffsets[i]
            /\ t.dsoffsets[i] \in Nat /\ t.dataSizeInWindow[i] \in Nat \ {0}
        BY <1>2, <1>6, <3>1, <3>2
      <4>3. (x < SentTo(w, i) /\ ~Spans(m, x)) <=> x < SentTo(t, i)
        BY <3>1, <4>1, <4>2 DEF Spans
      <4>4. QED
        BY <4>1, <4>3 DEF i, x
    <3>3. CASE i \notin Unsent(t)
      <4>1. Ahead(pk \cup P, r, i) = Ahead(pk, r, i) /\ SentTo(w, i) = SentTo(t, i)
        BY <1>6, <1>8, <3>1, <3>3
      <4>2. QED
        BY <4>1 DEF i, x
    <3>4. QED
      BY <3>2, <3>3
  <2>2. QED
    BY <1>2, <1>3, <2>1 DEF MovedOf, r
<1>12. QED
  BY <1>7, <1>10, <1>11 DEF Exact, P

\* An answer moves the place a slot begins at up to the place it was sent up to.
LEMMA ReceivedExact ==
  ASSUME NEW f \in Files, NEW t \in TracesOn(f), NEW i \in Servers(f),
         t.dataSizeInWindow[i] = SW_SENT, NEW w, w = Received(t, i),
         NEW pk, NEW places, NEW bag, Exact(t, pk, places, bag), Ahead(pk, t.ID, i) = {}
  PROVE  Exact(w, pk, places, bag)
<1>1. /\ w \in TracesOn(f) /\ SameStart(w, t)
      /\ w.unProcessedSize = t.unProcessedSize /\ w.sentPktSize = t.sentPktSize
      /\ w.dataSizeInWindow[i] = SW_RECEIVED
      /\ w.dsoffsets[i] = t.dsoffsets[i] + t.sentPktSize[i]
      /\ \A j \in Servers(f) \ {i} : /\ w.dataSizeInWindow[j] = t.dataSizeInWindow[j]
                                     /\ w.dsoffsets[j] = t.dsoffsets[j]
  BY ReceivedFacts
<1>2. /\ t.pfsFileID = f /\ t.offset \in Nat
      /\ \A j \in Servers(f) : t.dsoffsets[j] \in Nat /\ t.sentPktSize[j] \in Nat
  BY TraceTypes
<1>3. t.hasLayout
  BY <1>2 DEF Exact, Extents, SW_SENT, SW_NULL
<1>4. /\ w.pfsFileID = f /\ w.ID = t.ID /\ w.offset = t.offset /\ w.hasLayout
      /\ w.offset_start_server = t.offset_start_server
      /\ w.offset_start_position = t.offset_start_position
  BY <1>1, <1>2, <1>3 DEF SameStart
<1>5. ASSUME NEW j \in Servers(f)
      PROVE  /\ SentTo(w, j) = SentTo(t, j)
             /\ w.dsoffsets[j] + Pending(w, j) = t.dsoffsets[j] + Pending(t, j)
             /\ t.dsoffsets[j] <= w.dsoffsets[j] /\ w.dsoffsets[j] \in Nat
  BY <1>1, <1>2 DEF SentTo, Pending, SW_RECEIVED, SW_SENT
<1>6. Extents(w, places)
  <2>1. PICK e \in Nat : Reaches(t, e) /\ places = PlacesBetween(f, t.offset,
                                                                  e + t.unProcessedSize)
    BY <1>2, <1>3 DEF Exact, Extents
  <2>2. ASSUME NEW j \in Servers(f)
        PROVE  /\ Low(f, j, t.offset) <= w.dsoffsets[j]
               /\ w.dsoffsets[j] + Pending(w, j) = Low(f, j, e)
    <3>1. Low(f, j, t.offset) <= t.dsoffsets[j] /\ t.dsoffsets[j] + Pending(t, j) = Low(f, j, e)
      BY <1>2, <2>1 DEF Reaches
    <3>2. Low(f, j, t.offset) \in Nat
      BY <1>2, PlaceFacts
    <3>3. QED
      BY <1>2, <1>5, <3>1, <3>2
  <2>3. Reaches(w, e)
    BY <1>1, <1>2, <1>4, <2>1, <2>2 DEF Reaches, BeginsAt
  <2>4. FitsRounds(w.pfsFileID, w.unProcessedSize)
    BY <1>1, <1>2, <1>4 DEF Exact, Extents
  <2>5. QED
    BY <1>1, <1>4, <2>1, <2>3, <2>4 DEF Extents
<1>7. Spanned(w, pk)
  <2> SUFFICES ASSUME NEW j \in Servers(f)
               PROVE  /\ \A m \in Ahead(pk, t.ID, j) :
                           /\ w.dataSizeInWindow[j] = SW_SENT
                           /\ w.dsoffsets[j] <= m.lowoffset
                           /\ m.lowoffset + m.size <= SentTo(w, j)
                      /\ \A m, n \in Ahead(pk, t.ID, j) :
                           \A x \in Nat : Spans(m, x) /\ Spans(n, x) => m = n
    BY <1>4 DEF Spanned
  <2>1. CASE j = i
    BY <2>1
  <2>2. CASE j # i
    <3>1. /\ w.dataSizeInWindow[j] = t.dataSizeInWindow[j]
          /\ w.dsoffsets[j] = t.dsoffsets[j] /\ SentTo(w, j) = SentTo(t, j)
      BY <1>1, <1>5, <2>2
    <3>2. QED
      BY <1>2, <3>1 DEF Exact, Spanned
  <2>3. QED
    BY <2>1, <2>2
<1>8. MovedOf(w, pk) = MovedOf(t, pk)
  <2>1. \A p \in Servers(f) \X Nat : SentTo(w, p[1]) = SentTo(t, p[1])
    BY <1>5
  <2>2. QED
    BY <1>2, <1>4, <2>1 DEF MovedOf
<1>9. QED
  BY <1>6, <1>7, <1>8 DEF Exact

\* The layout pointer of a trace is not set.
NoLayout(t) == ~t.hasLayout

\* A layout leaves nothing sent yet.
LEMMA LayoutExact ==
  ASSUME NEW f \in Files, NEW t \in TracesOn(f), NoLayout(t), t.unProcessedSize # 0,
         NEW w, w = SetLayout(t),
         NEW pk, NEW places, NEW bag, Exact(t, pk, places, bag)
  PROVE  Exact(w, pk, places, bag) /\ w.ID = t.ID
<1> DEFINE n == WindowBytes(t)
           u == t.unProcessedSize
           o == t.offset
<1>1. /\ w \in TracesOn(f) /\ w.ID = t.ID /\ w.offset = o
      /\ n \in 1 .. MaxWindowSize
      /\ w.unProcessedSize = u - n
      /\ w.unProcessedSize # 0 => n = MaxWindowSize
      /\ BeginsAt(w, o)
      /\ \A i \in Servers(f) : /\ w.dsoffsets[i] = Low(f, i, o)
                               /\ w.dataSizeInWindow[i] \in Nat
                               /\ w.dataSizeInWindow[i] = Low(f, i, o + n) - Low(f, i, o)
  BY SetLayoutFacts
<1>2. w.hasLayout
  <2>1. w.ID = t.ID /\ w.hasLayout = TRUE
    BY SetLayoutFacts
  <2>2. QED
    BY <2>1
<1>3. t.pfsFileID = f /\ w.pfsFileID = f /\ o \in Nat /\ u \in Nat
  BY <1>1, TraceTypes
<1>4. /\ MaxWindowSize \in Nat \ {0} /\ WindowSize(f) \in Nat \ {0}
      /\ u - n \in Nat /\ n \in Nat /\ (u <= MaxWindowSize => n = u)
  BY <1>1, <1>3, MaxWindowSizeAssumption, RoundFacts DEF WindowBytes
<1>5. /\ FitsRounds(f, u) /\ places = PlacesBetween(f, o, o + u)
      /\ \A i \in Servers(f) : t.dsoffsets[i] = 0 /\ t.dataSizeInWindow[i] = SW_NULL
  BY <1>3 DEF Exact, Extents, NoLayout
<1>6. FitsRounds(f, u - n)
  BY <1>3, <1>4, <1>5 DEF FitsRounds
<1>7. w.unProcessedSize # 0 => BeginsAt(w, o + n)
  <2> SUFFICES ASSUME w.unProcessedSize # 0 PROVE BeginsAt(w, o + n)
    OBVIOUS
  <2>1. n = MaxWindowSize /\ ~(u <= MaxWindowSize)
    BY <1>1, <1>4
  <2>2. n % WindowSize(f) = 0
    BY <1>5, <2>1 DEF FitsRounds
  <2> HIDE DEF n, o
  <2>3. (o + n) % WindowSize(f) = o % WindowSize(f)
    BY <1>3, <1>4, <2>2, WholeRoundsFit
  <2>4. QED
    BY <1>1, <1>3, <2>3 DEF BeginsAt
<1> HIDE DEF n, u, o
<1>8. o + n \in Nat /\ (o + n) + (u - n) = o + u /\ o <= o + n
  BY <1>3, <1>4
<1>9. ASSUME NEW i \in Servers(f)
      PROVE  /\ Pending(w, i) = w.dataSizeInWindow[i] /\ SentTo(w, i) = Low(f, i, o)
             /\ Low(f, i, o) <= w.dsoffsets[i]
             /\ w.dsoffsets[i] + Pending(w, i) = Low(f, i, o + n)
             /\ Low(f, i, o) \in Nat
  <2>1. Pending(w, i) = w.dataSizeInWindow[i] /\ SentTo(w, i) = w.dsoffsets[i]
    BY <1>1 DEF Pending, SentTo, SW_SENT
  <2>2. Low(f, i, o) \in Nat /\ Low(f, i, o + n) \in Nat
    BY <1>3, <1>4, LowGrows
  <2>3. QED
    BY <1>1, <2>1, <2>2
<1>10. Reaches(w, o + n)
  BY <1>1, <1>3, <1>7, <1>8, <1>9 DEF Reaches
<1>11. Extents(w, places)
  <2>1. places = PlacesBetween(f, o, (o + n) + w.unProcessedSize)
    BY <1>1, <1>5, <1>8
  <2>2. QED
    BY <1>1, <1>2, <1>3, <1>6, <1>8, <1>10, <2>1 DEF Extents
<1>12. \A i \in Servers(f) : Ahead(pk, t.ID, i) = {}
  BY <1>3, <1>5 DEF Exact, Spanned, SW_NULL, SW_SENT
<1>13. Spanned(w, pk)
  BY <1>1, <1>3, <1>12 DEF Spanned
<1>14. MovedOf(w, pk) = {}
  <2>1. \A p \in Servers(f) \X Nat : ~(Low(f, p[1], o) <= p[2] /\ p[2] < SentTo(w, p[1]))
    <3> SUFFICES ASSUME NEW p \in Servers(f) \X Nat
                 PROVE  ~(Low(f, p[1], o) <= p[2] /\ p[2] < SentTo(w, p[1]))
      OBVIOUS
    <3>1. p[1] \in Servers(f) /\ p[2] \in Nat
      OBVIOUS
    <3>2. QED
      BY <1>9, <3>1
  <2>2. QED
    BY <1>1, <1>3, <2>1 DEF MovedOf
<1>15. MovedOf(t, pk) = {}
  <2>1. \A p \in Servers(f) \X Nat : ~(p[2] < SentTo(t, p[1]))
    <3> SUFFICES ASSUME NEW p \in Servers(f) \X Nat PROVE ~(p[2] < SentTo(t, p[1]))
      OBVIOUS
    <3>1. p[1] \in Servers(f) /\ p[2] \in Nat
      OBVIOUS
    <3>2. SentTo(t, p[1]) = 0
      BY <1>5, <3>1 DEF SentTo, SW_NULL, SW_SENT
    <3>3. QED
      BY <3>1, <3>2
  <2>2. QED
    BY <1>3, <2>1 DEF MovedOf
<1>16. QED
  BY <1>1, <1>11, <1>13, <1>14, <1>15 DEF Exact

\* Of a new trace nothing was transferred.
LEMMA NewExact ==
  ASSUME NEW f \in Files, NEW id \in Nat, NEW b \in Nat, NEW n \in Nat, NEW rd \in BOOLEAN,
         NEW t, t = NewTrace(id, f, b, n, rd), FitsRounds(f, n),
         NEW pk, \A i \in Servers(f) : Ahead(pk, id, i) = {}
  PROVE  Exact(t, pk, PlacesOf(f, b, n), EmptyBag)
<1>1. /\ t \in TracesOn(f) /\ t.ID = id /\ t.pfsFileID = f /\ t.offset = b
      /\ t.unProcessedSize = n /\ ~t.hasLayout
      /\ \A i \in Servers(f) : t.dataSizeInWindow[i] = SW_NULL
  <2>1. Fresh(NewTrace(id, f, b, n, rd), id, f, b, n)
    BY NewTraceFacts
  <2>2. Fresh(t, id, f, b, n)
    BY <2>1
  <2>3. QED
    BY <2>2 DEF Fresh
<1>2. t.dsoffsets = [i \in Servers(f) |-> 0]
  BY DEF NewTrace
<1>3. Extents(t, PlacesOf(f, b, n))
  BY <1>1, <1>2, PlacesOfFacts DEF Extents
<1>4. Spanned(t, pk)
  BY <1>1 DEF Spanned
<1>5. MovedOf(t, pk) = {}
  <2>1. \A p \in Servers(f) \X Nat : ~(p[2] < SentTo(t, p[1]))
    <3> SUFFICES ASSUME NEW p \in Servers(f) \X Nat PROVE ~(p[2] < SentTo(t, p[1]))
      OBVIOUS
    <3>1. p[1] \in Servers(f) /\ p[2] \in Nat
      OBVIOUS
    <3>2. SentTo(t, p[1]) = 0
      BY <1>1, <1>2, <3>1 DEF SentTo, SW_NULL, SW_SENT
    <3>3. QED
      BY <3>1, <3>2
  <2>2. QED
    BY <1>1, <2>1 DEF MovedOf
<1>6. QED
  BY <1>3, <1>4, <1>5 DEF Exact, EmptyBag

-----------------------------------------------------------------------------
(* All traces. *)

\* What generateDataPacketRequests keeps of it.
LEMMA GenerateExact ==
  ASSUME NEW ts, NEW pk, NEW f \in Files, NEW known, NEW wanted, NEW mv,
         GenerateDataPacketRequests(ts, f, pk),
         Matched(ts, pk), Laid(ts, known), known[f] = "set", requestID \in Nat,
         Told(ts, pk, wanted, mv)
  PROVE  Told(traces', net', wanted, mv)
<1>1. ts \in Seq(TraceSet) /\ \A k \in DOMAIN ts : WellBegun(ts[k])
  BY DEF Matched, Lists
<1>2. CASE traces' = ts /\ net' = pk
  BY <1>2
<1>3. CASE \E k \in DOMAIN ts : \E t \in {AtNextPackets(ts[k])} :
             /\ ts[k].pfsFileID = f
             /\ traces' = [ts EXCEPT ![k] = AllSent(t)]
             /\ net' = pk \cup PacketsOf(t)
  <2>1. PICK k \in DOMAIN ts : \E t \in {AtNextPackets(ts[k])} :
             /\ ts[k].pfsFileID = f
             /\ traces' = [ts EXCEPT ![k] = AllSent(t)]
             /\ net' = pk \cup PacketsOf(t)
    BY <1>3
  <2>2. PICK t \in {AtNextPackets(ts[k])} :
             /\ ts[k].pfsFileID = f
             /\ traces' = [ts EXCEPT ![k] = AllSent(t)]
             /\ net' = pk \cup PacketsOf(t)
    BY <2>1
  <2>3. t = AtNextPackets(ts[k]) /\ ts[k] \in TracesOn(f) /\ WellBegun(ts[k])
    BY <1>1, <2>2, TraceOf
  <2>4. t \in TracesOn(f) /\ SameStart(t, ts[k])
    BY <2>3, NextPacketsFacts
  <2>5. ts[k].hasLayout /\ t.hasLayout
    BY <2>2, <2>4 DEF Laid, SameStart
  <2> DEFINE w == AllSent(t)
  <2>6. w \in TracesOn(f) /\ SameStart(w, t)
    BY <2>4, AllSentFacts
  <2>7. w.ID = ts[k].ID /\ t.ID = ts[k].ID
    BY <2>4, <2>6 DEF SameStart
  <2>8. Exact(t, pk, wanted[ts[k].ID], mv[ts[k].ID])
    <3>1. Exact(ts[k], pk, wanted[ts[k].ID], mv[ts[k].ID])
      BY DEF Told
    <3>2. QED
      BY <2>3, <2>5, <3>1, OpenExact
  <2>9. Exact(w, pk \cup PacketsOf(t), wanted[ts[k].ID], mv[ts[k].ID])
    BY <2>4, <2>5, <2>8, SentExact
  <2> HIDE DEF w
  <2>10. /\ DOMAIN traces' = DOMAIN ts /\ traces'[k] = w
         /\ \A j \in DOMAIN ts : j # k => traces'[j] = ts[j]
    BY <2>2 DEF w
  <2> SUFFICES ASSUME NEW j \in DOMAIN ts
               PROVE  Exact(traces'[j], net', wanted[traces'[j].ID], mv[traces'[j].ID])
    BY <2>10 DEF Told
  <2>11. CASE j = k
    BY <2>2, <2>7, <2>9, <2>10, <2>11
  <2>12. CASE j # k
    <3>1. Exact(ts[j], pk, wanted[ts[j].ID], mv[ts[j].ID])
      BY DEF Told
    <3>2. ts[j].ID # ts[k].ID
      BY <2>12 DEF Matched, Lists
    <3>3. \A m \in PacketsOf(t) : m.SubID = ts[k].ID
      BY <2>4, <2>7, PacketsOfFacts
    <3>4. \A i \in Servers(ts[j].pfsFileID) : Ahead(net', ts[j].ID, i) = Ahead(pk, ts[j].ID, i)
      BY <2>2, <3>2, <3>3 DEF Ahead, Exchange
    <3>5. Exact(ts[j], net', wanted[ts[j].ID], mv[ts[j].ID])
      BY <3>1, <3>4, AheadDecides
    <3>6. QED
      BY <2>10, <2>12, <3>5
  <2>13. QED
    BY <2>11, <2>12
<1>4. \/ traces' = ts /\ net' = pk
      \/ \E k \in DOMAIN ts : \E t \in {AtNextPackets(ts[k])} :
             /\ ts[k].pfsFileID = f
             /\ traces' = [ts EXCEPT ![k] = AllSent(t)]
             /\ net' = pk \cup PacketsOf(t)
  BY <1>1, GenerateFacts
<1>5. QED
  BY <1>2, <1>3, <1>4

-----------------------------------------------------------------------------
(* A packet is passed on, or served. *)

\* The packets Q are for what packet m is for, each place in one of them.
SharedOut(m, Q) ==
  /\ \A n \in Q : /\ m.lowoffset <= n.lowoffset
                  /\ n.lowoffset + n.size <= m.lowoffset + m.size
  /\ \A x \in Nat : Spans(m, x) => \E n \in Q : Spans(n, x)
  /\ \A n, o \in Q : \A x \in Nat : Spans(n, x) /\ Spans(o, x) => n = o

\* A packet to serve is replaced by others for the same places.
LEMMA SharedOutExact ==
  ASSUME NEW f \in Files, NEW t \in TracesOn(f), NEW i \in Servers(f),
         NEW pk, NEW places, NEW bag, Exact(t, pk, places, bag),
         NEW m \in Ahead(pk, t.ID, i), m \in DataRecords,
         NEW Q, Q \subseteq DataRecords, SharedOut(m, Q), NEW P,
         \A j \in Servers(f) \ {i} : Ahead(P, t.ID, j) = Ahead(pk, t.ID, j),
         Ahead(P, t.ID, i) = (Ahead(pk, t.ID, i) \ {m}) \cup Q
  PROVE  Exact(t, P, places, bag)
<1>1. t.pfsFileID = f
  BY TraceTypes
<1> DEFINE A == Ahead(pk, t.ID, i)
<1>2. /\ \A q \in A : /\ t.dataSizeInWindow[i] = SW_SENT /\ t.dsoffsets[i] <= q.lowoffset
                      /\ q.lowoffset + q.size <= SentTo(t, i)
      /\ \A q, n \in A : \A x \in Nat : Spans(q, x) /\ Spans(n, x) => q = n
  BY <1>1 DEF Exact, Spanned
<1>3. /\ m.lowoffset \in Nat /\ m.size \in Nat
      /\ \A n \in Q : n.lowoffset \in Nat /\ n.size \in Nat
  BY PacketTypes DEF Packets
<1>4. t.dsoffsets[i] \in Nat /\ SentTo(t, i) \in Nat
  BY PendingFacts
<1>5. \A n \in Q : \A x \in Nat : Spans(n, x) => Spans(m, x)
  BY <1>3 DEF SharedOut, Spans
<1>6. /\ \A q \in A \ {m} : \A n \in Q : \A x \in Nat : ~(Spans(q, x) /\ Spans(n, x))
  BY <1>2, <1>5
<1> HIDE DEF A
<1>7. Spanned(t, P)
  <2> SUFFICES ASSUME NEW j \in Servers(f)
               PROVE  /\ \A q \in Ahead(P, t.ID, j) :
                           /\ t.dataSizeInWindow[j] = SW_SENT
                           /\ t.dsoffsets[j] <= q.lowoffset
                           /\ q.lowoffset + q.size <= SentTo(t, j)
                      /\ \A q, n \in Ahead(P, t.ID, j) :
                           \A x \in Nat : Spans(q, x) /\ Spans(n, x) => q = n
    BY <1>1 DEF Spanned
  <2>1. CASE j # i
    BY <1>1, <2>1 DEF Exact, Spanned
  <2>2. CASE j = i
    <3>1. Ahead(P, t.ID, j) = (A \ {m}) \cup Q
      BY <2>2 DEF A
    <3>2. m \in A
      BY DEF A
    <3>3. ASSUME NEW q \in Q
          PROVE  t.dsoffsets[i] <= q.lowoffset /\ q.lowoffset + q.size <= SentTo(t, i)
      BY <1>2, <1>3, <1>4, <3>2 DEF SharedOut
    <3>4. \A q \in (A \ {m}) \cup Q :
            /\ t.dataSizeInWindow[i] = SW_SENT /\ t.dsoffsets[i] <= q.lowoffset
            /\ q.lowoffset + q.size <= SentTo(t, i)
      BY <1>2, <3>2, <3>3
    <3>5. \A q, n \in (A \ {m}) \cup Q : \A x \in Nat : Spans(q, x) /\ Spans(n, x) => q = n
      BY <1>2, <1>6 DEF SharedOut
    <3>6. QED
      BY <2>2, <3>1, <3>4, <3>5
  <2>3. QED
    BY <2>1, <2>2
<1>8. MovedOf(t, P) = MovedOf(t, pk)
  <2>1. ASSUME NEW p \in Servers(f) \X Nat
        PROVE  (\A q \in Ahead(P, t.ID, p[1]) : ~Spans(q, p[2]))
               <=> (\A q \in Ahead(pk, t.ID, p[1]) : ~Spans(q, p[2]))
    <3> DEFINE j == p[1]
               x == p[2]
    <3>1. j \in Servers(f) /\ x \in Nat
      OBVIOUS
    <3> HIDE DEF j, x
    <3>2. CASE j # i
      BY <3>1, <3>2 DEF j, x
    <3>3. CASE j = i
      <4>1. Ahead(P, t.ID, j) = (A \ {m}) \cup Q /\ Ahead(pk, t.ID, j) = A /\ m \in A
        BY <3>3 DEF A
      <4>2. (\E q \in Q : Spans(q, x)) <=> Spans(m, x)
        BY <1>5, <3>1 DEF SharedOut
      <4>3. (\A q \in (A \ {m}) \cup Q : ~Spans(q, x)) <=> (\A q \in A : ~Spans(q, x))
        BY <4>1, <4>2
      <4>4. QED
        BY <4>1, <4>3 DEF j, x
    <3>4. QED
      BY <3>2, <3>3
  <2>2. QED
    BY <1>1, <2>1 DEF MovedOf
<1>9. QED
  BY <1>7, <1>8 DEF Exact

\* Sets as bags: disjoint ones add up to their union.
LEMMA BagsOfSets ==
  ASSUME NEW A, NEW B
  PROVE  /\ BagToSet(SetToBag(A)) = A
         /\ A \cap B = {} => SetToBag(A) (+) SetToBag(B) = SetToBag(A \cup B)
<1>1. BagToSet(SetToBag(A)) = A
  BY DEF BagToSet, SetToBag
<1>2. ASSUME A \cap B = {}
      PROVE  SetToBag(A) (+) SetToBag(B) = SetToBag(A \cup B)
  <2> DEFINE a == SetToBag(A)
             b == SetToBag(B)
             c == [e \in A \cup B |-> 1]
  <2>1. /\ DOMAIN a = A /\ \A e \in A : a[e] = 1
        /\ DOMAIN b = B /\ \A e \in B : b[e] = 1
    BY DEF SetToBag
  <2> HIDE DEF a, b
  <2>2. a (+) b = [e \in A \cup B |-> (IF e \in A THEN a[e] ELSE 0)
                                      + (IF e \in B THEN b[e] ELSE 0)]
    BY <2>1 DEF (+)
  <2>3. \A e \in A \cup B : (IF e \in A THEN a[e] ELSE 0) + (IF e \in B THEN b[e] ELSE 0) = 1
    BY <1>2, <2>1
  <2>4. a (+) b = c
    BY <2>2, <2>3
  <2>5. SetToBag(A \cup B) = c
    BY DEF SetToBag
  <2>6. QED
    BY <2>4, <2>5 DEF a, b
<1>3. QED
  BY <1>1, <1>2

\* The places a packet covers.
LEMMA CoveredFacts ==
  ASSUME NEW m \in DataRecords
  PROVE  /\ Covered(m.server, m.lowoffset, m.size)
              = {p \in {m.server} \X Nat : Spans(m, p[2])}
         /\ Covered(m.server, m.lowoffset, m.size) # {}
<1>1. m.lowoffset \in Nat /\ m.size \in Nat \ {0}
  BY PacketTypes DEF Packets
<1> DEFINE l == m.lowoffset
           u == m.lowoffset + m.size - 1
           C == {<<m.server, o>> : o \in l .. u}
<1>2. \A o : o \in l .. u <=> o \in Nat /\ Spans(m, o)
  BY <1>1 DEF Spans
<1>3. l \in l .. u
  BY <1>1
<1>4. Covered(m.server, m.lowoffset, m.size) = C
  BY DEF Covered
<1> HIDE DEF l, u
<1>5. C = {p \in {m.server} \X Nat : Spans(m, p[2])}
  <2>1. ASSUME NEW p \in C PROVE p \in {m.server} \X Nat /\ Spans(m, p[2])
    BY <1>2
  <2>2. ASSUME NEW p \in {m.server} \X Nat, Spans(m, p[2]) PROVE p \in C
    <3>1. p = <<m.server, p[2]>> /\ p[2] \in Nat
      OBVIOUS
    <3>2. p[2] \in l .. u
      BY <1>2, <2>2, <3>1
    <3>3. QED
      BY <3>1, <3>2
  <2>3. QED
    BY <2>1, <2>2
<1>6. C # {}
  BY <1>3
<1>7. QED
  BY <1>4, <1>5, <1>6

\* What is sent of a trace is places of its request.
LEMMA SentWithin ==
  ASSUME NEW f \in Files, NEW t \in TracesOn(f), NEW i \in Servers(f), t.hasLayout,
         NEW places, Extents(t, places), t.dataSizeInWindow[i] = SW_SENT, NEW x \in Nat,
         t.dsoffsets[i] <= x, x < SentTo(t, i)
  PROVE  <<i, x>> \in places
<1> DEFINE u == t.unProcessedSize
           o == t.offset
<1>1. /\ t.pfsFileID = f /\ o \in Nat /\ u \in Nat /\ t.dsoffsets[i] \in Nat
  BY TraceTypes
<1>2. PICK e \in Nat : Reaches(t, e) /\ places = PlacesBetween(f, o, e + u)
  BY <1>1 DEF Extents
<1>3. Low(f, i, o) <= t.dsoffsets[i] /\ SentTo(t, i) = Low(f, i, e)
  BY <1>1, <1>2 DEF Reaches, SentTo, Pending
<1> HIDE DEF u, o
<1>4. /\ Low(f, i, e) \in Nat /\ Low(f, i, e + u) \in Nat /\ Low(f, i, e) <= Low(f, i, e + u)
      /\ Low(f, i, o) \in Nat
  BY <1>1, <1>2, LowGrows, PlaceFacts
<1>5. Low(f, i, o) <= x /\ x < Low(f, i, e + u)
  BY <1>1, <1>3, <1>4
<1>6. QED
  BY <1>2, <1>5 DEF PlacesBetween

\* A packet is served.
LEMMA ServedExact ==
  ASSUME NEW f \in Files, NEW t \in TracesOn(f), NEW i \in Servers(f), t.hasLayout,
         NEW pk, NEW places, NEW bag, Exact(t, pk, places, bag),
         NEW m \in Ahead(pk, t.ID, i), m \in DataRecords, NEW P,
         \A j \in Servers(f) \ {i} : Ahead(P, t.ID, j) = Ahead(pk, t.ID, j),
         Ahead(P, t.ID, i) = Ahead(pk, t.ID, i) \ {m},
         NEW C, C = Covered(m.server, m.lowoffset, m.size),
         NEW b, b = bag (+) SetToBag(C)
  PROVE  /\ Exact(t, P, places, b)
         /\ C # {} /\ C \subseteq places /\ BagToSet(b) \ BagToSet(bag) = C
<1> DEFINE A == Ahead(pk, t.ID, i)
           M == MovedOf(t, pk)
<1>1. t.pfsFileID = f /\ m.server = i
  BY TraceTypes DEF Ahead, Exchange
<1>2. /\ \A q \in A : /\ t.dataSizeInWindow[i] = SW_SENT /\ t.dsoffsets[i] <= q.lowoffset
                      /\ q.lowoffset + q.size <= SentTo(t, i)
      /\ \A q, n \in A : \A x \in Nat : Spans(q, x) /\ Spans(n, x) => q = n
  BY <1>1 DEF Exact, Spanned
<1>3. m.lowoffset \in Nat /\ m.size \in Nat /\ m \in A
  BY PacketTypes DEF Packets
<1>4. t.dsoffsets[i] \in Nat /\ SentTo(t, i) \in Nat /\ t.offset \in Nat
  BY PendingFacts, TraceTypes
<1>5. C = {p \in {i} \X Nat : Spans(m, p[2])} /\ C # {}
  BY <1>1, CoveredFacts
<1>6. Ahead(P, t.ID, i) = A \ {m}
  OBVIOUS
<1> HIDE DEF A
<1>7. ASSUME NEW x \in Nat, Spans(m, x)
      PROVE  t.dsoffsets[i] <= x /\ x < SentTo(t, i)
  <2>1. t.dsoffsets[i] <= m.lowoffset /\ m.lowoffset + m.size <= SentTo(t, i)
    BY <1>2, <1>3
  <2>2. m.lowoffset <= x /\ x < m.lowoffset + m.size
    BY <1>7 DEF Spans
  <2>3. QED
    BY <1>3, <1>4, <2>1, <2>2
<1>8. C \subseteq places
  <2> SUFFICES ASSUME NEW x \in Nat, Spans(m, x) PROVE <<i, x>> \in places
    BY <1>5
  <2>1. t.dataSizeInWindow[i] = SW_SENT
    BY <1>2, <1>3
  <2>2. Extents(t, places)
    BY DEF Exact
  <2>3. QED
    BY <1>7, <2>1, <2>2, SentWithin
<1>9. Low(f, i, t.offset) <= t.dsoffsets[i] /\ Low(f, i, t.offset) \in Nat
  BY <1>1, <1>4, PlaceFacts DEF Exact, Extents, Reaches
<1>10. MovedOf(t, P) = M \cup C /\ M \cap C = {}
  <2>1. ASSUME NEW p \in Servers(f) \X Nat
        PROVE  /\ p \in MovedOf(t, P) <=> p \in M \/ p \in C
               /\ ~(p \in M /\ p \in C)
    <3> DEFINE j == p[1]
               x == p[2]
    <3>1. j \in Servers(f) /\ x \in Nat /\ p = <<j, x>>
      OBVIOUS
    <3> HIDE DEF M
    <3>2. /\ p \in M <=> /\ Low(f, j, t.offset) <= x /\ x < SentTo(t, j)
                         /\ \A q \in Ahead(pk, t.ID, j) : ~Spans(q, x)
          /\ p \in MovedOf(t, P) <=> /\ Low(f, j, t.offset) <= x /\ x < SentTo(t, j)
                                     /\ \A q \in Ahead(P, t.ID, j) : ~Spans(q, x)
          /\ p \in C <=> j = i /\ Spans(m, x)
      BY <1>1, <1>5 DEF MovedOf, M
    <3> HIDE DEF j, x
    <3>3. CASE j # i
      BY <3>1, <3>2, <3>3
    <3>4. CASE j = i
      <4>1. Ahead(pk, t.ID, j) = A /\ Ahead(P, t.ID, j) = A \ {m}
        BY <1>6, <3>4 DEF A
      <4>2. Spans(m, x) => /\ Low(f, j, t.offset) <= x /\ x < SentTo(t, j)
                           /\ \A q \in A \ {m} : ~Spans(q, x)
        <5> SUFFICES ASSUME Spans(m, x)
                     PROVE  /\ Low(f, j, t.offset) <= x /\ x < SentTo(t, j)
                            /\ \A q \in A \ {m} : ~Spans(q, x)
          OBVIOUS
        <5>1. t.dsoffsets[i] <= x /\ x < SentTo(t, i)
          BY <1>7, <3>1
        <5>2. Low(f, j, t.offset) <= x
          BY <1>4, <1>9, <3>1, <3>4, <5>1
        <5>3. QED
          BY <1>2, <1>3, <3>1, <3>4, <5>1, <5>2
      <4>3. QED
        BY <1>3, <3>2, <3>4, <4>1, <4>2
    <3>5. QED
      BY <3>3, <3>4
  <2>2. M \subseteq Servers(f) \X Nat /\ MovedOf(t, P) \subseteq Servers(f) \X Nat
        /\ C \subseteq Servers(f) \X Nat
    BY <1>1, <1>5 DEF MovedOf
  <2> HIDE DEF M
  <2>3. QED
    BY <2>1, <2>2
<1>11. bag = SetToBag(M)
  BY DEF Exact
<1> HIDE DEF M
<1>12. b = SetToBag(M \cup C) /\ BagToSet(b) = M \cup C /\ BagToSet(bag) = M
  BY <1>10, <1>11, BagsOfSets
<1>13. Spanned(t, P)
  <2> SUFFICES ASSUME NEW j \in Servers(f)
               PROVE  /\ \A q \in Ahead(P, t.ID, j) :
                           /\ t.dataSizeInWindow[j] = SW_SENT
                           /\ t.dsoffsets[j] <= q.lowoffset
                           /\ q.lowoffset + q.size <= SentTo(t, j)
                      /\ \A q, n \in Ahead(P, t.ID, j) :
                           \A x \in Nat : Spans(q, x) /\ Spans(n, x) => q = n
    BY <1>1 DEF Spanned
  <2>1. CASE j # i
    BY <1>1, <2>1 DEF Exact, Spanned
  <2>2. CASE j = i
    BY <1>2, <1>6, <2>2
  <2>3. QED
    BY <2>1, <2>2
<1>14. Exact(t, P, places, b)
  BY <1>10, <1>12, <1>13 DEF Exact
<1>15. BagToSet(b) \ BagToSet(bag) = C
  BY <1>10, <1>12
<1>16. QED
  BY <1>5, <1>8, <1>14, <1>15

\* What replaces a packet of an exchange leaves the others alone.
LEMMA AheadReplaced ==
  ASSUME NEW pk, NEW m \in pk, m.kind \in DataKinds, NEW P,
         \A n \in P : n.kind \in DataKinds /\ n.SubID = m.SubID /\ n.server = m.server,
         NEW R, R = (pk \ {m}) \cup P
  PROVE  /\ \A r, i : (r # m.SubID \/ i # m.server) => Ahead(R, r, i) = Ahead(pk, r, i)
         /\ Ahead(R, m.SubID, m.server)
              = (Ahead(pk, m.SubID, m.server) \ {m}) \cup {n \in P : n.kind \in ToServe}
BY DEF Ahead, Exchange

\* The trace a packet is of.
LEMMA TraceOfPacket ==
  ASSUME ClientInv, TransferInv, NEW m \in net, m.kind \in DataKinds
  PROVE  \E k \in DOMAIN traces :
           /\ traces[k] \in TracesOn(m.fileId) /\ m.fileId \in Files
           /\ m.server \in Servers(m.fileId) /\ traces[k].ID = m.SubID
           /\ traces[k].pfsFileID = m.fileId
           /\ traces[k].dataSizeInWindow[m.server] = SW_SENT /\ traces[k].hasLayout
           /\ m.SubID \in Open /\ m.SubID \in Requests
           /\ \A j \in DOMAIN traces : j # k => traces[j].ID # m.SubID
<1>1. PICK k \in DOMAIN traces : AwaitedBy(traces[k], m)
  BY DataPacketFacts
<1>2. /\ traces \in Seq(TraceSet)
      /\ \A i, j \in DOMAIN traces : traces[i].ID = traces[j].ID => i = j
  BY DEF ClientInv, Matched, Lists
<1>3. /\ traces[k] \in TracesOn(m.fileId) /\ m.fileId \in Files
      /\ m.server \in Servers(m.fileId) /\ traces[k].ID = m.SubID
      /\ traces[k].pfsFileID = m.fileId
      /\ traces[k].dataSizeInWindow[m.server] = SW_SENT
  BY <1>1, <1>2, TraceOf DEF AwaitedBy
<1>4. traces[k].hasLayout
  <2>1. Extents(traces[k], issued[traces[k].ID])
    BY DEF TransferInv, Told, Exact
  <2>2. SW_SENT # SW_NULL
    BY DEF SW_SENT, SW_NULL
  <2>3. QED
    BY <1>3, <2>1, <2>2 DEF Extents
<1>5. m.SubID \in Open /\ m.SubID \in Requests
  <2>1. m.SubID \in Open
    BY <1>3 DEF ClientInv, OpenTraces
  <2>2. /\ issued \in Seq(SUBSET (Nat \X Nat)) /\ Len(issued) <= config.requests
        /\ config \in Configurations
    BY DEF ClientInv, ClientTypes
  <2>3. m.SubID \in 1 .. Len(issued)
    BY <2>1, <2>2 DEF Open
  <2>4. 1 .. config.requests \subseteq Requests /\ config.requests \in Nat
    BY <2>2, ConfigFacts
  <2>5. QED
    BY <2>1, <2>2, <2>3, <2>4
<1>6. \A j \in DOMAIN traces : j # k => traces[j].ID # m.SubID
  BY <1>2, <1>3
<1>7. QED
  BY <1>3, <1>4, <1>5, <1>6

\* A packet is passed on.
LEMMA PassedOnKeeps ==
  ASSUME ClientInv, TransferInv, UNCHANGED client, UNCHANGED moved,
         NEW m \in net, m.kind \in DataKinds, NEW P \in SUBSET DataRecords,
         \A n \in P : n.SubID = m.SubID /\ n.server = m.server,
         NEW Q, Q = {n \in P : n.kind \in ToServe},
         m.kind \in ToServe => SharedOut(m, Q), m.kind \notin ToServe => Q = {},
         net' = (net \ {m}) \cup P
  PROVE  TransferInv'
<1>1. traces' = traces /\ issued' = issued /\ moved' = moved
  BY DEF client
<1>2. PICK k \in DOMAIN traces :
           /\ traces[k] \in TracesOn(m.fileId) /\ m.fileId \in Files
           /\ m.server \in Servers(m.fileId) /\ traces[k].ID = m.SubID
           /\ traces[k].pfsFileID = m.fileId
           /\ \A j \in DOMAIN traces : j # k => traces[j].ID # m.SubID
  BY TraceOfPacket
<1>3. m \in DataRecords
  BY DataPacketFacts
<1>4. \A n \in P : n.kind \in DataKinds
  BY PacketTypes DEF Packets
<1>5. /\ \A r, i : (r # m.SubID \/ i # m.server) => Ahead(net', r, i) = Ahead(net, r, i)
      /\ Ahead(net', m.SubID, m.server) = (Ahead(net, m.SubID, m.server) \ {m}) \cup Q
  BY <1>4, AheadReplaced
<1>6. ASSUME NEW j \in DOMAIN traces
      PROVE  Exact(traces[j], net', issued[traces[j].ID], moved[traces[j].ID])
  <2>1. Exact(traces[j], net, issued[traces[j].ID], moved[traces[j].ID])
    BY DEF TransferInv, Told
  <2>2. CASE j # k
    BY <1>2, <1>5, <2>1, <2>2, AheadDecides
  <2>3. CASE j = k /\ m.kind \notin ToServe
    <3>1. Ahead(net', m.SubID, m.server) = Ahead(net, m.SubID, m.server)
      BY <1>5, <2>3 DEF Ahead
    <3>2. \A i \in Servers(traces[j].pfsFileID) :
            Ahead(net', traces[j].ID, i) = Ahead(net, traces[j].ID, i)
      BY <1>2, <1>5, <2>3, <3>1
    <3>3. QED
      BY <2>1, <3>2, AheadDecides
  <2>4. CASE j = k /\ m.kind \in ToServe
    <3> DEFINE t == traces[k]
               places == issued[t.ID]
               bag == moved[t.ID]
               f == m.fileId
               i == m.server
    <3>1. m \in Ahead(net, t.ID, i)
      BY <1>2, <2>4 DEF Ahead, Exchange
    <3>2. /\ f \in Files /\ t \in TracesOn(f) /\ i \in Servers(f)
          /\ Exact(t, net, places, bag) /\ Q \subseteq DataRecords /\ SharedOut(m, Q)
      BY <1>2, <2>1, <2>4
    <3>3. /\ \A s \in Servers(f) \ {i} : Ahead(net', t.ID, s) = Ahead(net, t.ID, s)
          /\ Ahead(net', t.ID, i) = (Ahead(net, t.ID, i) \ {m}) \cup Q
      BY <1>2, <1>5
    <3> DEFINE R == net'
    <3>3a. /\ \A s \in Servers(f) \ {i} : Ahead(R, t.ID, s) = Ahead(net, t.ID, s)
          /\ Ahead(R, t.ID, i) = (Ahead(net, t.ID, i) \ {m}) \cup Q
      BY <3>3
    <3> HIDE DEF t, places, bag, f, i, R
    <3>4. Exact(t, R, places, bag)
      BY <1>3, <3>1, <3>2, <3>3a, SharedOutExact
    <3>5. QED
      BY <2>4, <3>4 DEF t, places, bag, R
  <2>5. QED
    BY <2>2, <2>3, <2>4
<1>7. QED
  BY <1>1, <1>6 DEF TransferInv, Told

\* The bags of StripedIO are those of this module.
LEMMA SameBags ==
  /\ \A B : IO!BagToSet(B) = BagToSet(B)
  /\ \A S : IO!SetToBag(S) = SetToBag(S)
  /\ \A A, B : IO!(+)(A, B) = A (+) B
  /\ IO!EmptyBag = EmptyBag
<1>1. \A B : IO!BagToSet(B) = BagToSet(B)
  BY DEF IO!BagToSet, BagToSet
<1>2. \A S : IO!SetToBag(S) = SetToBag(S)
  BY DEF IO!SetToBag, SetToBag
<1>3. \A A, B : IO!(+)(A, B) = A (+) B
  BY DEF IO!(+), (+)
<1>4. IO!EmptyBag = EmptyBag
  BY <1>2 DEF IO!EmptyBag, EmptyBag
<1>5. QED
  BY <1>1, <1>2, <1>3, <1>4

\* A packet is served: some of the places of its request are transferred.
LEMMA ServedKeeps ==
  ASSUME ClientInv, TransferInv, UNCHANGED client,
         NEW m \in net, Transferred(m), m.kind \in ToServe, m.kind \in DataKinds, NEW P \in SUBSET DataRecords,
         \A n \in P : n.SubID = m.SubID /\ n.server = m.server /\ n.kind \notin ToServe,
         net' = (net \ {m}) \cup P
  PROVE  TransferInv' /\ IO!Next
<1> DEFINE C == Covered(m.server, m.lowoffset, m.size)
           r == m.SubID
           b == moved[r] (+) SetToBag(C)
<1>1. traces' = traces /\ issued' = issued /\ answers' = answers
  BY DEF client
<1>2. moved' = [moved EXCEPT ![r] = b]
  BY DEF Transferred
<1>3. PICK k \in DOMAIN traces :
           /\ traces[k] \in TracesOn(m.fileId) /\ m.fileId \in Files
           /\ m.server \in Servers(m.fileId) /\ traces[k].ID = m.SubID
           /\ traces[k].pfsFileID = m.fileId /\ traces[k].hasLayout
           /\ m.SubID \in Open /\ m.SubID \in Requests
           /\ \A j \in DOMAIN traces : j # k => traces[j].ID # m.SubID
  BY TraceOfPacket
<1>4. m \in DataRecords
  BY DataPacketFacts
<1>5. \A n \in P : n.kind \in DataKinds
  BY PacketTypes DEF Packets
<1>6. /\ \A s, i : (s # m.SubID \/ i # m.server) => Ahead(net', s, i) = Ahead(net, s, i)
      /\ Ahead(net', m.SubID, m.server) = Ahead(net, m.SubID, m.server) \ {m}
  <2>1. {n \in P : n.kind \in ToServe} = {}
    OBVIOUS
  <2>2. QED
    BY SMTT(20), <1>5, <2>1, AheadReplaced
<1>7. moved = [s \in Requests |-> moved[s]]
  BY DEF TransferInv
<1> HIDE DEF b
<1>8. /\ moved' = [s \in Requests |-> moved'[s]] /\ moved'[r] = b
      /\ \A s \in Requests : s # r => moved'[s] = moved[s]
  BY <1>2, <1>3, <1>7
<1>9. /\ Exact(traces[k], net', issued[r], b)
      /\ C # {} /\ C \subseteq issued[r] /\ BagToSet(b) \ BagToSet(moved[r]) = C
  <2> DEFINE t == traces[k]
             places == issued[r]
             bag == moved[r]
             f == m.fileId
             i == m.server
  <2>1. m \in Ahead(net, t.ID, i)
    BY <1>3 DEF Ahead, Exchange
  <2>2. Exact(t, net, places, bag)
    BY <1>3 DEF TransferInv, Told
  <2>3. /\ \A s \in Servers(f) \ {i} : Ahead(net', t.ID, s) = Ahead(net, t.ID, s)
        /\ Ahead(net', t.ID, i) = Ahead(net, t.ID, i) \ {m}
    BY <1>3, <1>6
  <2>4. b = bag (+) SetToBag(C) /\ C = Covered(m.server, m.lowoffset, m.size)
    BY DEF b
  <2>5. f \in Files /\ t \in TracesOn(f) /\ i \in Servers(f) /\ t.hasLayout
    BY <1>3
  <2> HIDE DEF t, places, bag, f, i, C
  <2>6. /\ Exact(t, net', places, b)
        /\ C # {} /\ C \subseteq places /\ BagToSet(b) \ BagToSet(bag) = C
    BY <1>4, <2>1, <2>2, <2>3, <2>4, <2>5, ServedExact
  <2>7. QED
    BY <2>6 DEF t, places, bag
<1>10. TransferInv'
  <2>1. \A s \in Requests \ DOMAIN issued' : moved'[s] = EmptyBag
    <3>1. r \in DOMAIN issued
      BY <1>3 DEF Open
    <3>2. QED
      BY <1>1, <1>8, <3>1 DEF TransferInv
  <2>2. ASSUME NEW j \in DOMAIN traces
        PROVE  Exact(traces[j], net', issued[traces[j].ID], moved'[traces[j].ID])
    <3>1. CASE j = k
      BY <1>3, <1>8, <1>9, <3>1
    <3>2. CASE j # k
      <4>1. Exact(traces[j], net, issued[traces[j].ID], moved[traces[j].ID])
        BY DEF TransferInv, Told
      <4>2. traces[j].ID # r
        BY <1>3, <3>2
      <4>3. Exact(traces[j], net', issued[traces[j].ID], moved[traces[j].ID])
        BY <1>6, <4>1, <4>2, AheadDecides
      <4>4. moved'[traces[j].ID] = moved[traces[j].ID]
        BY <1>2, <1>7, <4>2
      <4>5. QED
        BY <4>3, <4>4
    <3>3. QED
      BY <3>1, <3>2
  <2>3. QED
    BY <1>1, <1>8, <2>1, <2>2 DEF TransferInv, Told
<1>11. IO!Move(r)
  <2>1. r \in DOMAIN issued
    BY <1>3 DEF Open
  <2>2. BagToSet(moved'[r]) \ BagToSet(moved[r]) = C
    BY <1>8, <1>9
  <2>3. moved' = [moved EXCEPT ![r] = moved[r] (+) SetToBag(C)]
    BY <1>2 DEF b
  <2>4. C # {} /\ C \subseteq issued[r] /\ issued' = issued /\ answers' = answers
    BY <1>1, <1>9
  <2> DEFINE D == IO!BagToSet(moved'[r]) \ IO!BagToSet(moved[r])
  <2>5. /\ r \in IO!Issued /\ D # {} /\ D \subseteq issued[r]
        /\ moved' = [moved EXCEPT ![r] = IO!(+)(moved[r], IO!SetToBag(D))]
        /\ UNCHANGED <<issued, answers>>
    BY <2>1, <2>2, <2>3, <2>4, SameBags DEF IO!Issued
  <2> HIDE DEF C, r
  <2>6. QED
    BY <2>5 DEF IO!Move
<1>12. QED
  BY <1>3, <1>10, <1>11 DEF IO!Next

\* The fragments of a write are for what the packet they replace is for.
LEMMA FragmentsSharedOut ==
  ASSUME NEW m \in DataRecords
  PROVE  SharedOut(m, Fragments(m)) /\ \A n \in Fragments(m) : n.kind \in ToServe
<1> DEFINE L == PacketSizeLimit
           z == LastFragment(m)
           F(k) == Fragment(m, k)
           Up(k) == k * L
           a == m.lowoffset
<1>1. /\ L \in Nat \ {0} /\ m.size \in Nat \ {0} /\ a \in Nat /\ z \in Nat
  BY PacketTypes, PVFS2ClientAssumption, FragmentFacts DEF Packets
<1>2. \A k \in 0 .. z :
        /\ F(k).lowoffset = a + Up(k) /\ F(k).kind \in ToServe /\ F(k) \in DataRecords
        /\ F(k).lowoffset + F(k).size = IF k = z THEN a + m.size ELSE a + Up(k + 1)
  BY FragmentFacts DEF ToServe
<1>3. \A j, k \in Nat : Up(j) \in Nat /\ (j <= k => Up(j) <= Up(k))
  BY <1>1, ProductGrows
<1>4. \A y \in Nat : y \div L \in Nat /\ Up(y \div L) <= y /\ y < Up((y \div L) + 1)
  <2> SUFFICES ASSUME NEW y \in Nat
               PROVE  y \div L \in Nat /\ Up(y \div L) <= y /\ y < Up((y \div L) + 1)
    OBVIOUS
  <2>1. /\ y \div L \in Nat /\ y % L \in Nat /\ y % L < L /\ y = (y \div L) * L + (y % L)
    BY <1>1, Division
  <2> DEFINE q == y \div L
  <2>2. (q + 1) * L = q * L + 1 * L /\ 1 * L = L /\ q * L \in Int
    BY <1>1, <2>1, Distributes
  <2> DEFINE p == q * L
  <2> HIDE DEF p, q, L
  <2>3. q \in Nat /\ p \in Int /\ Up(q) = p /\ Up(q + 1) = p + L
    BY <2>1, <2>2 DEF p, q
  <2>4. y = p + (y % L) /\ y % L \in Nat /\ y % L < L
    BY <2>1 DEF p, q
  <2> HIDE DEF Up
  <2>5. Up(q) <= y /\ y < Up(q + 1)
    BY <1>1, <2>3, <2>4
  <2>6. QED
    BY <2>3, <2>5 DEF q
<1>5. z = (m.size - 1) \div L
  BY DEF LastFragment
<1> HIDE DEF L, z, F, Up, a
<1>6. Up(z) <= m.size - 1 /\ m.size - 1 < Up(z + 1)
  <2>1. m.size - 1 \in Nat
    BY <1>1
  <2> DEFINE y == m.size - 1
  <2> HIDE DEF y
  <2>2. y \in Nat /\ z = y \div L
    BY <1>5, <2>1 DEF y
  <2>3. Up(z) <= y /\ y < Up(z + 1)
    BY <1>4, <2>2
  <2>4. QED
    BY <2>3 DEF y
<1>7. Fragments(m) = {F(k) : k \in 0 .. z}
  BY DEF Fragments, F, z
<1>8. ASSUME NEW k \in 0 .. z
      PROVE  /\ F(k).lowoffset + F(k).size <= a + m.size
             /\ a <= F(k).lowoffset
             /\ F(k).lowoffset = a + Up(k)
             /\ F(k).lowoffset + F(k).size <= a + Up(k + 1)
             /\ k # z => F(k).lowoffset + F(k).size = a + Up(k + 1)
             /\ Up(k) \in Nat /\ Up(k + 1) \in Nat
  <2>1. Up(k) \in Nat /\ Up(k + 1) \in Nat /\ Up(z) \in Nat /\ Up(z + 1) \in Nat
    BY <1>1, <1>3
  <2>2. CASE k = z
    BY <1>1, <1>2, <1>6, <2>1, <2>2
  <2>3. CASE k # z
    <3>1. k + 1 \in Nat /\ k + 1 <= z
      BY <1>1, <2>3
    <3>2. Up(k + 1) <= Up(z)
      BY <1>1, <1>3, <3>1
    <3>3. QED
      BY <1>1, <1>2, <1>6, <2>1, <2>3, <3>2
  <2>4. QED
    BY <2>2, <2>3
<1>9. ASSUME NEW x \in Nat, Spans(m, x)
      PROVE  \E n \in Fragments(m) : Spans(n, x)
  <2> DEFINE y == x - a
             k == y \div L
  <2>1. a <= x /\ x < a + m.size
    BY <1>9 DEF Spans, a
  <2>2. y \in Nat /\ y <= m.size - 1 /\ x = a + y
    BY <1>1, <2>1
  <2> HIDE DEF y
  <2>3. k \in Nat /\ Up(k) <= y /\ y < Up(k + 1)
    BY <1>4, <2>2
  <2> HIDE DEF k
  <2>4. Up(z + 1) \in Nat /\ Up(k) \in Nat /\ Up(k + 1) \in Nat
    BY <1>1, <1>3, <2>3
  <2>5. k \in 0 .. z
    <3> SUFFICES ASSUME z + 1 <= k PROVE FALSE
      BY <1>1, <2>3
    <3>1. Up(z + 1) <= Up(k)
      BY <1>1, <1>3, <2>3
    <3>2. QED
      BY <1>1, <1>6, <2>2, <2>3, <2>4, <3>1
  <2>6. Spans(F(k), x)
    <3>1. F(k).lowoffset = a + Up(k)
      BY <1>2, <2>5
    <3>2. F(k).lowoffset + F(k).size = IF k = z THEN a + m.size ELSE a + Up(k + 1)
      BY <1>2, <2>5
    <3>3. a + Up(k) <= x /\ x < a + m.size /\ x < a + Up(k + 1)
      BY <1>1, <2>1, <2>2, <2>3, <2>4
    <3>4. QED
      BY <3>1, <3>2, <3>3 DEF Spans
  <2>7. QED
    BY <1>7, <2>5, <2>6
<1>10. ASSUME NEW j \in 0 .. z, NEW k \in 0 .. z, j < k, NEW x \in Nat,
              Spans(F(j), x), Spans(F(k), x)
       PROVE  FALSE
  <2>1. x < F(j).lowoffset + F(j).size /\ F(k).lowoffset <= x
    BY <1>10 DEF Spans
  <2>2. F(j).lowoffset + F(j).size = a + Up(j + 1) /\ Up(j + 1) \in Nat
    BY <1>1, <1>8, <1>10
  <2>3. F(k).lowoffset = a + Up(k) /\ Up(k) \in Nat
    BY <1>8
  <2>4. Up(j + 1) <= Up(k)
    BY <1>1, <1>3, <1>10
  <2>5. QED
    BY <1>1, <2>1, <2>2, <2>3, <2>4
<1>11. ASSUME NEW n \in Fragments(m), NEW o \in Fragments(m), NEW x \in Nat,
              Spans(n, x), Spans(o, x)
       PROVE  n = o
  <2>1. PICK j \in 0 .. z : n = F(j)
    BY <1>7
  <2>2. PICK k \in 0 .. z : o = F(k)
    BY <1>7
  <2>3. ~(j < k) /\ ~(k < j)
    BY <1>10, <1>11, <2>1, <2>2
  <2>4. j = k
    BY <1>1, <2>3
  <2>5. QED
    BY <2>1, <2>2, <2>4
<1>12. \A n \in Fragments(m) : /\ m.lowoffset <= n.lowoffset
                               /\ n.lowoffset + n.size <= m.lowoffset + m.size
  BY <1>7, <1>8 DEF a
<1>13. \A n \in Fragments(m) : n.kind \in ToServe
  BY <1>2, <1>7
<1>14. QED
  BY <1>9, <1>11, <1>12, <1>13 DEF SharedOut

-----------------------------------------------------------------------------
(* The steps. *)

\* A packet of a read that is not its last one was served already.
LEMMA ReadDataTransfers ==
  ASSUME ClientInv, TransferInv, NEW m \in net, HandleReadData(m)
  PROVE  TransferInv'
<1> DEFINE P == {}
           Q == {n \in P : n.kind \in ToServe}
<1>1. /\ m.kind = "PFS_R_DATA" /\ net' = (net \ {m}) \cup P
      /\ UNCHANGED client /\ UNCHANGED moved
  BY DEF HandleReadData
<1>2. m.kind \in DataKinds /\ m.kind \notin ToServe
  BY <1>1 DEF DataKinds, ToServe
<1>3. P \in SUBSET DataRecords /\ Q = {} /\ \A n : n \notin P
  OBVIOUS
<1> HIDE DEF P, DataKinds, ToServe
<1>4. QED
  BY <1>1, <1>2, <1>3, PassedOnKeeps

\* A server lets a write start: the packet is for the same places.
LEMMA ServeWriteRequestTransfers ==
  ASSUME ClientInv, TransferInv, NEW m \in net, ServeWriteRequest(m)
  PROVE  TransferInv'
<1> DEFINE n == [m EXCEPT !.kind = "PFS_W_RESP"]
           P == {n}
           Q == {p \in P : p.kind \in ToServe}
<1>1. /\ m.kind = "PFS_W_REQ" /\ net' = (net \ {m}) \cup P
      /\ UNCHANGED client /\ UNCHANGED moved
  BY DEF ServeWriteRequest
<1>2. m.kind \in DataKinds /\ m.kind \in ToServe /\ "PFS_W_RESP" \in ToServe
      /\ "PFS_W_RESP" \in DataKinds
  BY <1>1 DEF DataKinds, Turns, ToServe
<1>3. m \in DataRecords
  BY <1>2, DataPacketFacts
<1> HIDE DEF DataKinds, ToServe
<1>4. /\ n \in DataRecords /\ n.kind = "PFS_W_RESP" /\ n.SubID = m.SubID
      /\ n.server = m.server /\ n.lowoffset = m.lowoffset /\ n.size = m.size
  BY <1>2, <1>3 DEF DataRecords
<1> HIDE DEF n
<1>5. Q = {n}
  BY <1>2, <1>4
<1>6. SharedOut(m, Q)
  <2>1. m.lowoffset \in Nat /\ m.size \in Nat
    BY <1>3, PacketTypes DEF Packets
  <2>2. QED
    BY <1>4, <1>5, <2>1 DEF SharedOut, Spans
<1>7. P \in SUBSET DataRecords /\ \A p \in P : p.SubID = m.SubID /\ p.server = m.server
  BY <1>4
<1> HIDE DEF P
<1>8. QED
  BY <1>1, <1>2, <1>6, <1>7, PassedOnKeeps

\* The data of a write is cut into packets for its places.
LEMMA WriteResponseTransfers ==
  ASSUME ClientInv, TransferInv, NEW m \in net, HandleWriteResponse(m)
  PROVE  TransferInv'
<1> DEFINE P == Fragments(m)
           Q == {p \in P : p.kind \in ToServe}
<1>1. /\ m.kind = "PFS_W_RESP" /\ net' = (net \ {m}) \cup P
      /\ UNCHANGED client /\ UNCHANGED moved
  BY DEF HandleWriteResponse, Fragments, Fragment, LastFragment
<1>2. m.kind \in DataKinds /\ m.kind \in ToServe
  BY <1>1 DEF DataKinds, Turns, ToServe
<1>3. m \in DataRecords
  BY <1>2, DataPacketFacts
<1> HIDE DEF DataKinds, ToServe
<1>4. Q = P /\ SharedOut(m, P)
  BY <1>3, FragmentsSharedOut
<1>5. P \in SUBSET DataRecords /\ \A p \in P : p.SubID = m.SubID /\ p.server = m.server
  BY <1>3, FragmentFacts DEF Fragments
<1> HIDE DEF P
<1>6. QED
  BY <1>1, <1>2, <1>4, <1>5, PassedOnKeeps

\* The metadata server knows nothing of data.
LEMMA LayoutRequestTransfers ==
  ASSUME ClientInv, TransferInv, NEW m \in net, HandleMetadataPacket(m)
  PROVE  TransferInv'
<1> DEFINE n == [m EXCEPT !.kind = "LAYOUT_RESP"]
<1>1. /\ m.kind = "LAYOUT_REQ" /\ net' = (net \ {m}) \cup {n}
      /\ traces' = traces /\ issued' = issued /\ moved' = moved
  BY DEF HandleMetadataPacket, client
<1>2. m \in LayoutPackets
  <2>1. net \subseteq Packets /\ m.kind \in LayoutKinds
    BY <1>1 DEF ClientInv, Matched, Lists, LayoutKinds
  <2>2. QED
    BY <2>1, PacketTypes
<1>3. n.kind = "LAYOUT_RESP"
  BY <1>2 DEF LayoutPackets
<1> HIDE DEF n
<1>4. m.kind \notin DataKinds /\ n.kind \notin DataKinds
  BY <1>1, <1>3 DEF DataKinds, Turns
<1>5. \A r, i : Ahead(net', r, i) = Ahead(net, r, i)
  BY <1>1, <1>4 DEF Ahead, Exchange
<1>6. \A j \in DOMAIN traces : Exact(traces[j], net', issued[traces[j].ID], moved[traces[j].ID])
  <2> SUFFICES ASSUME NEW j \in DOMAIN traces
               PROVE  Exact(traces[j], net', issued[traces[j].ID], moved[traces[j].ID])
    OBVIOUS
  <2>1. Exact(traces[j], net, issued[traces[j].ID], moved[traces[j].ID])
    BY DEF TransferInv, Told
  <2>2. QED
    BY <1>5, <2>1, AheadDecides
<1>7. QED
  BY <1>1, <1>6 DEF TransferInv, Told

\* A server reads.
LEMMA ServeReadTransfers ==
  ASSUME ClientInv, TransferInv, NEW m \in net, ServeRead(m)
  PROVE  TransferInv' /\ IO!Next
<1> DEFINE n == [m EXCEPT !.kind = "PFS_R_DATA_LAST"]
           d == [m EXCEPT !.kind = "PFS_R_DATA", !.id = @ + 1]
<1>1. /\ m.kind = "PFS_R_REQ" /\ UNCHANGED client /\ Transferred(m)
      /\ \E before \in {{}, {d}} : net' = (net \ {m}) \cup before \cup {n}
  BY DEF ServeRead
<1>2. /\ m.kind \in DataKinds /\ m.kind \in ToServe /\ "PFS_R_DATA_LAST" \in DataKinds
      /\ "PFS_R_DATA" \in DataKinds
      /\ "PFS_R_DATA" \notin ToServe /\ "PFS_R_DATA_LAST" \notin ToServe
  BY <1>1 DEF DataKinds, Turns, ToServe
<1>3. m \in DataRecords
  BY <1>2, DataPacketFacts
<1> HIDE DEF DataKinds, ToServe
<1>4. /\ n \in DataRecords /\ n.kind = "PFS_R_DATA_LAST" /\ n.SubID = m.SubID
      /\ n.server = m.server
  BY <1>2, <1>3 DEF DataRecords
<1>5. /\ d \in DataRecords /\ d.kind = "PFS_R_DATA" /\ d.SubID = m.SubID
      /\ d.server = m.server
  <2> DEFINE x == m.id + 1
  <2>1. x \in Nat
    BY <1>3, PacketTypes DEF Packets
  <2>2. d = [m EXCEPT !.kind = "PFS_R_DATA", !.id = x]
    BY <1>3 DEF DataRecords
  <2> HIDE DEF x, d
  <2>3. QED
    BY <1>2, <1>3, <2>1, <2>2 DEF DataRecords
<1> HIDE DEF n, d
<1>6. PICK before \in {{}, {d}} : net' = (net \ {m}) \cup before \cup {n}
  BY <1>1
<1> DEFINE P == before \cup {n}
<1>7. /\ P \in SUBSET DataRecords /\ net' = (net \ {m}) \cup P
      /\ \A p \in P : p.SubID = m.SubID /\ p.server = m.server /\ p.kind \notin ToServe
  BY <1>2, <1>4, <1>5, <1>6
<1> HIDE DEF P
<1>8. QED
  BY <1>1, <1>2, <1>7, ServedKeeps

\* A server writes.
LEMMA ServeWriteDataTransfers ==
  ASSUME ClientInv, TransferInv, NEW m \in net, ServeWriteData(m)
  PROVE  TransferInv' /\ IO!Next
<1> DEFINE n == [m EXCEPT !.kind = "PFS_W_FIN"]
           P == IF m.kind = "PFS_W_DATA" THEN {} ELSE {n}
<1>1. /\ m.kind \in {"PFS_W_DATA", "PFS_W_DATA_LAST"} /\ UNCHANGED client
      /\ Transferred(m) /\ net' = (net \ {m}) \cup P
  BY DEF ServeWriteData
<1>2. m.kind \in DataKinds /\ m.kind \in ToServe /\ "PFS_W_FIN" \in DataKinds
      /\ "PFS_W_FIN" \notin ToServe
  BY <1>1 DEF DataKinds, Turns, ToServe
<1>3. m \in DataRecords
  BY <1>2, DataPacketFacts
<1> HIDE DEF DataKinds, ToServe
<1>4. /\ n \in DataRecords /\ n.kind = "PFS_W_FIN" /\ n.SubID = m.SubID
      /\ n.server = m.server
  BY <1>2, <1>3 DEF DataRecords
<1> HIDE DEF n
<1>5. /\ P \in SUBSET DataRecords
      /\ \A p \in P : p.SubID = m.SubID /\ p.server = m.server /\ p.kind \notin ToServe
  BY <1>2, <1>4
<1> HIDE DEF P
<1>6. QED
  BY <1>1, <1>2, <1>5, ServedKeeps

\* The layout of a file arrives: it transfers nothing.
LEMMA LayoutResponseTransfers ==
  ASSUME ClientInv, TransferInv, NEW m \in net, HandleMetadataPacketResponse(m)
  PROVE  TransferInv' /\ issued' = issued /\ moved' = moved /\ answers' = answers
<1> DEFINE f == m.fileId
           us == WithLayout(traces, f)
           known == pfsFiles'
           P == net \ {m}
<1>1. f = m.fileId /\ us = WithLayout(traces, f)
  OBVIOUS
<1> HIDE DEF f, us
<1>11. LaidOut(m, f, us)
  BY <1>1, LayoutResponseFacts
<1>2. /\ GenerateDataPacketRequests(us, f, P) /\ f \in Files /\ m.kind = "LAYOUT_RESP"
      /\ DOMAIN us = DOMAIN traces
      /\ \A k \in DOMAIN traces :
           us[k] = IF traces[k].pfsFileID = f THEN SetLayout(traces[k]) ELSE traces[k]
      /\ Matched(us, P) /\ Laid(us, known) /\ known[f] = "set" /\ pfsFiles[f] # "set"
      /\ issued' = issued /\ answers' = answers
  BY <1>11 DEF LaidOut
<1>3. moved' = moved
  BY DEF HandleMetadataPacketResponse
<1>4. /\ requestID \in Nat /\ traces \in Seq(TraceSet) /\ Laid(traces, pfsFiles)
  BY DEF ClientInv, ClientTypes, Matched, Lists
<1>5. m.kind \notin DataKinds
  BY <1>2 DEF DataKinds, Turns
<1>6. \A r, i : Ahead(P, r, i) = Ahead(net, r, i)
  BY <1>5 DEF Ahead, Exchange
<1> HIDE DEF known, P
<1>7. ASSUME NEW k \in DOMAIN us
      PROVE  Exact(us[k], P, issued[us[k].ID], moved[us[k].ID])
  <2> DEFINE t == traces[k]
             w == us[k]
             places == issued[t.ID]
             bag == moved[t.ID]
  <2>1. k \in DOMAIN traces
    BY <1>2
  <2>2. Exact(t, net, places, bag)
    BY <2>1 DEF TransferInv, Told
  <2>3. Exact(t, P, places, bag)
    BY <1>6, <2>2, AheadDecides
  <2>4. CASE t.pfsFileID # f
    BY <1>2, <2>1, <2>3, <2>4
  <2>5. CASE t.pfsFileID = f
    <3>1. t \in TracesOn(f) /\ w = SetLayout(t)
      BY <1>2, <1>4, <2>1, <2>5, TraceOf
    <3>2. t.unProcessedSize # 0 /\ NoLayout(t)
      BY <1>2, <1>4, <2>1, <2>5 DEF Laid, NoLayout
    <3> HIDE DEF t, w, places, bag
    <3>3. Exact(w, P, places, bag) /\ w.ID = t.ID
      BY <1>2, <2>3, <3>1, <3>2, LayoutExact
    <3>4. QED
      BY <3>3 DEF w, places, bag
  <2>6. QED
    BY <2>4, <2>5
<1>8. Told(us, P, issued, moved)
  BY <1>7 DEF Told
<1>9. Told(traces', net', issued, moved)
  BY <1>2, <1>4, <1>8, GenerateExact
<1>10. QED
  BY <1>2, <1>3, <1>9 DEF TransferInv

\* Nothing is transferred for a request before it is issued.
LEMMA NewTraceTransfers ==
  ASSUME WholeRounds, ClientInv, TransferInv, NEW f \in config.files,
         NEW o \in config.offsets, NEW s \in config.lengths, NEW read \in BOOLEAN,
         HandleNewTrace(f, o, s, read), config' = config
  PROVE  TransferInv' /\ IO!Next
<1> DEFINE r == Len(issued) + 1
           t == NewTrace(r, f, o, s, read)
           places == PlacesOf(f, o, s)
           wanted == issued'
<1>0. Issues(f, o, s)
  BY IssueFacts DEF ClientInv
<1>1. /\ r \in Requests /\ r \notin Open
      /\ wanted \in Seq(SUBSET (Nat \X Nat)) /\ DOMAIN wanted = DOMAIN issued \cup {r}
      /\ \A x \in DOMAIN issued : wanted[x] = issued[x]
      /\ wanted[r] = places
      /\ f \in Files /\ o \in Nat /\ s \in Nat \ {0}
      /\ answers' = answers /\ moved' = moved
  BY <1>0 DEF Issues
<1>2. /\ config \in Configurations /\ r \in Nat /\ r \notin DOMAIN issued
      /\ requestID \in Nat /\ pfsFiles \in [Files -> Known] /\ traces \in Seq(TraceSet)
      /\ Open \subseteq DOMAIN issued
      /\ \A k \in DOMAIN traces : traces[k].ID \in Open
  <2>1. config \in Configurations /\ issued \in Seq(SUBSET (Nat \X Nat))
    BY DEF ClientInv, ClientTypes
  <2>2. r \in Nat /\ r \notin DOMAIN issued
    BY <2>1
  <2>3. /\ requestID \in Nat /\ pfsFiles \in [Files -> Known] /\ traces \in Seq(TraceSet)
        /\ Open \subseteq DOMAIN issued
        /\ \A k \in DOMAIN traces : traces[k].ID \in Open
    BY DEF ClientInv, ClientTypes, Matched, Lists, OpenTraces, Open
  <2>4. QED
    BY <2>1, <2>2, <2>3
<1>3. /\ t \in TracesOn(f) /\ t.ID = r /\ t.unProcessedSize = s /\ NoLayout(t)
  <2>1. t = NewTrace(r, f, o, s, read)
    OBVIOUS
  <2>2. f \in Files /\ r \in Nat /\ o \in Nat /\ s \in Nat /\ read \in BOOLEAN
    BY <1>1, <1>2
  <2> HIDE DEF t, r
  <2>3. Fresh(NewTrace(r, f, o, s, read), r, f, o, s)
    BY <2>2, NewTraceFacts
  <2>4. Fresh(t, r, f, o, s)
    BY <2>1, <2>3
  <2>5. QED
    BY <2>4 DEF Fresh, NoLayout
<1>4. moved[r] = EmptyBag
  BY <1>1, <1>2 DEF TransferInv
<1>5. \A i \in Servers(f) : Ahead(net, r, i) = {}
  <2> SUFFICES ASSUME NEW m \in net, m.kind \in DataKinds, m.SubID = r PROVE FALSE
    BY DEF Ahead, Exchange
  <2>1. PICK k \in DOMAIN traces : AwaitedBy(traces[k], m)
    BY DataPacketFacts
  <2>2. QED
    BY <1>1, <1>2, <2>1 DEF AwaitedBy
<1>6. Exact(t, net, places, EmptyBag)
  <2>1. FitsRounds(f, s)
    BY <1>2 DEF WholeRounds
  <2>2. /\ t = NewTrace(r, f, o, s, read) /\ places = PlacesOf(f, o, s)
        /\ r \in Nat /\ o \in Nat /\ s \in Nat
    BY <1>1, <1>2
  <2> HIDE DEF t, r, places
  <2>3. QED
    BY <1>1, <1>5, <2>1, <2>2, NewExact
<1>7. \A k \in DOMAIN traces : Exact(traces[k], net, wanted[traces[k].ID], moved[traces[k].ID])
  <2>1. \A k \in DOMAIN traces : wanted[traces[k].ID] = issued[traces[k].ID]
    BY <1>1, <1>2
  <2>2. QED
    BY <2>1 DEF TransferInv, Told
<1>8. places \in Requested
  BY <1>2 DEF Requested
<1>9. IO!Next
  <2>1. IO!Issue(r)
    <3>1. wanted = [x \in DOMAIN issued \cup {r} |-> IF x = r THEN places ELSE issued[x]]
      <4> HIDE DEF r, places, wanted
      <4>1. \A x \in DOMAIN wanted : wanted[x] = IF x = r THEN places ELSE issued[x]
        BY <1>1
      <4>2. wanted = [x \in DOMAIN wanted |-> wanted[x]]
        BY <1>1
      <4>3. QED
        BY <1>1, <4>1, <4>2
    <3> HIDE DEF r, places
    <3>2. QED
      BY <1>1, <1>2, <1>8, <3>1 DEF IO!Issue, IO!Issued, wanted
  <2> HIDE DEF r
  <2>2. QED
    BY <1>1, <2>1 DEF IO!Next
<1>10. Told(traces', net', wanted, moved) => TransferInv'
  <2>1. \A x \in Requests \ DOMAIN issued' : moved'[x] = EmptyBag
    BY <1>1 DEF TransferInv
  <2>2. QED
    BY <1>1, <2>1 DEF TransferInv
<1>11. ASSUME pfsFiles[f] # "set"
       PROVE  Told(traces', net', wanted, moved)
  <2>1. /\ traces' = Append(traces, t)
        /\ \/ net' = net \cup {[kind |-> "LAYOUT_REQ", fileId |-> f]}
           \/ net' = net
    <3>1. pfsFiles[f] = "unknown" \/ pfsFiles[f] = "queried"
      BY <1>1, <1>2, <1>11 DEF Known
    <3> HIDE DEF t
    <3>2. QED
      BY <3>1 DEF HandleNewTrace, t
  <2>2. \A x, i : Ahead(net', x, i) = Ahead(net, x, i)
    BY <2>1 DEF Ahead, Exchange, DataKinds, Turns
  <2> HIDE DEF t, r, places, wanted
  <2>3. /\ DOMAIN traces' = DOMAIN traces \cup {Len(traces) + 1}
        /\ traces'[Len(traces) + 1] = t
        /\ \A k \in DOMAIN traces : traces'[k] = traces[k]
    BY <1>2, <1>3, <2>1 DEF TraceSet
  <2>4. ASSUME NEW k \in DOMAIN traces'
        PROVE  Exact(traces'[k], net', wanted[traces'[k].ID], moved[traces'[k].ID])
    <3>1. CASE k \in DOMAIN traces
      <4>1. Exact(traces[k], net, wanted[traces[k].ID], moved[traces[k].ID])
        BY <1>7, <3>1
      <4>2. Exact(traces[k], net', wanted[traces[k].ID], moved[traces[k].ID])
        BY <2>2, <4>1, AheadDecides
      <4>3. QED
        BY <2>3, <3>1, <4>2
    <3>2. CASE k = Len(traces) + 1
      <4>1. Exact(t, net', places, EmptyBag)
        BY <1>6, <2>2, AheadDecides
      <4>2. QED
        BY <1>1, <1>3, <1>4, <2>3, <3>2, <4>1
    <3>3. QED
      BY <2>3, <3>1, <3>2
  <2>5. QED
    BY <2>4 DEF Told
<1>12. ASSUME pfsFiles[f] = "set"
       PROVE  Told(traces', net', wanted, moved)
  <2> DEFINE us == Append(traces, SetLayout(t))
             w == SetLayout(t)
  <2>1. t = NewTrace(r, f, o, s, read) /\ us = Append(traces, SetLayout(t)) /\ w = SetLayout(t)
    OBVIOUS
  <2> HIDE DEF t, us, places, wanted, w
  <2>2. t = NewTrace(Len(issued) + 1, f, o, s, read)
    BY <2>1
  <2>8. Joins(f, t, us)
    BY <1>12, <2>1, <2>2, NewTraceSet
  <2>3. /\ GenerateDataPacketRequests(us, f, net)
        /\ Matched(us, net) /\ Laid(us, pfsFiles)
        /\ \A j \in DOMAIN us : (j \in DOMAIN traces /\ us[j] = traces[j]) \/ us[j] = w
    BY <2>1, <2>8 DEF Joins
  <2> HIDE DEF r
  <2>4. Exact(w, net, places, EmptyBag) /\ w.ID = t.ID
    BY <1>1, <1>3, <1>6, <2>1, LayoutExact
  <2>5. ASSUME NEW j \in DOMAIN us
        PROVE  Exact(us[j], net, wanted[us[j].ID], moved[us[j].ID])
    <3>1. CASE j \in DOMAIN traces /\ us[j] = traces[j]
      BY <1>7, <3>1
    <3>2. CASE us[j] = w
      BY <1>1, <1>3, <1>4, <2>4, <3>2
    <3>3. QED
      BY <2>3, <3>1, <3>2
  <2>6. Told(us, net, wanted, moved)
    BY <2>5 DEF Told
  <2>7. QED
    BY <1>1, <1>2, <1>12, <2>3, <2>6, GenerateExact
<1>13. Told(traces', net', wanted, moved)
  BY <1>11, <1>12
<1>14. QED
  BY <1>9, <1>10, <1>13

\* When a trace has nothing left to send and waits for nothing, all was transferred.
LEMMA DoneExact ==
  ASSUME NEW f \in Files, NEW t \in TracesOn(f), t.hasLayout, Status(t) = "ALL_DONE",
         NEW pk, NEW places, NEW bag, Exact(t, pk, places, bag)
  PROVE  BagToSet(bag) = places
<1>1. /\ t.pfsFileID = f /\ t.offset \in Nat
      /\ \A i \in Servers(f) : t.dsoffsets[i] \in Nat /\ t.dataSizeInWindow[i] \in Slots
  BY TraceTypes
<1>2. Unsent(t) = {} /\ AwaitedFrom(t) = {} /\ t.unProcessedSize = 0
  BY DEF Status
<1>3. ASSUME NEW i \in Servers(f)
      PROVE  ~(t.dataSizeInWindow[i] > 0) /\ t.dataSizeInWindow[i] # SW_SENT
  BY <1>1, <1>2 DEF Unsent, AwaitedFrom
<1>4. \A i \in Servers(f) : Pending(t, i) = 0 /\ SentTo(t, i) = t.dsoffsets[i]
  BY <1>3 DEF Pending, SentTo
<1>5. PICK e \in Nat : /\ Reaches(t, e)
                       /\ places = PlacesBetween(f, t.offset, e + t.unProcessedSize)
  BY <1>1 DEF Exact, Extents
<1>6. e + t.unProcessedSize = e
  BY <1>2
<1>7. \A i \in Servers(f) : SentTo(t, i) = Low(f, i, e)
  BY <1>1, <1>4, <1>5 DEF Reaches
<1>8. \A i \in Servers(f) : Ahead(pk, t.ID, i) = {}
  BY <1>1, <1>3 DEF Exact, Spanned
<1>9. MovedOf(t, pk) = PlacesBetween(f, t.offset, e)
  BY <1>1, <1>7, <1>8 DEF MovedOf, PlacesBetween
<1>10. QED
  BY <1>5, <1>6, <1>9, BagsOfSets DEF Exact

\* The last packet of an exchange arrives: it was served, and when it is the last one of
\* its request so were all.
LEMMA LastDataTransfers ==
  ASSUME ClientInv, TransferInv, NEW m \in net, HandleLastDataPacket(m)
  PROVE  /\ TransferInv' /\ issued' = issued /\ moved' = moved
         /\ IO!Next \/ answers' = answers
<1>1. /\ m \in DataRecords /\ m.kind \in DataKinds
      /\ Exchange(net, m.SubID, m.server) = {m}
      /\ m.SubID \in Open
      /\ pfsFiles' = pfsFiles /\ issued' = issued /\ moved' = moved
  BY LastFacts
<1>2. PICK k \in DOMAIN traces : \E t \in {Received(traces[k], m.server)} :
              /\ traces[k].ID = m.SubID
              /\ \/ /\ Status(t) = "NEED_WAIT"
                    /\ traces' = [traces EXCEPT ![k] = t]
                    /\ net' = net \ {m}
                    /\ appRequestQ' = appRequestQ /\ requestID' = requestID
                    /\ aborted' = aborted /\ answers' = answers
                 \/ /\ Status(t) = "ALL_DONE"
                    /\ traces' = RemoveAt(traces, k)
                    /\ appRequestQ' = Popped(appRequestQ, m.SubID)
                    /\ answers' = [answers EXCEPT ![m.SubID] = @ + 1]
                    /\ net' = net \ {m} /\ requestID' = requestID /\ aborted' = aborted
                 \/ /\ Status(t) = "MORE_TO_SEND"
                    /\ GenerateDataPacketRequests([traces EXCEPT ![k] = t], m.fileId,
                                                  net \ {m})
                    /\ appRequestQ' = appRequestQ /\ answers' = answers
  BY LastFacts, Zenon
<1> DEFINE t == Received(traces[k], m.server)
           us == [traces EXCEPT ![k] = t]
           f == m.fileId
           P == net \ {m}
           r == m.SubID
<1>3. /\ traces[k].ID = m.SubID /\ t = Received(traces[k], m.server) /\ f = m.fileId
      /\ us = [traces EXCEPT ![k] = t] /\ us = WithAnswer(traces, k, m.server)
      /\ traces \in Seq(TraceSet) /\ requestID \in Nat
  BY <1>2 DEF ClientInv, ClientTypes, Matched, Lists, WithAnswer
<1> HIDE DEF t, us, f
<1>4. Answers(m, f, k, t, us)
  BY <1>3, AnswerFacts
<1>5. /\ f \in Files /\ m.server \in Servers(f) /\ traces[k] \in TracesOn(f)
      /\ traces[k].dataSizeInWindow[m.server] = SW_SENT
      /\ t \in TracesOn(f) /\ t \in TraceSet /\ t.ID = r /\ t.pfsFileID = f
      /\ DOMAIN us = DOMAIN traces /\ us[k] = t
      /\ \A j \in DOMAIN traces : j # k => us[j] = traces[j]
      /\ pfsFiles[f] = "set"
      /\ Matched(us, P) /\ Laid(us, pfsFiles)
  BY <1>4 DEF Answers
<1>6. t.hasLayout
  <2>1. t.hasLayout = (pfsFiles[t.pfsFileID] = "set")
    BY <1>5 DEF Laid
  <2>2. QED
    BY <1>5, <2>1
<1>7. m.kind \notin ToServe
  BY DEF HandleLastDataPacket, ToServe
<1>8. /\ \A x, i : Ahead(P, x, i) = Ahead(net, x, i)
      /\ Ahead(P, r, m.server) = {}
  BY <1>1, <1>7 DEF Ahead, Exchange
<1> HIDE DEF P, r
<1>9. Exact(t, P, issued[r], moved[r])
  <2> DEFINE w == traces[k]
             i == m.server
  <2>1. Exact(w, net, issued[r], moved[r]) /\ w.ID = r
    BY <1>3 DEF TransferInv, Told, r
  <2>2. Exact(w, P, issued[r], moved[r])
    BY <1>8, <2>1, AheadDecides
  <2>3. /\ w \in TracesOn(f) /\ i \in Servers(f) /\ w.dataSizeInWindow[i] = SW_SENT
        /\ t = Received(w, i) /\ Ahead(P, w.ID, i) = {} /\ f \in Files
    BY <1>3, <1>5, <1>8, <2>1
  <2> HIDE DEF w, i
  <2>4. QED
    BY <2>2, <2>3, ReceivedExact
<1>10. ASSUME NEW j \in DOMAIN us
       PROVE  Exact(us[j], P, issued[us[j].ID], moved[us[j].ID])
  <2>1. CASE j = k
    BY <1>5, <1>9, <2>1
  <2>2. CASE j # k
    <3>1. Exact(traces[j], net, issued[traces[j].ID], moved[traces[j].ID])
      BY <1>5 DEF TransferInv, Told
    <3>2. Exact(traces[j], P, issued[traces[j].ID], moved[traces[j].ID])
      BY <1>8, <3>1, AheadDecides
    <3>3. QED
      BY <1>5, <2>2, <3>2
  <2>3. QED
    BY <2>1, <2>2
<1>11. Told(us, P, issued, moved)
  BY <1>10 DEF Told
<1>12. Told(traces', net', issued, moved) => TransferInv'
  BY <1>1 DEF TransferInv
<1>13. CASE traces' = us /\ net' = P /\ answers' = answers
  BY <1>1, <1>11, <1>12, <1>13
<1>14. CASE GenerateDataPacketRequests(us, f, P) /\ answers' = answers
  <2>1. Told(traces', net', issued, moved)
    BY <1>3, <1>5, <1>11, <1>14, GenerateExact
  <2>2. QED
    BY <1>1, <1>12, <1>14, <2>1
<1>15. CASE /\ Status(t) = "ALL_DONE" /\ traces' = RemoveAt(traces, k) /\ net' = P
            /\ answers' = [answers EXCEPT ![r] = @ + 1]
  <2>1. \A j \in DOMAIN traces' : \E i \in DOMAIN us : traces'[j] = us[i]
    <3>1. traces' = RemoveAt(us, k)
      BY ZenonT(40), <1>3, <1>5, <1>15, RemoveChanged
    <3>2. \A i \in Servers(us[k].pfsFileID) : us[k].dataSizeInWindow[i] # SW_SENT
      <4>1. AwaitedFrom(t) = {}
        BY <1>15 DEF Status
      <4>2. QED
        BY <1>5, <4>1 DEF AwaitedFrom
    <3>3. QED
      BY <1>5, <3>1, <3>2, RemoveKeeps
  <2>2. Told(traces', net', issued, moved)
    <3> SUFFICES ASSUME NEW j \in DOMAIN traces'
                 PROVE  Exact(traces'[j], P, issued[traces'[j].ID], moved[traces'[j].ID])
      BY <1>15 DEF Told
    <3>1. PICK i \in DOMAIN us : traces'[j] = us[i]
      BY <2>1
    <3>2. QED
      BY <1>10, <3>1
  <2>3. BagToSet(moved[r]) = issued[r]
    BY <1>5, <1>6, <1>9, <1>15, DoneExact
  <2>4. /\ r \in DOMAIN issued /\ answers[r] = 0
    BY <1>1 DEF Open, r
  <2>5. r \in Requests
    BY <1>1, TraceOfPacket DEF r
  <2>6. answers' = [answers EXCEPT ![r] = 1]
    BY <1>15, <2>4
  <2>7. IO!Answer(r)
    BY <1>1, <2>3, <2>4, <2>6, SameBags DEF IO!Answer, IO!Issued
  <2>8. QED
    BY <1>1, <1>12, <2>2, <2>5, <2>7 DEF IO!Next
<1>16. QED
  BY <1>2, <1>13, <1>14, <1>15 DEF t, us, f, P, r

\* Before the first request nothing is transferred.
LEMMA TransferInit ==
  ASSUME Init
  PROVE  TransferInv /\ IO!Init
<1>1. /\ issued = <<>> /\ traces = <<>> /\ moved = [r \in Requests |-> EmptyBag]
      /\ answers = [r \in Requests |-> 0]
  BY DEF Init
<1>2. DOMAIN issued = {} /\ DOMAIN traces = {}
  BY <1>1
<1>3. TransferInv
  <2>1. moved = [r \in Requests |-> moved[r]]
    BY <1>1
  <2>2. \A r \in Requests : moved[r] = EmptyBag
    BY <1>1
  <2>3. QED
    BY <1>2, <2>1, <2>2 DEF TransferInv, Told
<1>4. issued = [r \in {} |-> {}]
  BY <1>1
<1>5. QED
  BY <1>1, <1>3, <1>4, SameBags DEF IO!Init

\* Every step of the client and the servers is one of striped I/O, or changes nothing of it.
LEMMA TransferStepKeeps ==
  ASSUME WholeRounds, ClientInv, TransferInv, [Next]_vars
  PROVE  TransferInv' /\ [IO!Next]_(IO!vars)
<1>1. CASE UNCHANGED vars
  <2>1. /\ traces' = traces /\ net' = net /\ issued' = issued /\ moved' = moved
        /\ answers' = answers
    BY <1>1 DEF vars
  <2>2. TransferInv'
    BY <2>1 DEF TransferInv, Told, Exact, Extents, Reaches, Spanned, MovedOf, Ahead, Exchange
  <2>3. QED
    BY <2>1, <2>2 DEF IO!vars
<1>2. CASE Next
  <2>1. config' = config
    BY <1>2 DEF Next
  <2>2. ASSUME NEW f \in config.files, NEW o \in config.offsets, NEW s \in config.lengths,
               NEW read \in BOOLEAN, HandleNewTrace(f, o, s, read)
        PROVE  TransferInv' /\ IO!Next
    BY <2>1, <2>2, NewTraceTransfers
  <2>3. ASSUME NEW m \in net, HandleMetadataPacketResponse(m)
        PROVE  TransferInv' /\ UNCHANGED IO!vars
    BY <2>3, LayoutResponseTransfers DEF IO!vars
  <2>4. ASSUME NEW m \in net, HandleWriteResponse(m)
        PROVE  TransferInv' /\ UNCHANGED IO!vars
    BY <2>4, WriteResponseTransfers DEF IO!vars, HandleWriteResponse, client
  <2>5. ASSUME NEW m \in net, HandleReadData(m)
        PROVE  TransferInv' /\ UNCHANGED IO!vars
    BY <2>5, ReadDataTransfers DEF IO!vars, HandleReadData, client
  <2>6. ASSUME NEW m \in net, HandleLastDataPacket(m)
        PROVE  TransferInv' /\ [IO!Next]_(IO!vars)
    BY <2>6, LastDataTransfers DEF IO!vars
  <2>7. ASSUME NEW m \in net, HandleMetadataPacket(m)
        PROVE  TransferInv' /\ UNCHANGED IO!vars
    BY <2>7, LayoutRequestTransfers DEF IO!vars, HandleMetadataPacket, client
  <2>8. ASSUME NEW m \in net, ServeWriteRequest(m)
        PROVE  TransferInv' /\ UNCHANGED IO!vars
    BY <2>8, ServeWriteRequestTransfers DEF IO!vars, ServeWriteRequest, client
  <2>9. ASSUME NEW m \in net, ServeRead(m) \/ ServeWriteData(m)
        PROVE  TransferInv' /\ IO!Next
    BY <2>9, ServeReadTransfers, ServeWriteDataTransfers
  <2>10. ClientStep => TransferInv' /\ [IO!Next]_(IO!vars)
    BY <2>3, <2>4, <2>5, <2>6 DEF ClientStep
  <2>11. ServerStep => TransferInv' /\ [IO!Next]_(IO!vars)
    BY <2>7, <2>8, <2>9 DEF ServerStep
  <2>12. QED
    BY <1>2, <2>2, <2>10, <2>11 DEF Next
<1>3. QED
  BY <1>1, <1>2

\* Each place of a request is transferred exactly once and the request is answered once, when
\* all of them were (openNewWindow, finishedgPacket, processLastDataPacketResponse), if
\* WholeRounds holds: no request on a file needs a second window, or MAX_WINDOW_SIZE is a
\* number of whole rounds of the file.  The code does not check that, and without it the
\* claim is false: a further window would begin where the first one did (MovesNothingUnwanted).
THEOREM ClientTransfersExactly ==
  RoomForRequests /\ WholeRounds => (Spec => TransfersExactly)
<1> SUFFICES ASSUME RoomForRequests, WholeRounds
             PROVE  Spec => TransfersExactly
  OBVIOUS
<1>1. Init => TransferInv /\ IO!Init
  BY TransferInit
<1>2. ClientInv /\ TransferInv /\ [Next]_vars => TransferInv' /\ [IO!Next]_(IO!vars)
  BY TransferStepKeeps
<1>3. Spec => []ClientInv
  BY ClientInvariant
<1>4. QED
  BY <1>1, <1>2, <1>3, PTL DEF Spec, TransfersExactly, IO!Spec

-----------------------------------------------------------------------------
(* Identifiers. *)

\* How many identifiers there are for exchanges: the multiples of RID_OFFSET below
\* CID_OFFSET - RID_OFFSET.
NumIds == (CidOffset - RidOffset - 1) \div RidOffset
Ids    == {k * RidOffset : k \in 1 .. NumIds}

\* A window has no more packets than there are identifiers, and there is room between two
\* of them for the data packets of a write, and for that of a read.
RoomForIds ==
  /\ \A f \in Files : ServerNum(f) <= NumIds
  /\ (MaxWindowSize - 1) \div PacketSizeLimit + 1 < RidOffset

\* Identifier j after identifier q.
After(q, j) == IF q + j <= NumIds THEN q + j ELSE q + j - NumIds

\* The counter goes round.
LEMMA NextIdFacts ==
  ASSUME NEW q \in 1 .. NumIds
  PROVE  NextRequestID(q * RidOffset) = (IF q = NumIds THEN 1 ELSE q + 1) * RidOffset
<1> DEFINE R == RidOffset
           C == CidOffset
           N == NumIds
           x == C - R - 1
           p == q * R
           e == N * R
           s == (q + 1) * R
<1>1. R \in Nat \ {0} /\ C \in Nat /\ C > 2 * R /\ x \in Nat /\ N = x \div R
  BY PVFS2ClientAssumption DEF NumIds
<1>2. N \in Nat /\ x % R \in Nat /\ x % R < R /\ x = e + (x % R)
  BY <1>1, Division
<1>3. q \in Nat /\ q <= N /\ q + 1 \in Nat /\ 1 * R = R
  BY <1>1, <1>2
<1>4. /\ p \in Nat /\ e \in Nat /\ s = p + R
      /\ q # N => s <= e
  <2>1. p \in Nat /\ e \in Nat /\ s = p + R
    BY <1>1, <1>2, <1>3, Distributes, ProductGrows
  <2>2. q # N => q + 1 <= N
    BY <1>2, <1>3
  <2>3. q # N => s <= e
    BY <1>1, <1>2, <1>3, <2>2, ProductGrows
  <2>4. QED
    BY <2>1, <2>3
<1>5. q = N => p = e
  OBVIOUS
<1>6. p <= e
  BY <1>1, <1>2, <1>3, ProductGrows
<1>7. NextRequestID(p) = IF (p + R) % C >= C - R THEN R ELSE p + R
  BY DEF NextRequestID
<1> HIDE DEF N, p, e, s, R, C
<1>8. p + R < C
  BY <1>1, <1>2, <1>4, <1>6
<1>9. (p + R) % C = p + R
  BY <1>1, <1>4, <1>8
<1>10. CASE q = N
  <2>1. p + R >= C - R
    BY <1>1, <1>2, <1>4, <1>5, <1>10
  <2>2. NextRequestID(p) = R
    BY <1>7, <1>9, <2>1
  <2>3. QED
    BY <1>3, <1>10, <2>2 DEF p, R, N
<1>11. CASE q # N
  <2>1. ~(p + R >= C - R)
    BY <1>1, <1>2, <1>4, <1>11
  <2>2. NextRequestID(p) = s
    BY <1>4, <1>7, <1>9, <2>1
  <2>3. QED
    BY <1>11, <2>2 DEF p, s, R, N
<1>12. QED
  BY <1>10, <1>11

\* The identifiers of a window are those after requestID, in turn.
LEMMA RequestIDsFacts ==
  ASSUME NEW q \in 1 .. NumIds, requestID = q * RidOffset, NEW n \in 0 .. NumIds
  PROVE  \A j \in 1 .. n + 1 : /\ RequestIDs(n)[j] = After(q, j - 1) * RidOffset
                               /\ After(q, j - 1) \in 1 .. NumIds
<1> DEFINE N == NumIds
           ids == RequestIDs(n)
           R == RidOffset
           Bad == {j \in 1 .. n + 1 : ~(ids[j] = After(q, j - 1) * R)}
<1>1. N \in Nat /\ n \in Nat /\ n <= N /\ q \in 1 .. N
  <2>1. CidOffset - RidOffset - 1 \in Nat /\ RidOffset \in Nat \ {0}
    BY PVFS2ClientAssumption
  <2>2. NumIds \in Nat
    BY <2>1, Division DEF NumIds
  <2>3. QED
    BY <2>2
<1>2. ids = [k \in 1 .. n + 1 |-> IF k = 1 THEN requestID ELSE NextRequestID(ids[k-1])]
  BY <1>1, RequestIDsDef
<1>3. \A j \in 1 .. n + 1 : After(q, j - 1) \in 1 .. N
  BY <1>1 DEF After
<1> HIDE DEF ids, N, R
<1>4. ASSUME Bad # {} PROVE FALSE
  <2>1. PICK k \in Bad : \A m \in Bad : k <= m
    <3>1. Bad \subseteq Nat
      OBVIOUS
    <3> HIDE DEF Bad
    <3>2. QED
      BY <1>4, <3>1, LeastNat
  <2>2. CASE k = 1
    <3>1. ids[k] = q * R
      BY <1>1, <1>2, <2>1, <2>2 DEF R
    <3>2. After(q, k - 1) = q
      BY <1>1, <2>2 DEF After, N
    <3>3. QED
      BY <2>1, <3>1, <3>2
  <2>3. CASE k # 1
    <3>1. k \in 1 .. n + 1 /\ k - 1 \in 1 .. n + 1 /\ ~(k <= k - 1) /\ (k - 1) - 1 = k - 2
      BY <1>1, <2>1, <2>3
    <3>2. ids[k-1] = After(q, k - 2) * R /\ After(q, k - 2) \in 1 .. N
      BY <1>3, <2>1, <3>1
    <3>3. ids[k] = NextRequestID(ids[k-1])
      BY <1>2, <2>1, <2>3
    <3>4. NextRequestID(After(q, k - 2) * R)
            = (IF After(q, k - 2) = N THEN 1 ELSE After(q, k - 2) + 1) * R
      BY <3>2, NextIdFacts DEF N, R
    <3>5. (IF After(q, k - 2) = N THEN 1 ELSE After(q, k - 2) + 1) = After(q, k - 1)
      BY <1>1, <3>1 DEF After, N
    <3>6. QED
      BY <2>1, <3>2, <3>3, <3>4, <3>5
  <2>4. QED
    BY <2>2, <2>3
<1>5. QED
  BY <1>3, <1>4 DEF ids, N, R

\* What the packets of a window are numbered with: their own identifiers, and so is what
\* comes next.
LEMMA WindowIds ==
  ASSUME RoomForIds, requestID \in Ids, NEW f \in Files, NEW t \in TracesOn(f)
  PROVE  /\ \A i \in Unsent(t) : IdFor(t, i) % RidOffset = 0
         /\ \A i, j \in Unsent(t) :
              IdFor(t, i) \div RidOffset = IdFor(t, j) \div RidOffset => i = j
         /\ RequestIDs(Cardinality(Unsent(t)))[Cardinality(Unsent(t)) + 1] \in Ids
<1> DEFINE N == NumIds
           n == Cardinality(Unsent(t))
<1>1. PICK q \in 1 .. N : requestID = q * RidOffset
  BY DEF Ids
<1>2. n \in Nat /\ n \in 0 .. N /\ N \in Nat
  <2>1. n \in Nat /\ n <= ServerNum(f) /\ ServerNum(f) \in Nat
    BY UnsentFacts, StripeFacts
  <2>2. ServerNum(f) <= N
    BY DEF RoomForIds
  <2>3. N \in Nat
    <3>1. CidOffset - RidOffset - 1 \in Nat /\ RidOffset \in Nat \ {0}
      BY PVFS2ClientAssumption
    <3>2. QED
      BY <3>1, Division DEF NumIds
  <2> HIDE DEF N, n
  <2>4. QED
    BY <2>1, <2>2, <2>3
<1> HIDE DEF n
<1>3. \A j \in 1 .. n + 1 : /\ RequestIDs(n)[j] = After(q, j - 1) * RidOffset
                            /\ After(q, j - 1) \in 1 .. NumIds
  BY <1>1, <1>2, RequestIDsFacts
<1>4. ASSUME NEW i \in Unsent(t)
      PROVE  /\ Rank(t, i) \in 1 .. n
             /\ IdFor(t, i) = After(q, Rank(t, i) - 1) * RidOffset
             /\ IdFor(t, i) % RidOffset = 0
             /\ IdFor(t, i) \div RidOffset = After(q, Rank(t, i) - 1)
  <2>1. Rank(t, i) \in 1 .. n
    BY RankFacts DEF n
  <2>2. Rank(t, i) \in 1 .. n + 1
    BY <1>2, <2>1
  <2>3. /\ IdFor(t, i) = After(q, Rank(t, i) - 1) * RidOffset
        /\ After(q, Rank(t, i) - 1) \in 1 .. NumIds
    BY <1>3, <2>2 DEF IdFor, n
  <2> DEFINE a == After(q, Rank(t, i) - 1)
  <2>4. a \in Nat /\ RidOffset \in Nat \ {0} /\ 0 \in 0 .. RidOffset - 1
    BY <1>2, <2>3, PVFS2ClientAssumption
  <2> HIDE DEF a
  <2>5. a * RidOffset \in Nat /\ a * RidOffset + 0 = a * RidOffset
    BY <2>4, ProductGrows
  <2>6. (a * RidOffset + 0) \div RidOffset = a /\ (a * RidOffset + 0) % RidOffset = 0
    BY <2>4, DivisionUnique
  <2>7. QED
    BY <2>1, <2>3, <2>5, <2>6 DEF a
<1>5. ASSUME NEW i \in Unsent(t), NEW j \in Unsent(t),
             IdFor(t, i) \div RidOffset = IdFor(t, j) \div RidOffset
      PROVE  i = j
  <2> DEFINE x == Rank(t, i)
             y == Rank(t, j)
  <2>1. x \in 1 .. n /\ y \in 1 .. n /\ After(q, x - 1) = After(q, y - 1)
    BY <1>4, <1>5
  <2> HIDE DEF x, y
  <2>2. x = y
    BY <1>1, <1>2, <2>1 DEF After, N
  <2>3. QED
    BY <2>2, RankFacts DEF x, y
<1>6. RequestIDs(n)[n + 1] \in Ids
  <2>1. n + 1 \in 1 .. n + 1
    BY <1>2
  <2>2. QED
    BY <1>3, <2>1 DEF Ids
<1>7. QED
  BY <1>4, <1>5, <1>6 DEF n

-----------------------------------------------------------------------------
(* Windows. *)

\* A window is sent before any of it is answered, and a slot is no larger than a window.
Windowed(t) ==
  /\ Unsent(t) = {} \/ AwaitedFrom(t) = {}
  /\ \A i \in Servers(t.pfsFileID) : t.dataSizeInWindow[i] <= MaxWindowSize

\* A trace whose slots are like those of a windowed one, or received, or sizes.
LEMMA WindowedSlots ==
  ASSUME NEW f \in Files, NEW t \in TracesOn(f),
         \A i \in Servers(f) : t.dataSizeInWindow[i] <= MaxWindowSize,
         \/ \A i \in Servers(f) : t.dataSizeInWindow[i] # SW_SENT
         \/ \A i \in Servers(f) : ~(t.dataSizeInWindow[i] > 0)
  PROVE  Windowed(t)
<1>1. t.pfsFileID = f
  BY TraceTypes
<1>2. /\ Unsent(t) = {i \in Servers(f) : t.dataSizeInWindow[i] > 0}
      /\ AwaitedFrom(t) = {i \in Servers(f) : t.dataSizeInWindow[i] = SW_SENT}
  BY UnsentFacts
<1>3. QED
  BY <1>1, <1>2 DEF Windowed

\* The next window.
LEMMA WindowFits ==
  ASSUME NEW f \in Files, NEW t \in TracesOn(f), WellBegun(t), t.unProcessedSize # 0,
         NEW i \in Servers(f)
  PROVE  OpenNewWindow(t).dataSizeInWindow[i] <= MaxWindowSize
<1> DEFINE n == WindowBytes(t)
           s == t.offset_start_server
           y == t.offset_start_position
           x == Before(f, s)
           b == x + y
           z == 0 * WindowSize(f)
           d == Dealt(f, s, y, n)
<1>1. /\ t.pfsFileID = f /\ t.unProcessedSize \in Nat /\ s \in Servers(f) /\ y \in Nat
  BY TraceTypes
<1>2. n \in 1 .. MaxWindowSize /\ n \in Nat /\ MaxWindowSize \in Nat
  BY <1>1, MaxWindowSizeAssumption DEF WindowBytes
<1>3. Begins(f, s, y, n)
  BY <1>2, TraceBegins
<1>4. x \in Nat /\ z = 0
  <2>1. s \in 1 .. ServerNum(f) + 1 /\ WindowSize(f) \in Nat
    BY <1>1, StripeFacts, RoundFacts
  <2> HIDE DEF s
  <2>2. QED
    BY <2>1, StripeFacts
<1>5. OpenNewWindow(t).dataSizeInWindow = d
  <2>1. OpenNewWindow(t) = [t EXCEPT !.unProcessedSize = t.unProcessedSize - n,
                                     !.dataSizeInWindow = d,
                                     !.totalSubreqsInWindow = ServerNum(f)]
    BY <1>1 DEF OpenNewWindow, WindowBytes
  <2> HIDE DEF d, n
  <2>2. QED
    BY <2>1 DEF TracesOn
<1> HIDE DEF z, x, s, y, n
<1>6. b \in Nat /\ 0 \in Nat /\ b = z + x + y
  BY <1>1, <1>4
<1> HIDE DEF b
<1>7. d[i] = Low(f, i, b + n) - Low(f, i, b)
  BY <1>3, <1>6, DealtExact DEF x, z
<1>8. Low(f, i, b) \in Nat /\ Low(f, i, b + n) \in Nat /\ Low(f, i, b + n) <= Low(f, i, b) + n
  BY <1>2, <1>6, LowGrows
<1> HIDE DEF d
<1>9. d[i] <= MaxWindowSize
  BY <1>2, <1>7, <1>8
<1>10. QED
  BY <1>5, <1>9

\* The trace that generateDataPacketRequests works on.
LEMMA NextWindowed ==
  ASSUME NEW f \in Files, NEW t \in TracesOn(f), WellBegun(t), Windowed(t)
  PROVE  /\ Windowed(AtNextPackets(t)) /\ Windowed(AllSent(AtNextPackets(t)))
         /\ Unsent(AtNextPackets(t)) # {} => AwaitedFrom(t) = {}
<1> DEFINE w == AtNextPackets(t)
           v == AllSent(w)
<1>1. w \in TracesOn(f) /\ t.pfsFileID = f
  BY NextPacketsFacts, TraceTypes
<1>2. w = t => Windowed(w) /\ (Unsent(w) # {} => AwaitedFrom(t) = {})
  <2>1. Unsent(t) # {} => AwaitedFrom(t) = {}
    BY DEF Windowed
  <2>2. QED
    BY <2>1
<1>3. ASSUME w # t PROVE Windowed(w) /\ (Unsent(w) # {} => AwaitedFrom(t) = {})
  <2>1. w = OpenNewWindow(t) /\ AwaitedFrom(t) = {}
    BY <1>3 DEF AtNextPackets
  <2>2. t.unProcessedSize # 0 /\ \A i \in Servers(f) : w.dataSizeInWindow[i] \in Nat
    <3>1. t.unProcessedSize # 0
      BY <1>3, <2>1, OpenNewWindowFacts
    <3>2. w = OpenNewWindow(t)
      BY <2>1
    <3> HIDE DEF w
    <3>3. QED
      BY <3>1, <3>2, OpenNewWindowFacts
  <2>3. \A i \in Servers(f) : w.dataSizeInWindow[i] <= MaxWindowSize
    BY <2>1, <2>2, WindowFits
  <2>4. \A i \in Servers(f) : w.dataSizeInWindow[i] # SW_SENT
    <3> HIDE DEF w
    <3>1. QED
      BY <2>2 DEF SW_SENT
  <2> HIDE DEF w
  <2>5. Windowed(w)
    BY <1>1, <2>3, <2>4, WindowedSlots
  <2>6. QED
    BY <2>1, <2>5
<1>4. Windowed(w) /\ (Unsent(w) # {} => AwaitedFrom(t) = {})
  BY <1>2, <1>3
<1> HIDE DEF w
<1>5. Windowed(v)
  <2>1. /\ v \in TracesOn(f) /\ Unsent(v) = {}
        /\ \A i \in Servers(f) :
             /\ i \in Unsent(w) => v.dataSizeInWindow[i] = SW_SENT
             /\ i \notin Unsent(w) => v.dataSizeInWindow[i] = w.dataSizeInWindow[i]
    BY <1>1, AllSentFacts
  <2>2. \A i \in Servers(f) : w.dataSizeInWindow[i] <= MaxWindowSize
    <3>1. w.pfsFileID = f
      BY <1>1, TraceTypes
    <3>2. QED
      BY <1>4, <3>1 DEF Windowed
  <2> HIDE DEF v
  <2>3. \A i \in Servers(f) : v.dataSizeInWindow[i] <= MaxWindowSize
    BY <2>1, <2>2, MaxWindowSizeAssumption DEF SW_SENT
  <2>4. \A i \in Servers(f) : ~(v.dataSizeInWindow[i] > 0)
    BY <2>1, UnsentFacts
  <2>5. QED
    BY <2>1, <2>3, <2>4, WindowedSlots
<1>6. QED
  BY <1>4, <1>5 DEF w, v

\* An answered trace.
LEMMA ReceivedWindowed ==
  ASSUME NEW f \in Files, NEW t \in TracesOn(f), NEW i \in Servers(f),
         t.dataSizeInWindow[i] = SW_SENT, Windowed(t),
         NEW w, w = Received(t, i)
  PROVE  Windowed(w)
<1>1. /\ w \in TracesOn(f) /\ w.dataSizeInWindow[i] = SW_RECEIVED
      /\ \A j \in Servers(f) \ {i} : w.dataSizeInWindow[j] = t.dataSizeInWindow[j]
  BY ReceivedFacts
<1>2. /\ t.pfsFileID = f /\ Unsent(t) = {j \in Servers(f) : t.dataSizeInWindow[j] > 0}
      /\ i \in AwaitedFrom(t)
  BY TraceTypes, UnsentFacts
<1>3. /\ \A j \in Servers(f) : ~(t.dataSizeInWindow[j] > 0)
      /\ \A j \in Servers(f) : t.dataSizeInWindow[j] <= MaxWindowSize
  BY <1>2 DEF Windowed
<1>4. \A j \in Servers(f) : ~(w.dataSizeInWindow[j] > 0)
  BY <1>1, <1>3 DEF SW_RECEIVED
<1>5. \A j \in Servers(f) : w.dataSizeInWindow[j] <= MaxWindowSize
  BY <1>1, <1>3, MaxWindowSizeAssumption DEF SW_RECEIVED
<1>6. QED
  BY <1>1, <1>4, <1>5, WindowedSlots

\* A trace that gets its layout.
LEMMA LayoutWindowed ==
  ASSUME NEW f \in Files, NEW t \in TracesOn(f), t.unProcessedSize # 0
  PROVE  Windowed(SetLayout(t))
<1> DEFINE w == SetLayout(t)
           n == WindowBytes(t)
           b == t.offset
<1>1. /\ w \in TracesOn(f) /\ n \in 1 .. MaxWindowSize
      /\ \A i \in Servers(f) : /\ w.dataSizeInWindow[i] \in Nat
                               /\ w.dataSizeInWindow[i] = Low(f, i, b + n) - Low(f, i, b)
  BY SetLayoutFacts
<1>2. b \in Nat /\ n \in Nat /\ n <= MaxWindowSize /\ MaxWindowSize \in Nat
  BY <1>1, TraceTypes, MaxWindowSizeAssumption
<1> HIDE DEF w, n, b
<1>3. ASSUME NEW i \in Servers(f)
      PROVE  w.dataSizeInWindow[i] # SW_SENT /\ w.dataSizeInWindow[i] <= MaxWindowSize
  <2>1. Low(f, i, b) \in Nat /\ Low(f, i, b + n) \in Nat /\ Low(f, i, b + n) <= Low(f, i, b) + n
    BY <1>2, LowGrows
  <2>2. w.dataSizeInWindow[i] \in Nat
        /\ w.dataSizeInWindow[i] = Low(f, i, b + n) - Low(f, i, b)
    BY <1>1
  <2>3. QED
    BY <1>2, <2>1, <2>2 DEF SW_SENT
<1>4. QED
  BY <1>1, <1>3, WindowedSlots DEF w

\* A trace that sends nothing yet.
LEMMA FreshWindowed ==
  ASSUME NEW t, NEW id, NEW f \in Files, NEW b, NEW n, Fresh(t, id, f, b, n)
  PROVE  Windowed(t)
<1>1. t \in TracesOn(f) /\ \A i \in Servers(f) : t.dataSizeInWindow[i] = 0
  BY DEF Fresh, SW_NULL
<1>2. \A i \in Servers(f) : /\ t.dataSizeInWindow[i] # SW_SENT
                            /\ t.dataSizeInWindow[i] <= MaxWindowSize
  BY <1>1, MaxWindowSizeAssumption DEF SW_SENT
<1>3. QED
  BY <1>1, <1>2, WindowedSlots

-----------------------------------------------------------------------------
(* The invariant. *)

\* The packets that have the identifier of their exchange; they are for a slot.
Heads == {"PFS_R_REQ", "PFS_W_REQ", "PFS_W_RESP"}
AtHead(m) == m.id % RidOffset = 0 /\ m.size <= MaxWindowSize

\* Packets m and n of one request have identifiers of the same exchange.
SameGroup(m, n) ==
  /\ m.kind \in DataKinds /\ n.kind \in DataKinds /\ m.SubID = n.SubID
  /\ m.id \div RidOffset = n.id \div RidOffset

Windows(ts) == \A k \in DOMAIN ts : Windowed(ts[k])
Grouped(pk) == /\ \A m \in pk : m.kind \in Heads => AtHead(m)
               /\ \A m, n \in pk : SameGroup(m, n) => m.server = n.server

IdsInv ==
  /\ requestID \in Ids
  /\ Windows(traces) /\ Grouped(net)
  /\ config.flows = 1 => \A r, s \in Open : r = s

\* What generateDataPacketRequests keeps of it.
LEMMA GenerateGrouped ==
  ASSUME NEW ts, NEW pk, NEW f \in Files, GenerateDataPacketRequests(ts, f, pk),
         RoomForIds, Matched(ts, pk), requestID \in Nat, requestID \in Ids,
         Windows(ts), Grouped(pk)
  PROVE  requestID' \in Ids /\ Windows(traces') /\ Grouped(net')
<1>1. /\ ts \in Seq(TraceSet) /\ \A k \in DOMAIN ts : WellBegun(ts[k])
      /\ \A i, j \in DOMAIN ts : ts[i].ID = ts[j].ID => i = j
  BY DEF Matched, Lists
<1>2. CASE traces' = ts /\ net' = pk /\ requestID' = requestID
  BY <1>2
<1>3. CASE \E k \in DOMAIN ts : \E t \in {AtNextPackets(ts[k])} :
             /\ ts[k].pfsFileID = f
             /\ traces' = [ts EXCEPT ![k] = AllSent(t)]
             /\ net' = pk \cup PacketsOf(t)
             /\ requestID' = RequestIDs(Cardinality(Unsent(t)))[Cardinality(Unsent(t)) + 1]
  <2>1. PICK k \in DOMAIN ts : \E t \in {AtNextPackets(ts[k])} :
             /\ ts[k].pfsFileID = f
             /\ traces' = [ts EXCEPT ![k] = AllSent(t)]
             /\ net' = pk \cup PacketsOf(t)
             /\ requestID' = RequestIDs(Cardinality(Unsent(t)))[Cardinality(Unsent(t)) + 1]
    BY <1>3
  <2>2. PICK t \in {AtNextPackets(ts[k])} :
             /\ ts[k].pfsFileID = f
             /\ traces' = [ts EXCEPT ![k] = AllSent(t)]
             /\ net' = pk \cup PacketsOf(t)
             /\ requestID' = RequestIDs(Cardinality(Unsent(t)))[Cardinality(Unsent(t)) + 1]
    BY <2>1
  <2>3. /\ t = AtNextPackets(ts[k]) /\ ts[k] \in TracesOn(f) /\ WellBegun(ts[k])
        /\ Windowed(ts[k])
    BY <1>1, <2>2, TraceOf DEF Windows
  <2>4. t \in TracesOn(f) /\ t.ID = ts[k].ID
    BY <2>3, NextPacketsFacts DEF SameStart
  <2>5. Windowed(t) /\ Windowed(AllSent(t)) /\ (Unsent(t) # {} => AwaitedFrom(ts[k]) = {})
    BY <2>3, NextWindowed
  <2>6. Windows(traces')
    <3> DEFINE w == AllSent(t)
    <3>1. /\ DOMAIN traces' = DOMAIN ts /\ traces'[k] = w
          /\ \A j \in DOMAIN ts : j # k => traces'[j] = ts[j]
      BY <2>2
    <3> HIDE DEF w
    <3>2. Windowed(w)
      BY <2>5 DEF w
    <3>3. QED
      BY <3>1, <3>2 DEF Windows
  <2>7. requestID' \in Ids
    BY <2>2, <2>4, WindowIds
  <2>8. ASSUME NEW m \in PacketsOf(t)
        PROVE  /\ AtHead(m) /\ m.SubID = ts[k].ID /\ m.server \in Unsent(t)
               /\ m.id = IdFor(t, m.server)
    <3>1. /\ m.server \in Unsent(t) /\ m.id = IdFor(t, m.server) /\ m.SubID = t.ID
          /\ m.size = t.dataSizeInWindow[m.server]
      BY <2>4, PacketsOfFacts
    <3>2. m.id % RidOffset = 0
      BY <2>4, <3>1, WindowIds
    <3>3. m.server \in Servers(f) /\ t.pfsFileID = f
      BY <2>4, <3>1, UnsentFacts, TraceTypes
    <3>4. m.size <= MaxWindowSize
      BY <2>5, <3>1, <3>3 DEF Windowed
    <3>5. QED
      BY <2>4, <3>1, <3>2, <3>4 DEF AtHead
  <2>9. ASSUME NEW m \in PacketsOf(t), NEW n \in PacketsOf(t), SameGroup(m, n)
        PROVE  m.server = n.server
    <3>1. /\ m.server \in Unsent(t) /\ n.server \in Unsent(t)
          /\ m.id = IdFor(t, m.server) /\ n.id = IdFor(t, n.server)
      BY <2>8
    <3>2. QED
      BY <2>4, <2>9, <3>1, WindowIds DEF SameGroup
  <2>10. ASSUME NEW m \in PacketsOf(t), NEW n \in pk, n.kind \in DataKinds
         PROVE  n.SubID # m.SubID
    <3>1. PICK j \in DOMAIN ts : AwaitedBy(ts[j], n)
      BY <2>10 DEF Matched, Placed
    <3>2. SUFFICES ASSUME n.SubID = m.SubID PROVE FALSE
      OBVIOUS
    <3>3. j = k
      BY <1>1, <2>8, <3>1, <3>2 DEF AwaitedBy
    <3>4. n.server \in AwaitedFrom(ts[k])
      BY <3>1, <3>3 DEF AwaitedBy, AwaitedFrom
    <3>5. Unsent(t) # {}
      BY <2>8
    <3>6. QED
      BY <2>5, <3>4, <3>5
  <2>11. Grouped(net')
    <3>1. \A m \in net' : m.kind \in Heads => AtHead(m)
      BY <2>2, <2>8 DEF Grouped
    <3>2. ASSUME NEW m \in net', NEW n \in net', SameGroup(m, n)
          PROVE  m.server = n.server
      <4>1. m.SubID = n.SubID /\ m.kind \in DataKinds /\ n.kind \in DataKinds
        BY <3>2 DEF SameGroup
      <4>2. CASE m \in pk /\ n \in pk
        BY <3>2, <4>2 DEF Grouped
      <4>3. CASE m \in PacketsOf(t) /\ n \in PacketsOf(t)
        BY <2>9, <3>2, <4>3
      <4>4. ~(m \in PacketsOf(t) /\ n \in pk) /\ ~(n \in PacketsOf(t) /\ m \in pk)
        BY <2>10, <4>1
      <4>5. QED
        BY <2>2, <4>2, <4>3, <4>4
    <3>3. QED
      BY <3>1, <3>2 DEF Grouped
  <2>12. QED
    BY <2>6, <2>7, <2>11
<1>4. \/ traces' = ts /\ net' = pk /\ requestID' = requestID
      \/ \E k \in DOMAIN ts : \E t \in {AtNextPackets(ts[k])} :
             /\ ts[k].pfsFileID = f
             /\ traces' = [ts EXCEPT ![k] = AllSent(t)]
             /\ net' = pk \cup PacketsOf(t)
             /\ requestID' = RequestIDs(Cardinality(Unsent(t)))[Cardinality(Unsent(t)) + 1]
  BY <1>1, GenerateFacts
<1>5. QED
  BY <1>2, <1>3, <1>4

\* A quotient grows with what is divided.
LEMMA QuotientGrows ==
  ASSUME NEW a \in Nat, NEW b \in Nat, a <= b, NEW w \in Nat \ {0}
  PROVE  a \div w <= b \div w
<1> DEFINE p == a \div w
           q == b \div w
           x == p * w
           y == q * w
           z == (q + 1) * w
<1>1. p \in Nat /\ q \in Nat /\ a = x + (a % w) /\ b = y + (b % w)
      /\ a % w \in Nat /\ b % w \in Nat /\ b % w < w
  BY Division
<1>2. x \in Nat /\ y \in Nat /\ z = y + w
  <2> HIDE DEF p, q
  <2>1. 1 * w = w /\ z = q * w + 1 * w
    BY <1>1, Distributes
  <2>2. QED
    BY <1>1, <2>1, ProductGrows
<1>3. q + 1 <= p => z <= x
  <2> HIDE DEF p, q
  <2>1. QED
    BY <1>1, ProductGrows
<1> HIDE DEF p, q, x, y, z
<1>4. p <= q
  BY <1>1, <1>2, <1>3
<1>5. QED
  BY <1>4 DEF p, q

\* The packets that follow the head of an exchange have identifiers of it.
LEMMA FollowersGroup ==
  ASSUME NEW id \in Nat, id % RidOffset = 0, NEW k \in 0 .. RidOffset - 1
  PROVE  (id + k) \div RidOffset = id \div RidOffset
<1> DEFINE R == RidOffset
           q == id \div R
           p == q * R
<1>1. R \in Nat \ {0} /\ q \in Nat /\ id = p + (id % R)
  BY PVFS2ClientAssumption, Division
<1>2. p \in Nat
  BY <1>1, ProductGrows
<1>3. (p + k) \div R = q
  BY <1>1, DivisionUnique
<1> HIDE DEF p, q
<1>4. id = p
  BY <1>1, <1>2
<1>5. QED
  BY <1>3, <1>4 DEF q

\* A step that only changes packets, and keeps them grouped.
LEMMA OnlyPackets ==
  ASSUME IdsInv, UNCHANGED client, config' = config, Grouped(net')
  PROVE  IdsInv'
<1>1. /\ requestID' = requestID /\ traces' = traces /\ issued' = issued /\ answers' = answers
  BY DEF client
<1>2. Open' = Open
  BY <1>1 DEF Open
<1>3. QED
  BY <1>1, <1>2 DEF IdsInv, Windows

\* A packet of an exchange is replaced by others of it.
LEMMA ReplacedGrouped ==
  ASSUME NEW m \in net, m.kind \in DataKinds, NEW P,
         \A n \in P : /\ n.SubID = m.SubID /\ n.server = m.server
                      /\ n.id \div RidOffset = m.id \div RidOffset
                      /\ n.kind \in Heads => AtHead(n),
         Grouped(net), net' = (net \ {m}) \cup P
  PROVE  Grouped(net')
<1>1. ASSUME NEW x \in net'
      PROVE  \E y \in net : /\ y.SubID = x.SubID /\ y.server = x.server
                            /\ y.id \div RidOffset = x.id \div RidOffset
                            /\ x.kind \in DataKinds => y.kind \in DataKinds
  <2>1. CASE x \in net
    BY <2>1
  <2>2. CASE x \in P
    BY <2>2
  <2>3. QED
    BY <2>1, <2>2
<1>2. ASSUME NEW x \in net', NEW z \in net', SameGroup(x, z)
      PROVE  x.server = z.server
  <2>1. PICK y \in net : /\ y.SubID = x.SubID /\ y.server = x.server
                         /\ y.id \div RidOffset = x.id \div RidOffset
                         /\ x.kind \in DataKinds => y.kind \in DataKinds
    BY <1>1
  <2>2. PICK w \in net : /\ w.SubID = z.SubID /\ w.server = z.server
                         /\ w.id \div RidOffset = z.id \div RidOffset
                         /\ z.kind \in DataKinds => w.kind \in DataKinds
    BY <1>1
  <2>3. SameGroup(y, w)
    BY <1>2, <2>1, <2>2 DEF SameGroup
  <2>4. QED
    BY <2>1, <2>2, <2>3 DEF Grouped
<1>3. \A x \in net' : x.kind \in Heads => AtHead(x)
  BY DEF Grouped
<1>4. QED
  BY <1>2, <1>3 DEF Grouped

\* A packet of a read that is not its last one is dropped.
LEMMA ReadDataGrouped ==
  ASSUME ClientInv, IdsInv, NEW m \in net, HandleReadData(m), config' = config
  PROVE  IdsInv'
<1>1. net' = net \ {m} /\ UNCHANGED client
  BY DEF HandleReadData
<1>2. Grouped(net')
  BY <1>1 DEF IdsInv, Grouped
<1>3. QED
  BY <1>1, <1>2, OnlyPackets

\* A data server lets a write start.
LEMMA ServeWriteRequestGrouped ==
  ASSUME ClientInv, IdsInv, NEW m \in net, ServeWriteRequest(m), config' = config
  PROVE  IdsInv'
<1> DEFINE n == [m EXCEPT !.kind = "PFS_W_RESP"]
           P == {n}
<1>1. m.kind = "PFS_W_REQ" /\ net' = (net \ {m}) \cup P /\ UNCHANGED client
  BY DEF ServeWriteRequest
<1>2. m.kind \in DataKinds /\ m.kind \in Heads
  BY <1>1 DEF DataKinds, Turns, Heads
<1>3. m \in DataRecords /\ AtHead(m)
  BY <1>2, DataPacketFacts DEF IdsInv, Grouped
<1>4. n.SubID = m.SubID /\ n.server = m.server /\ n.id = m.id /\ n.size = m.size
  BY <1>3 DEF DataRecords
<1> HIDE DEF n
<1>5. AtHead(n)
  BY <1>3, <1>4 DEF AtHead
<1>6. Grouped(net')
  BY <1>1, <1>2, <1>4, <1>5, ReplacedGrouped DEF IdsInv
<1>7. QED
  BY <1>1, <1>6, OnlyPackets

\* A data server reads.
LEMMA ServeReadGrouped ==
  ASSUME RoomForIds, ClientInv, IdsInv, NEW m \in net, ServeRead(m), config' = config
  PROVE  IdsInv'
<1> DEFINE n == [m EXCEPT !.kind = "PFS_R_DATA_LAST"]
           d == [m EXCEPT !.kind = "PFS_R_DATA", !.id = @ + 1]
<1>1. /\ m.kind = "PFS_R_REQ" /\ UNCHANGED client
      /\ \E before \in {{}, {d}} : net' = (net \ {m}) \cup before \cup {n}
  BY DEF ServeRead
<1>2. m.kind \in DataKinds /\ m.kind \in Heads
  BY <1>1 DEF DataKinds, Turns, Heads
<1>3. m \in DataRecords /\ AtHead(m)
  BY <1>2, DataPacketFacts DEF IdsInv, Grouped
<1>4. /\ n.SubID = m.SubID /\ n.server = m.server /\ n.id = m.id
      /\ n.kind \notin Heads
  BY <1>3 DEF DataRecords, Heads
<1>5. /\ d.SubID = m.SubID /\ d.server = m.server /\ d.id = m.id + 1 /\ d.kind \notin Heads
  <2> DEFINE x == m.id + 1
  <2>1. d = [m EXCEPT !.kind = "PFS_R_DATA", !.id = x]
    BY <1>3 DEF DataRecords
  <2> HIDE DEF x, d
  <2>2. d.SubID = m.SubID /\ d.server = m.server /\ d.id = x /\ d.kind \notin Heads
    BY <1>3, <2>1 DEF DataRecords, Heads
  <2>3. QED
    BY <2>2 DEF x
<1>6. d.id \div RidOffset = m.id \div RidOffset
  <2>1. m.id \in Nat /\ m.id % RidOffset = 0
    BY <1>3, PacketTypes DEF Packets, AtHead
  <2>2. (MaxWindowSize - 1) \div PacketSizeLimit \in Nat /\ RidOffset \in Nat
    BY PVFS2ClientAssumption, MaxWindowSizeAssumption, Division
  <2>3. 1 \in 0 .. RidOffset - 1
    BY <2>2 DEF RoomForIds
  <2>4. (m.id + 1) \div RidOffset = m.id \div RidOffset
    BY <2>1, <2>3, FollowersGroup
  <2>5. QED
    BY <1>5, <2>4
<1> HIDE DEF n, d
<1>7. PICK before \in {{}, {d}} : net' = (net \ {m}) \cup before \cup {n}
  BY <1>1
<1> DEFINE P == before \cup {n}
<1>8. /\ net' = (net \ {m}) \cup P
      /\ \A p \in P : /\ p.SubID = m.SubID /\ p.server = m.server
                      /\ p.id \div RidOffset = m.id \div RidOffset
                      /\ p.kind \in Heads => AtHead(p)
  BY <1>4, <1>5, <1>6, <1>7
<1> HIDE DEF P
<1>9. Grouped(net')
  BY <1>2, <1>8, ReplacedGrouped DEF IdsInv
<1>10. QED
  BY <1>1, <1>9, OnlyPackets

\* A data server writes.
LEMMA ServeWriteDataGrouped ==
  ASSUME ClientInv, IdsInv, NEW m \in net, ServeWriteData(m), config' = config
  PROVE  IdsInv'
<1> DEFINE n == [m EXCEPT !.kind = "PFS_W_FIN"]
           P == IF m.kind = "PFS_W_DATA" THEN {} ELSE {n}
<1>1. /\ m.kind \in {"PFS_W_DATA", "PFS_W_DATA_LAST"} /\ UNCHANGED client
      /\ net' = (net \ {m}) \cup P
  BY DEF ServeWriteData
<1>2. m.kind \in DataKinds
  BY <1>1 DEF DataKinds, Turns
<1>3. m \in DataRecords
  BY <1>2, DataPacketFacts
<1>4. n.SubID = m.SubID /\ n.server = m.server /\ n.id = m.id /\ n.kind \notin Heads
  BY <1>3 DEF DataRecords, Heads
<1> HIDE DEF n
<1>5. \A p \in P : /\ p.SubID = m.SubID /\ p.server = m.server
                   /\ p.id \div RidOffset = m.id \div RidOffset
                   /\ p.kind \in Heads => AtHead(p)
  BY <1>4
<1> HIDE DEF P
<1>6. Grouped(net')
  BY <1>1, <1>2, <1>5, ReplacedGrouped DEF IdsInv
<1>7. QED
  BY <1>1, <1>6, OnlyPackets

\* The data of a write is cut into fragments: there is room for their identifiers.
LEMMA WriteResponseGrouped ==
  ASSUME RoomForIds, ClientInv, IdsInv, NEW m \in net, HandleWriteResponse(m), config' = config
  PROVE  IdsInv'
<1> DEFINE P == Fragments(m)
           z == LastFragment(m)
<1>1. m.kind = "PFS_W_RESP" /\ net' = (net \ {m}) \cup P /\ UNCHANGED client
  BY DEF HandleWriteResponse, Fragments, Fragment, LastFragment
<1>2. m.kind \in DataKinds /\ m.kind \in Heads
  BY <1>1 DEF DataKinds, Turns, Heads
<1>3. m \in DataRecords /\ AtHead(m)
  BY <1>2, DataPacketFacts DEF IdsInv, Grouped
<1>4. m.id \in Nat /\ m.size \in Nat \ {0} /\ m.id % RidOffset = 0 /\ m.size <= MaxWindowSize
  BY <1>3, PacketTypes DEF Packets, AtHead
<1>5. z \in Nat /\ z + 1 < RidOffset /\ RidOffset \in Nat
  <2> DEFINE M == (MaxWindowSize - 1) \div PacketSizeLimit
  <2>1. /\ m.size - 1 \in Nat /\ MaxWindowSize - 1 \in Nat /\ m.size - 1 <= MaxWindowSize - 1
        /\ PacketSizeLimit \in Nat \ {0} /\ RidOffset \in Nat
    BY <1>4, MaxWindowSizeAssumption, PVFS2ClientAssumption
  <2>2. z <= M /\ z \in Nat /\ M \in Nat
    BY <2>1, QuotientGrows, Division DEF LastFragment
  <2>3. M + 1 < RidOffset
    BY DEF RoomForIds
  <2> HIDE DEF M, z
  <2>4. QED
    BY <2>1, <2>2, <2>3
<1>6. ASSUME NEW k \in 0 .. z
      PROVE  /\ Fragment(m, k).SubID = m.SubID /\ Fragment(m, k).server = m.server
             /\ Fragment(m, k).id \div RidOffset = m.id \div RidOffset
             /\ Fragment(m, k).kind \notin Heads
  <2>1. /\ Fragment(m, k).kind \in {"PFS_W_DATA", "PFS_W_DATA_LAST"}
        /\ Fragment(m, k).id = m.id + 1 + k
        /\ Fragment(m, k).SubID = m.SubID /\ Fragment(m, k).server = m.server
    BY <1>3, FragmentFacts
  <2> HIDE DEF z
  <2>2. 1 + k \in 0 .. RidOffset - 1 /\ m.id + 1 + k = m.id + (1 + k)
    BY <1>4, <1>5
  <2>3. (m.id + (1 + k)) \div RidOffset = m.id \div RidOffset
    BY <1>4, <2>2, FollowersGroup
  <2>4. QED
    BY <2>1, <2>2, <2>3 DEF Heads
<1>7. \A p \in P : /\ p.SubID = m.SubID /\ p.server = m.server
                   /\ p.id \div RidOffset = m.id \div RidOffset
                   /\ p.kind \in Heads => AtHead(p)
  BY <1>6 DEF Fragments
<1> HIDE DEF P
<1>8. Grouped(net')
  BY <1>1, <1>2, <1>7, ReplacedGrouped DEF IdsInv
<1>9. QED
  BY <1>1, <1>8, OnlyPackets

\* Packets of the metadata server are of no exchange.
LEMMA LayoutsUngrouped ==
  ASSUME NEW m, m.kind \in LayoutKinds, NEW n
  PROVE  ~SameGroup(m, n) /\ ~SameGroup(n, m) /\ m.kind \notin Heads
BY DEF SameGroup, DataKinds, Turns, LayoutKinds, Heads

\* The metadata server answers.
LEMMA LayoutRequestGrouped ==
  ASSUME ClientInv, IdsInv, NEW m \in net, HandleMetadataPacket(m), config' = config
  PROVE  IdsInv'
<1> DEFINE n == [m EXCEPT !.kind = "LAYOUT_RESP"]
<1>1. m.kind = "LAYOUT_REQ" /\ net' = (net \ {m}) \cup {n} /\ UNCHANGED client
  BY DEF HandleMetadataPacket
<1>2. m \in LayoutPackets
  <2>1. net \subseteq Packets /\ m.kind \in LayoutKinds
    BY <1>1 DEF ClientInv, Matched, Lists, LayoutKinds
  <2>2. QED
    BY <2>1, PacketTypes
<1>3. n.kind \in LayoutKinds
  BY <1>2 DEF LayoutPackets, LayoutKinds
<1> HIDE DEF n
<1>4. Grouped(net')
  BY <1>1, <1>3, LayoutsUngrouped DEF IdsInv, Grouped
<1>5. QED
  BY <1>1, <1>4, OnlyPackets

\* A step of generateDataPacketRequests on windows and packets that are as they should be.
LEMMA GenerateIds ==
  ASSUME NEW us, NEW pk, NEW f \in Files, RoomForIds, ClientInv, IdsInv,
         GenerateDataPacketRequests(us, f, pk), Matched(us, pk), Windows(us), Grouped(pk),
         config' = config, config.flows = 1 => \A r, s \in Open' : r = s
  PROVE  IdsInv'
<1>1. requestID \in Nat /\ requestID \in Ids
  BY DEF ClientInv, ClientTypes, IdsInv
<1>2. requestID' \in Ids /\ Windows(traces') /\ Grouped(net')
  BY <1>1, GenerateGrouped
<1>3. QED
  BY <1>2 DEF IdsInv, Ids, NumIds

\* The layout of a file arrives: the windows that open are sent at once, or not.
LEMMA LayoutResponseGrouped ==
  ASSUME RoomForIds, ClientInv, IdsInv, NEW m \in net, HandleMetadataPacketResponse(m),
         config' = config
  PROVE  IdsInv'
<1> DEFINE f == m.fileId
           us == WithLayout(traces, f)
<1>1. f = m.fileId /\ us = WithLayout(traces, f)
  OBVIOUS
<1> HIDE DEF f, us
<1>2. LaidOut(m, f, us)
  BY <1>1, LayoutResponseFacts
<1>3. /\ GenerateDataPacketRequests(us, f, net \ {m}) /\ f \in Files
      /\ Matched(us, net \ {m}) /\ pfsFiles[f] # "set"
      /\ issued' = issued /\ answers' = answers /\ DOMAIN us = DOMAIN traces
      /\ \A k \in DOMAIN traces :
           us[k] = IF traces[k].pfsFileID = f THEN SetLayout(traces[k]) ELSE traces[k]
  BY <1>2 DEF LaidOut
<1>4. Windows(us)
  <2> SUFFICES ASSUME NEW k \in DOMAIN traces PROVE Windowed(us[k])
    BY <1>3 DEF Windows
  <2>1. CASE traces[k].pfsFileID = f
    <3>1. traces \in Seq(TraceSet)
      BY DEF ClientInv, Matched, Lists
    <3>2. traces[k] \in TracesOn(f)
      BY <2>1, <3>1, TraceOf
    <3>3. traces[k].unProcessedSize # 0
      BY <1>3, <2>1 DEF ClientInv, Laid
    <3>4. Windowed(SetLayout(traces[k]))
      BY <1>3, <3>2, <3>3, LayoutWindowed
    <3>5. QED
      BY <1>3, <2>1, <3>4
  <2>2. CASE traces[k].pfsFileID # f
    BY <1>3, <2>2 DEF IdsInv, Windows
  <2>3. QED
    BY <2>1, <2>2
<1>5. Grouped(net \ {m})
  BY DEF IdsInv, Grouped
<1>6. config.flows = 1 => \A r, s \in Open' : r = s
  <2>1. Open' = Open
    BY <1>3 DEF Open
  <2>2. QED
    BY <2>1 DEF IdsInv
<1> DEFINE pk == net \ {m}
<1>7. GenerateDataPacketRequests(us, f, pk) /\ Matched(us, pk) /\ Grouped(pk)
  BY <1>3, <1>5
<1> HIDE DEF pk
<1>8. QED
  BY <1>3, <1>4, <1>6, <1>7, GenerateIds

\* When one request is open at a time, a new one is the only one.
LEMMA OnlyOpen ==
  ASSUME ClientInv, NEW f \in config.files, NEW o \in config.offsets,
         NEW s \in config.lengths, NEW read \in BOOLEAN, HandleNewTrace(f, o, s, read),
         config' = config, config.flows = 1
  PROVE  \A x, y \in Open' : x = y
<1>1. ClientTypes
  BY DEF ClientInv
<1>2. Open' = Open \cup {Len(issued) + 1}
  BY <1>1, IssueFacts DEF Issues
<1>3. IsFiniteSet(Open) /\ Cardinality(Open) \in Nat
  BY FS_CardinalityType DEF ClientInv, Queued
<1>4. Cardinality(Open) < 1
  BY DEF HandleNewTrace
<1>5. Cardinality(Open) = 0
  BY <1>3, <1>4
<1>6. Open = {}
  BY <1>3, <1>5, FS_EmptySet
<1>7. QED
  BY <1>2, <1>6

\* The application issues a request.
LEMMA NewTraceGrouped ==
  ASSUME RoomForIds, ClientInv, IdsInv, NEW f \in config.files, NEW o \in config.offsets,
         NEW s \in config.lengths, NEW read \in BOOLEAN, HandleNewTrace(f, o, s, read),
         config' = config
  PROVE  IdsInv'
<1> DEFINE r == Len(issued) + 1
           t == NewTrace(r, f, o, s, read)
<1>1. Issues(f, o, s)
  BY IssueFacts DEF ClientInv
<1>2. /\ r \in Requests /\ f \in Files /\ o \in Nat /\ s \in Nat \ {0}
      /\ r \in Nat /\ config \in Configurations
  <2>1. r \in Requests /\ f \in Files /\ o \in Nat /\ s \in Nat \ {0}
    BY <1>1 DEF Issues
  <2>2. config \in Configurations
    BY DEF ClientInv, ClientTypes
  <2>3. QED
    BY <2>1, <2>2, ConfigFacts
<1>3. Fresh(t, r, f, o, s)
  <2>1. s \in Nat
    BY <1>2
  <2> HIDE DEF r
  <2>2. QED
    BY <1>2, <2>1, NewTraceFacts
<1>4. config.flows = 1 => \A x, y \in Open' : x = y
  BY OnlyOpen
<1>5. CASE pfsFiles[f] # "set"
  <2>1. /\ traces' = Append(traces, t) /\ requestID' = requestID
        /\ \/ net' = net \cup {[kind |-> "LAYOUT_REQ", fileId |-> f]}
           \/ net' = net
    <3>1. pfsFiles[f] = "unknown" \/ pfsFiles[f] = "queried"
      BY <1>2, <1>5 DEF ClientInv, ClientTypes, Known
    <3> HIDE DEF t
    <3>2. QED
      BY <3>1 DEF HandleNewTrace, t
  <2>2. Grouped(net')
    <3> DEFINE x == [kind |-> "LAYOUT_REQ", fileId |-> f]
    <3>1. x.kind \in LayoutKinds
      BY DEF LayoutKinds
    <3>2. net' = net \cup {x} \/ net' = net
      BY <2>1
    <3> HIDE DEF x
    <3>3. QED
      BY <3>1, <3>2, LayoutsUngrouped DEF IdsInv, Grouped
  <2>3. Windows(traces')
    <3>1. Windowed(t)
      BY <1>2, <1>3, FreshWindowed
    <3>2. traces \in Seq(TraceSet) /\ t \in TraceSet
      BY <1>2, <1>3 DEF ClientInv, Matched, Lists, Fresh, TraceSet
    <3> HIDE DEF t
    <3>3. QED
      BY <2>1, <3>1, <3>2 DEF IdsInv, Windows
  <2>4. QED
    BY <1>4, <2>1, <2>2, <2>3 DEF IdsInv, Ids, NumIds
<1>6. CASE pfsFiles[f] = "set"
  <2> DEFINE w == SetLayout(t)
             us == Append(traces, w)
  <2>1. Joins(f, t, us)
    BY <1>6, NewTraceSet
  <2>2. Windowed(w)
    <3>1. t \in TracesOn(f) /\ t.unProcessedSize # 0
      BY <1>2, <1>3 DEF Fresh
    <3> HIDE DEF t
    <3>2. QED
      BY <1>2, <3>1, LayoutWindowed
  <2> HIDE DEF t, w, us
  <2>3. /\ GenerateDataPacketRequests(us, f, net) /\ Matched(us, net)
        /\ \A j \in DOMAIN us : (j \in DOMAIN traces /\ us[j] = traces[j]) \/ us[j] = w
    BY <2>1 DEF Joins, w
  <2>4. Windows(us)
    BY <2>2, <2>3 DEF IdsInv, Windows
  <2>5. Grouped(net)
    BY DEF IdsInv
  <2>6. QED
    BY <1>2, <1>4, <2>3, <2>4, <2>5, GenerateIds
<1>7. QED
  BY <1>5, <1>6

\* The last packet of an exchange arrives: a slot is marked, and the next window opens when
\* all are.
LEMMA LastDataGrouped ==
  ASSUME RoomForIds, ClientInv, IdsInv, NEW m \in net, HandleLastDataPacket(m),
         config' = config
  PROVE  IdsInv'
<1>1. /\ m.SubID \in Open
      /\ pfsFiles' = pfsFiles /\ issued' = issued
  BY LastFacts
<1>2. PICK k \in DOMAIN traces : \E t \in {Received(traces[k], m.server)} :
              /\ traces[k].ID = m.SubID
              /\ \/ /\ Status(t) = "NEED_WAIT"
                    /\ traces' = [traces EXCEPT ![k] = t]
                    /\ net' = net \ {m}
                    /\ appRequestQ' = appRequestQ /\ requestID' = requestID
                    /\ aborted' = aborted /\ answers' = answers
                 \/ /\ Status(t) = "ALL_DONE"
                    /\ traces' = RemoveAt(traces, k)
                    /\ appRequestQ' = Popped(appRequestQ, m.SubID)
                    /\ answers' = [answers EXCEPT ![m.SubID] = @ + 1]
                    /\ net' = net \ {m} /\ requestID' = requestID /\ aborted' = aborted
                 \/ /\ Status(t) = "MORE_TO_SEND"
                    /\ GenerateDataPacketRequests([traces EXCEPT ![k] = t], m.fileId,
                                                  net \ {m})
                    /\ appRequestQ' = appRequestQ /\ answers' = answers
  BY LastFacts, Zenon
<1> DEFINE t == Received(traces[k], m.server)
           us == [traces EXCEPT ![k] = t]
           f == m.fileId
           P == net \ {m}
           r == m.SubID
<1>3. /\ traces[k].ID = m.SubID /\ t = Received(traces[k], m.server) /\ f = m.fileId
      /\ us = [traces EXCEPT ![k] = t] /\ us = WithAnswer(traces, k, m.server)
      /\ traces \in Seq(TraceSet)
  BY <1>2 DEF ClientInv, Matched, Lists, WithAnswer
<1> HIDE DEF t, us, f
<1>4. Answers(m, f, k, t, us)
  BY <1>3, AnswerFacts
<1>5. /\ f \in Files /\ m.server \in Servers(f) /\ traces[k] \in TracesOn(f)
      /\ traces[k].dataSizeInWindow[m.server] = SW_SENT
      /\ t \in TracesOn(f) /\ t \in TraceSet
      /\ DOMAIN us = DOMAIN traces /\ us[k] = t
      /\ \A j \in DOMAIN traces : j # k => us[j] = traces[j]
      /\ Matched(us, P)
  BY <1>4 DEF Answers
<1>6. Grouped(P)
  BY DEF IdsInv, Grouped
<1> HIDE DEF P, r
<1>7. Windowed(t)
  <2> DEFINE w == traces[k]
             i == m.server
  <2>1. /\ w \in TracesOn(f) /\ i \in Servers(f) /\ w.dataSizeInWindow[i] = SW_SENT
        /\ t = Received(w, i) /\ f \in Files /\ Windowed(w)
    BY <1>3, <1>5 DEF IdsInv, Windows
  <2> HIDE DEF w, i
  <2>2. QED
    BY <2>1, ReceivedWindowed
<1>8. Windows(us)
  BY <1>5, <1>7 DEF IdsInv, Windows
<1>9. ASSUME answers' = answers
      PROVE  config.flows = 1 => \A x, y \in Open' : x = y
  BY <1>1, <1>9 DEF Open, IdsInv
<1>10. CASE traces' = us /\ net' = P /\ answers' = answers /\ requestID' = requestID
  BY <1>6, <1>8, <1>9, <1>10 DEF IdsInv, Ids, NumIds
<1>11. CASE GenerateDataPacketRequests(us, f, P) /\ answers' = answers
  BY <1>5, <1>6, <1>8, <1>9, <1>11, GenerateIds
<1>12. CASE /\ Status(t) = "ALL_DONE" /\ traces' = RemoveAt(traces, k) /\ net' = P
            /\ answers' = [answers EXCEPT ![r] = @ + 1] /\ requestID' = requestID
  <2>1. \A j \in DOMAIN traces' : \E i \in DOMAIN us : traces'[j] = us[i]
    <3>1. traces' = RemoveAt(us, k)
      BY ZenonT(40), <1>3, <1>5, <1>12, RemoveChanged
    <3>2. \A i \in Servers(us[k].pfsFileID) : us[k].dataSizeInWindow[i] # SW_SENT
      <4>1. AwaitedFrom(t) = {}
        BY <1>12 DEF Status
      <4>2. QED
        BY <1>5, <4>1 DEF AwaitedFrom
    <3>3. QED
      BY <1>5, <3>1, <3>2, RemoveKeeps
  <2>2. Windows(traces')
    BY <1>8, <2>1 DEF Windows
  <2>3. Open' \subseteq Open
    <3>1. answers \in [Requests -> Nat]
      BY DEF ClientInv, ClientTypes
    <3>2. \A x \in DOMAIN issued : answers'[x] = 0 => answers[x] = 0
      <4>1. r \in DOMAIN issued /\ answers[r] = 0
        BY <1>1 DEF Open, r
      <4>2. \A x \in DOMAIN issued : x # r => answers'[x] = answers[x]
        BY <1>12, <3>1
      <4>3. QED
        BY <4>1, <4>2
    <3>3. QED
      BY <1>1, <3>2 DEF Open
  <2>4. QED
    BY <1>6, <1>12, <2>2, <2>3 DEF IdsInv, Ids, NumIds
<1>13. QED
  BY <1>2, <1>10, <1>11, <1>12 DEF t, us, f, P, r

\* At the start nothing is numbered.
LEMMA IdsInit ==
  ASSUME RoomForIds, Init
  PROVE  IdsInv
<1>1. /\ requestID = RidOffset /\ net = {} /\ traces = <<>> /\ DOMAIN issued = {}
  BY DEF Init
<1>2. requestID \in Ids
  <2> DEFINE x == CidOffset - RidOffset - 1
             q == x \div RidOffset
  <2>1. x \in Nat /\ RidOffset \in Nat \ {0} /\ RidOffset <= x
    BY PVFS2ClientAssumption
  <2> HIDE DEF x
  <2>2. RidOffset \div RidOffset <= q /\ q \in Nat
    BY <2>1, QuotientGrows, Division
  <2>3. RidOffset \div RidOffset = 1
    <3>1. 1 \in Nat /\ 0 \in 0 .. RidOffset - 1 /\ 1 * RidOffset + 0 = RidOffset
      BY <2>1
    <3>2. (1 * RidOffset + 0) \div RidOffset = 1
      BY <2>1, <3>1, DivisionUnique
    <3>3. QED
      BY <3>1, <3>2
  <2>4. 1 \in 1 .. NumIds /\ 1 * RidOffset = RidOffset
    BY <2>1, <2>2, <2>3 DEF NumIds, x
  <2>5. QED
    BY <1>1, <2>4 DEF Ids
<1>3. Windows(traces) /\ Grouped(net) /\ Open = {}
  BY <1>1 DEF Windows, Grouped, Open
<1>4. QED
  BY <1>2, <1>3 DEF IdsInv

\* Every step keeps it.
LEMMA IdsStepKeeps ==
  ASSUME RoomForIds, ClientInv, IdsInv, [Next]_vars
  PROVE  IdsInv'
<1>1. CASE UNCHANGED vars
  <2>1. UNCHANGED client /\ config' = config /\ net' = net
    BY <1>1 DEF vars, client
  <2>2. Grouped(net')
    BY <2>1 DEF IdsInv
  <2>3. QED
    BY <2>1, <2>2, OnlyPackets
<1>2. CASE Next
  <2>1. config' = config
    BY <1>2 DEF Next
  <2>2. ASSUME NEW f \in config.files, NEW o \in config.offsets, NEW s \in config.lengths,
               NEW read \in BOOLEAN, HandleNewTrace(f, o, s, read)
        PROVE  IdsInv'
    BY <2>1, <2>2, NewTraceGrouped
  <2>3. CASE ClientStep
    <3>1. PICK m \in net : \/ HandleMetadataPacketResponse(m) \/ HandleWriteResponse(m)
                           \/ HandleReadData(m) \/ HandleLastDataPacket(m)
      BY <2>3 DEF ClientStep
    <3>2. QED
      BY <2>1, <3>1, LayoutResponseGrouped, WriteResponseGrouped, ReadDataGrouped,
         LastDataGrouped
  <2>4. CASE ServerStep
    <3>1. PICK m \in net : \/ HandleMetadataPacket(m) \/ ServeRead(m)
                           \/ ServeWriteRequest(m) \/ ServeWriteData(m)
      BY <2>4 DEF ServerStep
    <3>2. QED
      BY <2>1, <3>1, LayoutRequestGrouped, ServeReadGrouped, ServeWriteRequestGrouped,
         ServeWriteDataGrouped
  <2>5. QED
    BY <1>2, <2>2, <2>3, <2>4 DEF Next
<1>3. QED
  BY <1>1, <1>2

\* The invariant tells the exchanges of one request apart, and all of them when one request
\* is open at a time.
LEMMA IdsInvTells ==
  ASSUME ClientInv, IdsInv
  PROVE  IdsTellExchangesApart
<1>1. \A m \in DataPackets : m \in net /\ m.kind \in DataKinds
  <2>1. net \subseteq Packets
    BY DEF ClientInv, Matched, Lists
  <2>2. \A m \in net : m.kind \in DataKinds <=> m.kind \notin LayoutKinds
    BY <2>1, PacketTypes
  <2>3. QED
    BY <2>2 DEF DataPackets, LayoutKinds
<1>2. ASSUME NEW m \in DataPackets, NEW n \in DataPackets, m.SubID = n.SubID,
             m.id \div RidOffset = n.id \div RidOffset
      PROVE  m.server = n.server
  BY <1>1, <1>2 DEF IdsInv, Grouped, SameGroup
<1>3. ASSUME config.flows = 1, NEW m \in DataPackets, NEW n \in DataPackets
      PROVE  m.SubID = n.SubID
  <2>1. \A p \in DataPackets : p.SubID \in Open
    <3> SUFFICES ASSUME NEW p \in DataPackets PROVE p.SubID \in Open
      OBVIOUS
    <3>1. PICK k \in DOMAIN traces : AwaitedBy(traces[k], p)
      BY <1>1, DataPacketFacts
    <3>2. QED
      BY <3>1 DEF AwaitedBy, ClientInv, OpenTraces
  <2>2. QED
    BY <1>3, <2>1 DEF IdsInv
<1>4. QED
  BY <1>2, <1>3 DEF IdsTellExchangesApart

\* Two exchanges of one request never share an identifier rounded down to RID_OFFSET, with
\* any number of requests open, though the counter is restarted and the data packets of a
\* write count upwards from it (generateDataPacketRequests, processDataPacketResponse); and
\* no two exchanges do when one request is open at a time.  RID_OFFSET is to leave room for
\* the data packets, and the counter not to come round within a window.
THEOREM IdentifiersTellApart ==
  RoomForRequests /\ RoomForIds => (Spec => []IdsTellExchangesApart)
<1> SUFFICES ASSUME RoomForRequests, RoomForIds
             PROVE  Spec => []IdsTellExchangesApart
  OBVIOUS
<1>1. Init => IdsInv
  BY IdsInit
<1>2. ClientInv /\ IdsInv /\ [Next]_vars => IdsInv'
  BY IdsStepKeeps
<1>3. ClientInv /\ IdsInv => IdsTellExchangesApart
  BY IdsInvTells
<1>4. Spec => []ClientInv
  BY ClientInvariant
<1>5. QED
  BY <1>1, <1>2, <1>3, <1>4, PTL DEF Spec
=============================================================================
