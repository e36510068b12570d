-------------------------- MODULE EntryGateProofs --------------------------
(***************************************************************************)
(* Theorems about RiskRules and EntryGate.                                 *)
(***************************************************************************)
EXTENDS EntryGate, FiniteSetTheorems, TLAPS

---------------------------------------------------------------------------
(* The truncating division behind every cap.                               *)

\* The quotient of a truncating division lies between n and n + 1 units.
LEMMA QuotientBounds ==
    ASSUME NEW a \in Nat, NEW u \in Nat \ {0}
    PROVE  /\ a \div u \in Nat
           /\ (a \div u) * u <= a
           /\ a < (a \div u) * u + u
<1>1. a = u * (a \div u) + (a % u) /\ a % u \in 0 .. (u - 1) /\ a \div u \in Int
    BY SMT
<1>2. a \div u \in Nat
    BY SMT
<1> QED BY <1>1, <1>2, SMT

\* Products with a positive unit are ordered as their factors.
LEMMA ProductOrder ==
    ASSUME NEW m \in Int, NEW n \in Int, NEW u \in Nat
    PROVE  m <= n => m * u <= n * u
<1> SUFFICES ASSUME m <= n PROVE m * u <= n * u
    OBVIOUS
<1>1. (n - m) * u >= 0
    BY SMT
<1>2. (n - m) * u = n * u - m * u
    BY SMT
<1> QED BY <1>1, <1>2, SMT

\* Room is the largest number of units that still fit, for any number but 0.
LEMMA RoomIsLargest ==
    ASSUME NEW limit \in Int, NEW used \in Int, NEW u \in Nat \ {0}, NEW n \in Nat \ {0}
    PROVE  /\ Room(limit, used, u) \in Nat
           /\ n <= Room(limit, used, u) <=> used + n * u <= limit
<1>0. n * u \in Nat \ {0} /\ n * u >= u
    <2>1. (n - 1) * u >= 0 /\ (n - 1) * u = n * u - u
        BY SMT
    <2> QED BY <2>1, SMT
<1>1. CASE limit <= used
    BY <1>0, <1>1, SMT DEF Room
<1>2. CASE limit > used
    <2> DEFINE q == (limit - used) \div u
    <2>1. q \in Nat /\ q * u <= limit - used /\ limit - used < q * u + u
        BY <1>2, QuotientBounds
    <2>2. Room(limit, used, u) = q
        BY <1>2, SMT DEF Room
    <2> HIDE DEF q
    <2>3. n <= q => n * u <= q * u
        BY <2>1, ProductOrder
    <2>4. q + 1 <= n => (q + 1) * u <= n * u
        BY <2>1, ProductOrder
    <2>5. (q + 1) * u = q * u + u
        BY <2>1, SMT
    <2>6. q * u \in Int /\ n * u \in Int
        BY <2>1, SMT
    <2> QED BY <2>1, <2>2, <2>3, <2>4, <2>5, <2>6, SMT
<1> QED BY <1>1, <1>2, SMT

---------------------------------------------------------------------------
(* The rules and their caps, for a state and an order as check() sees them. *)

OrderOf(c, n) == [c EXCEPT !.quantity = n]

\* A state whose amounts, and a price, are told apart by the shares of rule 4.
Fits(s, price) == 100 * (s.total + price) < UNITS

\* The loss of a share at its stop is an amount, and none only at the entry.
LEMMA PerShareType ==
    ASSUME NEW price \in Prices, NEW stop \in Prices
    PROVE  /\ RiskPerShare(price, stop) \in Nat
           /\ price # stop => RiskPerShare(price, stop) \in Nat \ {0}
           /\ price = stop => RiskPerShare(price, stop) = 0
    BY SMT DEF RiskPerShare, Prices

\* The limits of rules 1 and 2 are amounts.
LEMMA LimitTypes ==
    ASSUME NEW s \in StateType
    PROVE  RiskLimit(s) \in Nat /\ PositionLimit(s) \in Nat
<1>1. s.total \in Nat
    BY DEF StateType
<1> QED BY <1>1, SettingsAssumption, SMT
        DEF RiskLimit, PositionLimit, Least

\* Rules 1 and 2 hold up to their caps and no further: the truncating divisions
\* lose no share and let none too many through.
THEOREM CapsAreExact ==
    ASSUME NEW s \in StateType, NEW c \in CandidateType, NEW n \in Nat \ {0}, n <= c.quantity
    PROVE  /\ RiskCap(s, c) \in Nat /\ PositionCap(s, c) \in Nat
           /\ ~ RiskViolated(s, OrderOf(c, n)) <=> n <= RiskCap(s, c)
           /\ ~ PositionViolated(s, OrderOf(c, n)) <=> n <= PositionCap(s, c)
<1> DEFINE price == c.price
           stop == c.stop
           risk == RiskPerShare(price, stop)
           value == s.value[c.symbol]
<1>1. /\ c.quantity \in Nat /\ price \in Prices /\ stop \in Prices
      /\ value \in Nat
    BY DEF CandidateType, StateType
<1>2. /\ OrderOf(c, n).quantity = n /\ OrderOf(c, n).price = price
      /\ OrderOf(c, n).stop = stop /\ OrderOf(c, n).symbol = c.symbol
    BY DEF OrderOf, CandidateType
<1>3. /\ risk \in Nat
      /\ price # stop => risk \in Nat \ {0}
      /\ price = stop => risk = 0
    BY <1>1, PerShareType
<1>4. RiskLimit(s) \in Nat /\ PositionLimit(s) \in Nat
    BY LimitTypes
<1>5. RiskViolated(s, OrderOf(c, n)) <=> 100 * (n * risk) > RiskLimit(s)
    BY <1>2 DEF RiskViolated
<1>6. RiskCap(s, c) \in Nat /\ (~ RiskViolated(s, OrderOf(c, n)) <=> n <= RiskCap(s, c))
    <2>1. CASE price = stop
        <3>1. RiskCap(s, c) = c.quantity /\ n * risk = 0
            BY <2>1, <1>3, SMT DEF RiskCap
        <3> QED BY <3>1, <1>1, <1>4, <1>5, SMT
    <2>2. CASE price # stop
        <3> DEFINE unit == 100 * risk
                   limit == RiskLimit(s)
        <3>1. unit \in Nat \ {0} /\ n * unit = 100 * (n * risk) /\ n * risk \in Nat
            <4> HIDE DEF risk
            <4> QED BY <2>2, <1>3, SMT
        <3>2. RiskCap(s, c) = Room(limit, 0, unit)
            BY <2>2 DEF RiskCap
        <3>3. limit \in Int
            BY <1>4, SMT
        <3> HIDE DEF risk, unit
        <3>4. limit = RiskLimit(s)
            OBVIOUS
        <3> HIDE DEF limit
        <3>5. /\ Room(limit, 0, unit) \in Nat
              /\ n <= Room(limit, 0, unit) <=> 0 + n * unit <= limit
            BY <3>1, <3>3, RoomIsLargest, 0 \in Int
        <3> QED BY <3>1, <3>5, <3>2, <3>3, <3>4, <1>5, SMT
    <2> QED BY <2>1, <2>2
<1>7. 100 * price \in Nat \ {0} /\ n * (100 * price) = 100 * (n * price) /\ n * price \in Nat
    BY <1>1, SMT DEF Prices
<1>8. PositionCap(s, c) \in Nat
      /\ (~ PositionViolated(s, OrderOf(c, n)) <=> n <= PositionCap(s, c))
    <2> DEFINE unit == 100 * price
               used == 100 * value
               limit == PositionLimit(s)
    <2>1. /\ PositionCap(s, c) = Room(limit, used, unit)
          /\ PositionViolated(s, OrderOf(c, n)) <=> 100 * (value + n * price) > limit
        BY <1>2 DEF PositionCap, PositionViolated
    <2>2. /\ unit \in Nat \ {0} /\ used \in Int /\ limit \in Int
          /\ 100 * (value + n * price) = used + n * unit
        <3> HIDE DEF value, price
        <3> QED BY <1>1, <1>4, <1>7, SMT
    <2> HIDE DEF unit, used, limit
    <2>3. /\ Room(limit, used, unit) \in Nat
          /\ n <= Room(limit, used, unit) <=> used + n * unit <= limit
        BY <2>2, RoomIsLargest
    <2>4. n * unit \in Int
        BY <2>2, SMT
    <2> HIDE DEF value, price
    <2> QED BY <2>1, <2>2, <2>3, <2>4, SMT
<1> QED BY <1>6, <1>8

---------------------------------------------------------------------------
(* Rule 4: what rounding the shares can and cannot do.                     *)

\* A rounded quotient is within half a unit of the exact one.
LEMMA RoundedBounds ==
    ASSUME NEW a \in Nat, NEW b \in Nat \ {0}
    PROVE  /\ Rounded(a, b) \in Nat
           /\ 2 * (Rounded(a, b) * b) <= 2 * a + b
           /\ 2 * a <= 2 * (Rounded(a, b) * b) + b
<1> DEFINE q == a \div b
           m == a % b
<1>1. a = b * q + m /\ m \in 0 .. (b - 1) /\ q \in Nat
    <2>1. a = b * (a \div b) + (a % b) /\ a % b \in 0 .. (b - 1)
        BY SMT
    <2> QED BY <2>1, QuotientBounds
<1>2. Rounded(a, b) = IF 2 * m > b \/ (2 * m = b /\ q % 2 = 1) THEN q + 1 ELSE q
    BY DEF Rounded
<1> HIDE DEF q, m
<1>3. (q + 1) * b = q * b + b /\ q * b = b * q /\ q * b \in Int
    BY <1>1, SMT
<1>4. CASE Rounded(a, b) = q + 1 /\ 2 * m >= b
    BY <1>1, <1>3, <1>4, SMT
<1>5. CASE Rounded(a, b) = q /\ 2 * m <= b
    BY <1>1, <1>3, <1>5, SMT
<1> QED
    <2>1. m \in Int /\ b \in Int
        BY <1>1, SMT
    <2>2. CASE 2 * m > b \/ (2 * m = b /\ q % 2 = 1)
        BY <1>2, <1>4, <2>1, <2>2, SMT
    <2>3. CASE ~ (2 * m > b \/ (2 * m = b /\ q % 2 = 1))
        <3>1. Rounded(a, b) = q /\ 2 * m <= b
            BY <1>2, <2>1, <2>3, SMT
        <3> QED BY <1>5, <3>1
    <2> QED BY <2>2, <2>3

\* Two rounded shares (A and B, of the amounts V and W) that fit into the limit
\* belong to amounts that fit: rounding hides no excess.
LEMMA SharesHideNoExcess ==
    ASSUME NEW T \in Nat \ {0}, NEW U \in Nat \ {0}, NEW V \in Nat, NEW W \in Nat,
           NEW P \in Nat, NEW A \in Nat, NEW B \in Nat,
           2 * (V * U) <= 2 * (A * T) + T, 2 * (W * U) <= 2 * (B * T) + T,
           100 * (A + B) <= P * U, 100 * T < U
    PROVE  100 * (V + W) <= P * T
<1> SUFFICES ASSUME P * T + 1 <= 100 * (V + W) PROVE FALSE
    <2>1. P * T \in Int /\ 100 * (V + W) \in Int
        BY SMT
    <2> QED BY <2>1, SMT
<1>1. (P * T + 1) * U <= (100 * (V + W)) * U
    <2>1. P * T + 1 \in Int /\ 100 * (V + W) \in Int
        BY SMT
    <2> QED BY <2>1, ProductOrder
<1>2. (100 * (A + B)) * T <= (P * U) * T
    <2>1. P * U \in Int /\ 100 * (A + B) \in Int
        BY SMT
    <2> QED BY <2>1, ProductOrder
<1>3. /\ (P * T + 1) * U = (P * U) * T + U
      /\ (100 * (V + W)) * U = 100 * (V * U) + 100 * (W * U)
      /\ (100 * (A + B)) * T = 100 * (A * T) + 100 * (B * T)
    BY SMT
<1>4. /\ (P * U) * T \in Int /\ V * U \in Int /\ W * U \in Int
      /\ A * T \in Int /\ B * T \in Int
    BY SMT
<1> DEFINE put == (P * U) * T
           vu == V * U
           wu == W * U
           at == A * T
           bt == B * T
<1>5. /\ put + U <= 100 * vu + 100 * wu
      /\ 100 * at + 100 * bt <= put
      /\ 2 * vu <= 2 * at + T /\ 2 * wu <= 2 * bt + T
    BY <1>1, <1>2, <1>3
<1>6. put \in Int /\ vu \in Int /\ wu \in Int /\ at \in Int /\ bt \in Int
    BY <1>4
<1> HIDE DEF put, vu, wu, at, bt
<1> QED BY <1>5, <1>6, SMT

\* What is left of the limit (`left`, as a rounded amount v and a rounded number
\* of shares Q) is enough for n - 1 shares if the rounded share B of n shares fits.
LEMMA LeftIsEnoughForLess ==
    ASSUME NEW T \in Nat \ {0}, NEW U \in Nat \ {0}, NEW p \in Nat \ {0}, NEW n \in Nat \ {0},
           NEW B \in Nat, NEW left \in Nat, NEW v \in Nat, NEW Q \in Nat,
           2 * ((n * p) * U) <= 2 * (B * T) + T, 100 * B <= left,
           2 * (left * T) <= 2 * (v * 100) + 100, 2 * v <= 2 * (Q * p) + p, T < U
    PROVE  n - 1 <= Q \div U
<1>1. Q \div U \in Nat /\ Q < (Q \div U) * U + U
    BY QuotientBounds
<1> DEFINE k == Q \div U
<1> SUFFICES ASSUME k + 1 <= n - 1 PROVE FALSE
    BY <1>1, SMT
<1> HIDE DEF k
<1>2. Q + 1 <= (n - 1) * U
    <2>1. (k + 1) * U <= (n - 1) * U
        <3>1. k + 1 \in Int /\ n - 1 \in Int
            BY <1>1, SMT DEF k
        <3> QED BY <3>1, ProductOrder
    <2>2. (k + 1) * U = k * U + U /\ k * U \in Int /\ (n - 1) * U \in Int
        BY <1>1, SMT DEF k
    <2>3. Q < k * U + U
        BY <1>1 DEF k
    <2> QED BY <2>1, <2>2, <2>3, SMT
<1>3. (Q + 1) * p <= ((n - 1) * U) * p
    <2>1. Q + 1 \in Int /\ (n - 1) * U \in Int
        BY SMT
    <2> QED BY <1>2, <2>1, ProductOrder
<1>4. (100 * B) * T <= left * T
    <2>1. 100 * B \in Int /\ left \in Int
        BY SMT
    <2> QED BY <2>1, ProductOrder
<1>5. /\ (Q + 1) * p = Q * p + p
      /\ (100 * B) * T = 100 * (B * T)
      /\ ((n - 1) * U) * p = (n * p) * U - U * p
    <2>1. (Q + 1) * p = Q * p + p
        BY SMT
    <2>2. (100 * B) * T = 100 * (B * T)
        BY SMT
    <2>3. ((n - 1) * U) * p = (n * p) * U - U * p
        BY SMT
    <2> QED BY <2>1, <2>2, <2>3
<1>6. U <= U * p /\ U * p \in Int
    <2>1. 1 * U <= p * U
        BY ProductOrder, 1 \in Int, SMT
    <2> QED BY <2>1, SMT
<1>7. /\ Q * p \in Int /\ B * T \in Int /\ left * T \in Int /\ (n * p) * U \in Int
    BY SMT
<1> DEFINE qp == Q * p
           bt == B * T
           lt == left * T
           wu == (n * p) * U
           up == U * p
<1>8. /\ qp + p <= wu - up
      /\ 100 * bt <= lt
      /\ 2 * wu <= 2 * bt + T
      /\ 2 * lt <= 2 * (v * 100) + 100
      /\ 2 * v <= 2 * qp + p
      /\ U <= up
    BY <1>3, <1>4, <1>5, <1>6
<1>9. qp \in Int /\ bt \in Int /\ lt \in Int /\ wu \in Int /\ up \in Int
    BY <1>6, <1>7
<1> HIDE DEF qp, bt, lt, wu, up
<1> QED BY <1>8, <1>9, SMT

\* As many shares as the cap allows fit exactly, whatever was rounded on the way.
LEMMA CapFitsExactly ==
    ASSUME NEW T \in Nat \ {0}, NEW U \in Nat \ {0}, NEW p \in Nat \ {0}, NEW n \in Nat \ {0},
           NEW V \in Nat, NEW P \in Nat, NEW A \in Nat, NEW v \in Nat, NEW Q \in Nat,
           2 * (V * U) <= 2 * (A * T) + T, n <= Q \div U,
           2 * (v * 100) <= 2 * ((P * U - 100 * A) * T) + 100,
           2 * (Q * p) <= 2 * v + p, 100 * (T + p) < U
    PROVE  100 * (V + n * p) <= P * T
<1> SUFFICES ASSUME P * T + 1 <= 100 * (V + n * p) PROVE FALSE
    <2>1. P * T \in Int /\ n * p \in Int
        BY SMT
    <2> QED BY <2>1, SMT
<1>1. Q \div U \in Nat /\ (Q \div U) * U <= Q
    BY QuotientBounds
<1>2. n * U <= Q
    <2>1. n * U <= (Q \div U) * U
        <3>1. n \in Int /\ Q \div U \in Int
            BY <1>1, SMT
        <3> QED BY <3>1, ProductOrder
    <2> DEFINE k == Q \div U
    <2>2. k * U \in Int /\ n * U \in Int /\ k \in Nat
        BY <1>1, SMT
    <2>3. n * U <= k * U /\ k * U <= Q
        BY <1>1, <2>1
    <2> HIDE DEF k
    <2> QED BY <2>2, <2>3, SMT
<1>3. (n * U) * p <= Q * p
    <2>1. n * U \in Int /\ Q \in Int
        BY SMT
    <2> QED BY <1>2, <2>1, ProductOrder
<1>4. (P * T + 1) * U <= (100 * (V + n * p)) * U
    <2>1. P * T + 1 \in Int /\ 100 * (V + n * p) \in Int
        BY SMT
    <2> QED BY <2>1, ProductOrder
<1>5. /\ (n * U) * p = (n * p) * U
      /\ (P * T + 1) * U = (P * U) * T + U
      /\ (100 * (V + n * p)) * U = 100 * (V * U) + 100 * ((n * p) * U)
      /\ (P * U - 100 * A) * T = (P * U) * T - 100 * (A * T)
    <2>1. (n * U) * p = (n * p) * U
        BY SMT
    <2>2. (P * T + 1) * U = (P * U) * T + U
        BY SMT
    <2>3. (100 * (V + n * p)) * U = 100 * (V * U) + 100 * ((n * p) * U)
        <3>1. n * p \in Int
            BY SMT
        <3> DEFINE w == n * p
        <3> HIDE DEF w
        <3>2. w \in Int => (100 * (V + w)) * U = 100 * (V * U) + 100 * (w * U)
            BY SMT
        <3> QED BY <3>1, <3>2 DEF w
    <2>4. (P * U - 100 * A) * T = (P * U) * T - 100 * (A * T)
        <3>1. P * U \in Int
            BY SMT
        <3> DEFINE w == P * U
        <3> HIDE DEF w
        <3>2. w \in Int => (w - 100 * A) * T = w * T - 100 * (A * T)
            BY SMT
        <3> QED BY <3>1, <3>2 DEF w
    <2> QED BY <2>1, <2>2, <2>3, <2>4
<1>6. /\ (P * U) * T \in Int /\ V * U \in Int /\ (n * p) * U \in Int
      /\ A * T \in Int /\ Q * p \in Int
    BY SMT
<1> DEFINE put == (P * U) * T
           vu == V * U
           wu == (n * p) * U
           at == A * T
           qp == Q * p
<1>7. /\ wu <= qp
      /\ put + U <= 100 * vu + 100 * wu
      /\ 2 * vu <= 2 * at + T
      /\ 2 * (v * 100) <= 2 * (put - 100 * at) + 100
      /\ 2 * qp <= 2 * v + p
    BY <1>3, <1>4, <1>5
<1>8. put \in Int /\ vu \in Int /\ wu \in Int /\ at \in Int /\ qp \in Int
    BY <1>6
<1> HIDE DEF put, vu, wu, at, qp
<1> QED BY <1>7, <1>8, SMT

\* Rule 4 of a state and an order: the cap is a number; n shares whose rounded
\* share fits, or that the cap allows, fit exactly; the first are at most one more
\* than the cap.
LEMMA SectorRule ==
    ASSUME NEW s \in StateType, NEW c \in CandidateType, s.total > 0, Fits(s, c.price),
           NEW n \in Nat \ {0}
    PROVE  LET amount == s.sector[SectorOf[c.symbol]] + n * c.price
           IN  /\ SectorCap(s, c) \in Nat
               /\ n <= SectorCap(s, c) => 100 * amount <= SECTOR_CONCENTRATION_PCT * s.total
               /\ ~ SectorViolated(s, OrderOf(c, n)) =>
                    /\ 100 * amount <= SECTOR_CONCENTRATION_PCT * s.total
                    /\ n - 1 <= SectorCap(s, c)
<1> DEFINE T == s.total
           U == UNITS
           P == SECTOR_CONCENTRATION_PCT
           p == c.price
           V == s.sector[SectorOf[c.symbol]]
           A == Rounded(V * U, T)
           B == Rounded((n * p) * U, T)
           left == P * U - 100 * A
           v == Rounded(left * T, 100)
           Q == Rounded(v, p)
           cap == SectorCap(s, c)
           bad == SectorViolated(s, OrderOf(c, n))
<1>1. /\ T \in Nat \ {0} /\ U \in Nat \ {0} /\ P \in Nat /\ p \in Nat \ {0} /\ V \in Nat
      /\ 100 * (T + p) < U
    <2>1. T \in Nat /\ V \in Nat /\ p \in Nat \ {0}
        BY SettingsAssumption DEF StateType, CandidateType, Prices
    <2> QED BY <2>1, SettingsAssumption, SMT DEF Fits
<1>2. CurrentShare(s, c) = A /\ (bad <=> 100 * (A + B) > P * U)
    <2>1. /\ OrderOf(c, n).quantity = n /\ OrderOf(c, n).price = p
          /\ OrderOf(c, n).symbol = c.symbol
        BY DEF OrderOf, CandidateType
    <2> QED BY <2>1 DEF SectorViolated, NewShare, CurrentShare, Share
<1>3. cap = IF left <= 0 THEN 0 ELSE Q \div U
    BY <1>2 DEF SectorCap
<1> HIDE DEF T, U, P, p, V, cap, bad
<1>4. V * U \in Nat /\ n * p \in Nat /\ (n * p) * U \in Nat /\ P * U \in Nat
    <2>1. n * p \in Nat
        BY <1>1, SMT
    <2> DEFINE w == n * p
    <2> HIDE DEF w
    <2>2. w \in Nat => w * U \in Nat
        BY <1>1, SMT
    <2>3. V * U \in Nat /\ P * U \in Nat
        BY <1>1, SMT
    <2> QED BY <2>1, <2>2, <2>3 DEF w
<1>5. /\ A \in Nat /\ 2 * (V * U) <= 2 * (A * T) + T
      /\ B \in Nat /\ 2 * ((n * p) * U) <= 2 * (B * T) + T
    <2>1. T \in Nat \ {0}
        BY <1>1
    <2> QED BY <1>4, <2>1, RoundedBounds
<1> HIDE DEF A, B
<1>6. left \in Int
    BY <1>4, <1>5, SMT
<1>7. ASSUME left > 0
      PROVE  /\ left \in Nat /\ v \in Nat /\ Q \in Nat
             /\ 2 * (left * T) <= 2 * (v * 100) + 100
             /\ 2 * (v * 100) <= 2 * (left * T) + 100
             /\ 2 * v <= 2 * (Q * p) + p
             /\ 2 * (Q * p) <= 2 * v + p
    <2>1. left \in Nat
        BY <1>6, <1>7, SMT
    <2> HIDE DEF left
    <2>2. left * T \in Nat /\ 100 \in Nat \ {0}
        BY <1>1, <2>1, SMT
    <2>3. /\ v \in Nat /\ 2 * (left * T) <= 2 * (v * 100) + 100
          /\ 2 * (v * 100) <= 2 * (left * T) + 100
        BY <2>2, RoundedBounds
    <2> HIDE DEF v
    <2>4. Q \in Nat /\ 2 * v <= 2 * (Q * p) + p /\ 2 * (Q * p) <= 2 * v + p
        BY <1>1, <2>3, RoundedBounds
    <2> QED BY <2>1, <2>3, <2>4
<1>8. cap \in Nat
    <2>1. CASE left <= 0
        BY <1>3, <2>1, SMT
    <2>2. CASE ~ (left <= 0)
        <3>1. Q \in Nat
            BY <1>6, <1>7, <2>2, SMT
        <3> HIDE DEF Q
        <3>2. Q \div U \in Nat
            BY <1>1, <3>1, QuotientBounds
        <3> QED BY <1>3, <2>2, <3>2
    <2> QED BY <2>1, <2>2
<1>9. ASSUME n <= cap
      PROVE  100 * (V + n * p) <= P * T
    <2>1. ~ (left <= 0)
        BY <1>3, <1>9, SMT
    <2>2. left > 0
        BY <1>6, <2>1, SMT
    <2>3. n <= Q \div U
        BY <1>3, <1>9, <2>1
    <2>4. 2 * (v * 100) <= 2 * ((P * U - 100 * A) * T) + 100
        BY <1>7, <2>2
    <2> QED
        <3>1. v \in Nat /\ Q \in Nat /\ 2 * (Q * p) <= 2 * v + p
            BY <1>7, <2>2
        <3> HIDE DEF v, Q, left
        <3> QED BY <1>1, <1>5, <2>3, <2>4, <3>1, CapFitsExactly
<1>10. ASSUME ~ bad
       PROVE  100 * (V + n * p) <= P * T /\ n - 1 <= cap
    <2>1. 100 * (A + B) <= P * U
        BY <1>2, <1>4, <1>5, <1>10, SMT
    <2>2. 100 * T < U /\ T < U
        BY <1>1, SMT
    <2>3. 100 * (V + n * p) <= P * T
        BY <1>1, <1>4, <1>5, <2>1, <2>2, SharesHideNoExcess
    <2>4. 100 * B <= left
        BY <1>4, <1>5, <2>1, SMT
    <2>5. CASE left <= 0
        <3>1. B = 0 /\ cap = 0
            BY <1>3, <1>5, <1>6, <2>4, <2>5, SMT
        <3>2. B * T = 0
            BY <1>1, <3>1, SMT
        <3>3. U <= (n * p) * U
            <4>1. 1 <= n * p
                BY <1>1, SMT
            <4>2. 1 * U <= (n * p) * U
                BY <1>1, <1>4, <4>1, ProductOrder, 1 \in Int
            <4> QED BY <1>1, <4>2, SMT
        <3> QED BY <1>1, <1>4, <1>5, <2>2, <3>2, <3>3, SMT
    <2>6. CASE ~ (left <= 0)
        <3>1. left > 0
            BY <1>6, <2>6, SMT
        <3>2. /\ left \in Nat /\ v \in Nat /\ Q \in Nat
              /\ 2 * (left * T) <= 2 * (v * 100) + 100
              /\ 2 * v <= 2 * (Q * p) + p
            BY <1>7, <3>1
        <3>3. cap = Q \div U
            BY <1>3, <2>6
        <3> HIDE DEF v, Q, left
        <3>4. n - 1 <= Q \div U
            BY <1>1, <1>5, <2>2, <2>4, <3>2, LeftIsEnoughForLess
        <3> QED BY <2>3, <3>3, <3>4
    <2> QED BY <2>5, <2>6
<1> QED BY <1>8, <1>9, <1>10 DEF V, p, P, T, cap, bad

\* An order within rules 1 and 2, in a sector with room for it, keeps the amounts.
LEMMA RulesKeepAmounts ==
    ASSUME NEW s \in StateType, NEW c \in CandidateType,
           ~ RiskViolated(s, c), ~ PositionViolated(s, c),
           100 * (s.sector[SectorOf[c.symbol]] + c.quantity * c.price)
             <= SECTOR_CONCENTRATION_PCT * s.total
    PROVE  KeepsAmounts(s, c)
<1>1. RiskLimit(s) \in Nat /\ PositionLimit(s) \in Nat
    BY LimitTypes
<1>2. /\ c.price \in Nat /\ c.quantity \in Nat /\ RiskPerShare(c.price, c.stop) \in Nat
      /\ s.value[c.symbol] \in Nat /\ s.total \in Nat
    BY PerShareType DEF CandidateType, StateType, Prices
<1>3. c.quantity * c.price \in Nat /\ c.quantity * RiskPerShare(c.price, c.stop) \in Nat
    BY <1>2, SMT
<1>4. 100 * (c.quantity * RiskPerShare(c.price, c.stop)) <= RISK_PER_TRADE_PCT * s.total
    <2>1. ~ (100 * (c.quantity * RiskPerShare(c.price, c.stop))
               > s.total * RISK_PER_TRADE_PCT)
        BY DEF RiskViolated, RiskLimit
    <2> QED BY <2>1, <1>2, <1>3, SettingsAssumption, SMT
<1>5. /\ 100 * (s.value[c.symbol] + c.quantity * c.price) <= MAX_POSITION_PCT * s.total
      /\ s.value[c.symbol] + c.quantity * c.price <= MAX_POSITION_SIZE_KRW
    <2> DEFINE w == s.value[c.symbol] + c.quantity * c.price
               pct == s.total * MAX_POSITION_PCT
    <2>1. ~ (100 * w > Least(pct, 100 * MAX_POSITION_SIZE_KRW))
        BY DEF PositionViolated, PositionLimit
    <2>2. w \in Nat /\ pct \in Nat /\ MAX_POSITION_SIZE_KRW \in Nat
          /\ pct = MAX_POSITION_PCT * s.total
        BY <1>2, <1>3, SettingsAssumption, SMT
    <2> HIDE DEF w, pct
    <2>3. 100 * w <= pct /\ w <= MAX_POSITION_SIZE_KRW
        BY <2>1, <2>2, SMT DEF Least
    <2> QED BY <2>2, <2>3 DEF w
<1> QED BY <1>4, <1>5 DEF KeepsAmounts

\* AlgoRiskManager.check adjusts to within one share of the greatest quantity that
\* passes: of the quantities up to the requested one, those up to the adjusted keep
\* every limit, and none that passes is more than one share above it.
THEOREM AdjustedWithinOneShare ==
    ASSUME NEW s \in StateType, NEW c \in CandidateType, Fits(s, c.price),
           NEW n \in 1 .. c.quantity
    PROVE  /\ n <= AdjustedQuantity(s, c) =>
                KeepsAmounts(s, OrderOf(c, n)) /\ ~ BlockingRuleViolated(s, OrderOf(c, n))
           /\ Passed(s, OrderOf(c, n)) =>
                KeepsAmounts(s, OrderOf(c, n)) /\ n <= AdjustedQuantity(s, c) + 1
<1> DEFINE q == c.quantity
           m == OrderOf(c, n)
           adjusted == AdjustedQuantity(s, c)
           sector == 100 * (s.sector[SectorOf[c.symbol]] + n * c.price)
                       <= SECTOR_CONCENTRATION_PCT * s.total
<1>1. q \in Nat \ {0} /\ n \in Nat \ {0} /\ n <= q /\ s.total \in Nat
    BY SMT DEF CandidateType, StateType
<1>2. /\ m \in CandidateType /\ m.quantity = n /\ m.price = c.price /\ m.symbol = c.symbol
      /\ BlockingRuleViolated(s, m) <=> BlockingRuleViolated(s, c)
    BY <1>1 DEF BlockingRuleViolated, HoldingsViolated, OrderOf, CandidateType
<1>3. /\ RiskCap(s, c) \in Nat /\ PositionCap(s, c) \in Nat
      /\ ~ RiskViolated(s, m) <=> n <= RiskCap(s, c)
      /\ ~ PositionViolated(s, m) <=> n <= PositionCap(s, c)
    BY <1>1, CapsAreExact
<1>4. /\ RiskViolated(s, c) /\ RiskCap(s, c) = 0 => RiskViolated(s, m)
      /\ PositionViolated(s, c) /\ PositionCap(s, c) = 0 => PositionViolated(s, m)
    BY <1>1, <1>3, SMT
<1>5. ASSUME s.total > 0
      PROVE  /\ SectorCap(s, c) \in Nat
             /\ n <= SectorCap(s, c) => sector
             /\ ~ SectorViolated(s, m) => sector /\ n - 1 <= SectorCap(s, c)
    BY <1>1, <1>5, SectorRule
<1>6. ~ RiskViolated(s, m) /\ ~ PositionViolated(s, m) /\ sector => KeepsAmounts(s, m)
    BY <1>2, RulesKeepAmounts
<1> HIDE DEF q, m, sector
<1>7. CASE s.total <= 0 \/ Blocked(s, c)
    <2>1. adjusted = 0
        BY <1>7 DEF AdjustedQuantity
    <2>2. ASSUME Passed(s, m)
          PROVE  KeepsAmounts(s, m) /\ n <= 1
        <3>1. /\ s.total > 0 /\ ~ RiskViolated(s, m) /\ ~ PositionViolated(s, m)
              /\ ~ SectorViolated(s, m) /\ ~ BlockingRuleViolated(s, c)
            BY <2>2, <1>2 DEF Passed
        <3>2. ~ (s.total <= 0)
            BY <1>1, <3>1, SMT
        <3>3. SectorCap(s, c) = 0
            BY <1>4, <1>7, <3>1, <3>2 DEF Blocked
        <3>4. n - 1 <= 0 /\ sector
            BY <1>5, <3>1, <3>3
        <3> QED BY <1>1, <1>6, <3>1, <3>4, SMT
    <2>3. ~ (n <= 0) /\ (n <= 1 => n <= 0 + 1)
        BY <1>1, SMT
    <2> QED BY <2>1, <2>2, <2>3 DEF m
<1>8. CASE ~ (s.total <= 0 \/ Blocked(s, c))
    <2>1. adjusted = Least(q, Least(RiskCap(s, c), Least(PositionCap(s, c), SectorCap(s, c))))
        BY <1>8 DEF AdjustedQuantity, q
    <2>2. s.total > 0 /\ ~ BlockingRuleViolated(s, m)
        BY <1>1, <1>2, <1>8, SMT DEF Blocked
    <2>3. SectorCap(s, c) \in Nat
        BY <1>5, <2>2
    <2>4. /\ n <= adjusted => /\ n <= RiskCap(s, c) /\ n <= PositionCap(s, c)
                              /\ n <= SectorCap(s, c)
          /\ /\ n <= RiskCap(s, c) /\ n <= PositionCap(s, c) /\ n - 1 <= SectorCap(s, c)
             => n <= adjusted + 1
        <3> HIDE DEF adjusted
        <3> QED BY <1>1, <1>3, <2>1, <2>3, SMT DEF Least
    <2>5. n <= adjusted => KeepsAmounts(s, m)
        BY <1>3, <1>5, <1>6, <2>2, <2>4
    <2>6. Passed(s, m) => KeepsAmounts(s, m) /\ n <= adjusted + 1
        BY <1>3, <1>5, <1>6, <2>2, <2>4 DEF Passed
    <2> QED BY <2>2, <2>5, <2>6 DEF m
<1> QED BY <1>7, <1>8

\* A check that passes takes at most one share off, and what it leaves keeps every
\* limit.
LEMMA PassedCutsOneShareAtMost ==
    ASSUME NEW s \in StateType, NEW c \in CandidateType, Fits(s, c.price),
           c.quantity > 0, Passed(s, c)
    PROVE  /\ AdjustedQuantity(s, c) \in {c.quantity - 1, c.quantity}
           /\ AdjustedQuantity(s, c) > 0 =>
                KeepsAmounts(s, OrderOf(c, AdjustedQuantity(s, c)))
<1> DEFINE q == c.quantity
           adjusted == AdjustedQuantity(s, c)
<1>1. q \in Nat \ {0} /\ q \in 1 .. q
    BY SMT DEF CandidateType
<1>2. OrderOf(c, q) = c
    BY DEF OrderOf, CandidateType
<1>3. q <= adjusted + 1
    BY <1>1, <1>2, AdjustedWithinOneShare
<1>4. adjusted \in Nat /\ adjusted <= q
    <2>1. s.total \in Nat /\ (~ (s.total <= 0) => s.total > 0)
        BY SMT DEF StateType
    <2>2. s.total > 0 => SectorCap(s, c) \in Nat
        BY <1>1, SectorRule
    <2>3. RiskCap(s, c) \in Nat /\ PositionCap(s, c) \in Nat
        <3>1. q <= c.quantity
            BY <1>1, SMT
        <3> QED BY <1>1, <3>1, CapsAreExact
    <2>4. \/ adjusted = 0
          \/ /\ s.total > 0
             /\ adjusted = Least(q, Least(RiskCap(s, c), Least(PositionCap(s, c), SectorCap(s, c))))
        BY <2>1 DEF AdjustedQuantity
    <2> HIDE DEF q, adjusted
    <2> QED BY <1>1, <2>2, <2>3, <2>4, SMT DEF Least
<1>5. adjusted > 0 => KeepsAmounts(s, OrderOf(c, adjusted))
    <2>1. adjusted > 0 => adjusted \in 1 .. c.quantity
        <3> HIDE DEF adjusted
        <3> QED BY <1>1, <1>4, SMT
    <2>2. adjusted <= adjusted
        <3> HIDE DEF adjusted
        <3> QED BY <1>4, SMT
    <2> QED BY <2>1, <2>2, AdjustedWithinOneShare
<1>6. adjusted \in {q - 1, q}
    <2> HIDE DEF q, adjusted
    <2> QED BY <1>1, <1>3, <1>4, SMT
<1> QED BY <1>5, <1>6

---------------------------------------------------------------------------
(* PositionSizer against AlgoRiskManager.                                  *)

\* What PositionSizer proposes keeps the position limits of its own total, and,
\* beyond the one-share minimum, the risk limit.
LEMMA SizedKeepsLimits ==
    ASSUME NEW total \in Nat, NEW price \in Prices, NEW stop \in Prices, price # stop,
           SizedQuantity(total, price, stop) > 0
    PROVE  LET n == SizedQuantity(total, price, stop)
           IN  /\ n \in Nat \ {0}
               /\ 100 * (n * price) <= total * MAX_POSITION_PCT
               /\ n * price <= MAX_POSITION_SIZE_KRW
               /\ n > 1 => 100 * (n * RiskPerShare(price, stop)) <= total * RISK_PER_TRADE_PCT
<1> DEFINE risk == RiskPerShare(price, stop)
           n == SizedQuantity(total, price, stop)
           riskUnit == 100 * risk
           priceUnit == 100 * price
           riskLimit == total * RISK_PER_TRADE_PCT
           pctLimit == total * MAX_POSITION_PCT
           raw == Room(riskLimit, 0, riskUnit)
           byPct == Room(pctLimit, 0, priceUnit)
           byKrw == Room(MAX_POSITION_SIZE_KRW, 0, price)
<1>1. risk \in Nat \ {0}
    BY PerShareType
<1>2. n = Least(Most(1, raw), Least(byPct, byKrw)) /\ n > 0
    BY DEF SizedQuantity
<1>3. /\ riskUnit \in Nat \ {0} /\ priceUnit \in Nat \ {0} /\ price \in Nat \ {0}
      /\ riskLimit \in Int /\ pctLimit \in Int /\ MAX_POSITION_SIZE_KRW \in Int
    <2> HIDE DEF risk
    <2> QED BY <1>1, SettingsAssumption, SMT DEF Prices
<1>4. \A m \in Nat \ {0} : m * riskUnit = 100 * (m * risk) /\ m * risk \in Nat
                           /\ m * priceUnit = 100 * (m * price) /\ m * price \in Nat
    <2> HIDE DEF risk
    <2> QED BY <1>1, <1>3, SMT
<1> HIDE DEF riskUnit, priceUnit, riskLimit, pctLimit
<1>5. /\ raw \in Nat /\ byPct \in Nat /\ byKrw \in Nat
      /\ \A m \in Nat \ {0} :
            /\ m <= raw <=> 0 + m * riskUnit <= riskLimit
            /\ m <= byPct <=> 0 + m * priceUnit <= pctLimit
            /\ m <= byKrw <=> 0 + m * price <= MAX_POSITION_SIZE_KRW
    <2>1. 0 \in Int /\ 1 \in Nat \ {0}
        BY SMT
    <2> QED BY <1>3, <2>1, RoomIsLargest
<1> HIDE DEF raw, byPct, byKrw, n
<1>6. n \in Nat \ {0} /\ n <= byPct /\ n <= byKrw /\ (n > 1 => n <= raw)
    BY <1>2, <1>5, SMT DEF Least, Most
<1>7. /\ 100 * (n * price) <= pctLimit
      /\ n * price <= MAX_POSITION_SIZE_KRW
      /\ n > 1 => 100 * (n * risk) <= riskLimit
    <2>1. /\ 0 + n * priceUnit <= pctLimit /\ 0 + n * price <= MAX_POSITION_SIZE_KRW
          /\ n > 1 => 0 + n * riskUnit <= riskLimit
        BY <1>5, <1>6
    <2>2. /\ n * riskUnit = 100 * (n * risk) /\ n * risk \in Nat
          /\ n * priceUnit = 100 * (n * price) /\ n * price \in Nat
        BY <1>4, <1>6
    <2> HIDE DEF risk
    <2> QED BY <2>1, <2>2, <1>3, <1>6, SMT
<1> QED BY <1>6, <1>7 DEF n, pctLimit, riskLimit

\* PositionSizer and AlgoRiskManager agree wherever the state shows no value of
\* the symbol and at least the total the quantity was sized with.
THEOREM SizedPassesAmounts ==
    ASSUME NEW s \in StateType, NEW c \in CandidateType, NEW total \in Nat,
           c.quantity > 0, c.price # c.stop,
           c.quantity = SizedQuantity(total, c.price, c.stop),
           s.total >= total, s.value[c.symbol] = 0
    PROVE  /\ ~ PositionViolated(s, c)
           /\ c.quantity > 1 => ~ RiskViolated(s, c)
<1> DEFINE n == c.quantity
           risk == RiskPerShare(c.price, c.stop)
<1>1. c.price \in Prices /\ c.stop \in Prices /\ n \in Nat /\ s.total \in Nat
    BY DEF CandidateType, StateType
<1>2. /\ n \in Nat \ {0}
      /\ 100 * (n * c.price) <= total * MAX_POSITION_PCT
      /\ n * c.price <= MAX_POSITION_SIZE_KRW
      /\ n > 1 => 100 * (n * risk) <= total * RISK_PER_TRADE_PCT
    BY <1>1, SizedKeepsLimits
<1>3. /\ total * MAX_POSITION_PCT <= s.total * MAX_POSITION_PCT
      /\ total * RISK_PER_TRADE_PCT <= s.total * RISK_PER_TRADE_PCT
    <2>1. total \in Int /\ s.total \in Int /\ total <= s.total
        BY <1>1, SMT
    <2> QED BY <2>1, ProductOrder, SettingsAssumption
<1>4. risk \in Nat
    BY <1>1, PerShareType
<1>5. n * c.price \in Nat /\ n * risk \in Nat
    <2>1. c.price \in Nat
        BY <1>1 DEF Prices
    <2> HIDE DEF n, risk
    <2> QED BY <2>1, <1>2, <1>4, SMT
<1>6. /\ total * MAX_POSITION_PCT \in Nat /\ s.total * MAX_POSITION_PCT \in Nat
      /\ total * RISK_PER_TRADE_PCT \in Nat /\ s.total * RISK_PER_TRADE_PCT \in Nat
    BY <1>1, SettingsAssumption, SMT
<1>7. ~ PositionViolated(s, c)
    <2> DEFINE w == n * c.price
               mine == s.total * MAX_POSITION_PCT
               sized == total * MAX_POSITION_PCT
    <2>1. PositionViolated(s, c) <=> 100 * (0 + w) > Least(mine, 100 * MAX_POSITION_SIZE_KRW)
        BY DEF PositionViolated, PositionLimit
    <2>2. w \in Nat /\ mine \in Nat /\ sized \in Nat /\ sized <= mine
          /\ 100 * w <= sized /\ w <= MAX_POSITION_SIZE_KRW /\ MAX_POSITION_SIZE_KRW \in Nat
        BY <1>2, <1>3, <1>5, <1>6, SettingsAssumption
    <2> HIDE DEF w, mine, sized
    <2> QED BY <2>1, <2>2, SMT DEF Least
<1>8. ASSUME n > 1 PROVE ~ RiskViolated(s, c)
    <2> DEFINE w == n * risk
               mine == s.total * RISK_PER_TRADE_PCT
               sized == total * RISK_PER_TRADE_PCT
    <2>1. RiskViolated(s, c) <=> 100 * w > mine
        BY DEF RiskViolated, RiskLimit
    <2>2. w \in Nat /\ mine \in Nat /\ sized \in Nat /\ sized <= mine /\ 100 * w <= sized
        BY <1>2, <1>3, <1>5, <1>6, <1>8
    <2> HIDE DEF w, mine, sized
    <2> QED BY <2>1, <2>2, SMT
<1> QED BY <1>7, <1>8

---------------------------------------------------------------------------
(* The inductive invariant of EntryGate.                                   *)

\* The decision a run checks was sized with the total the run read first.
InHand(r) ==
    /\ candidate[r] \in CandidateType
    /\ candidate[r].quantity > 0
    /\ candidate[r].price \in EntryPrices
    /\ candidate[r].price # candidate[r].stop
    /\ candidate[r].quantity
         = SizedQuantity(sizingTotal[r], candidate[r].price, candidate[r].stop)

\* A signal of run r keeps the limits in the state it carries, for the quantity
\* the run sized or one share less.
GoodSignal(r, sig) ==
    /\ sig \in SignalType
    /\ sig.order.quantity > 0
    /\ KeepsAmounts(sig.state, sig.order)
    /\ ~ BlockingRuleViolated(sig.state, sig.order)
    /\ LET sized == SizedQuantity(sizingTotal[r], sig.order.price, sig.order.stop)
       IN  /\ Passed(sig.state, OrderOf(sig.order, sized))
           /\ sig.order.quantity \in {sized - 1, sized}

CandidateInv ==
    \A r \in Runs : pc[r] \in {"check", "positions", "trades"} => InHand(r)

\* The shares of rule 4 tell the amounts of a state that was read apart.
SeenInv ==
    \A r \in Runs : pc[r] \in {"positions", "trades"} =>
        /\ seen[r] \in StateType
        /\ \A price \in EntryPrices : Fits(seen[r], price)

SignalInv ==
    /\ \A r \in Runs : \A sig \in signals[r] : GoodSignal(r, sig)
    /\ \A row \in rows : GoodSignal(row.run, row.signal)

\* The total a run sizes with is read before it has issued anything.
StartInv ==
    \A r \in Runs : pc[r] = "start" =>
        signals[r] = {} /\ \A row \in rows : row.run # r

GateInv == TypeOK /\ CandidateInv /\ SeenInv /\ SignalInv /\ StartInv

\* Nothing is in hand at the start.
LEMMA GateInit == Init => GateInv
<1> SUFFICES ASSUME Init PROVE GateInv
    OBVIOUS
<1>1. IsFiniteSet(rows)
    BY FS_EmptySet DEF Init
<1>2. TypeOK
    BY <1>1, SMT DEF Init, TypeOK
<1> QED BY <1>2 DEF Init, GateInv, CandidateInv, SeenInv, SignalInv, StartInv

\* What the broker reports is typed, and the count of rows is a number.
LEMMA ReportType ==
    ASSUME TypeOK
    PROVE  /\ portfolio \in PortfolioType
           /\ \A a \in Accounts : TradesToday(a) \in Nat
<1>1. Cardinality(rows) \in Nat
    BY FS_CardinalityType DEF TypeOK
<1>2. \A a \in Accounts : otherRows[a] \in Nat
    BY DEF TypeOK
<1> QED BY <1>1, <1>2, GateAssumption, SMT DEF TypeOK, TradesToday

\* Every step of a run and of the rest keeps the invariant.
LEMMA GateStep == GateInv /\ [Next]_vars => GateInv'
<1> SUFFICES ASSUME GateInv, [Next]_vars PROVE GateInv'
    OBVIOUS
<1> USE DEF GateInv
<1>1. ASSUME NEW r \in Runs, ReadSizingTotal(r) PROVE GateInv'
    <2>1. portfolio.total \in Nat
        BY ReportType DEF PortfolioType
    <2>2. TypeOK'
        BY <1>1, <2>1 DEF TypeOK, ReadSizingTotal, Goto
    <2>3. \A x \in Runs : x # r => sizingTotal'[x] = sizingTotal[x] /\ pc'[x] = pc[x]
        BY <1>1 DEF ReadSizingTotal, Goto, TypeOK
    <2>4. pc'[r] = "next" /\ signals[r] = {} /\ \A row \in rows : row.run # r
        BY <1>1 DEF ReadSizingTotal, Goto, TypeOK, StartInv
    <2>5. CandidateInv' /\ SeenInv' /\ StartInv'
        BY <1>1, <2>3, <2>4
        DEF CandidateInv, SeenInv, StartInv, InHand, ReadSizingTotal
    <2>6. \A x \in Runs : \A sig \in signals'[x] : GoodSignal(x, sig)'
        BY <1>1, <2>3, <2>4 DEF SignalInv, GoodSignal, ReadSizingTotal
    <2>7. \A row \in rows' : GoodSignal(row.run, row.signal)'
        BY <1>1, <2>3, <2>4 DEF SignalInv, GoodSignal, ReadSizingTotal, TypeOK
    <2> QED BY <2>2, <2>5, <2>6, <2>7 DEF SignalInv
<1>2. ASSUME NEW r \in Runs, NEW sym \in Symbols, DropDecision(r, sym) PROVE GateInv'
    <2>1. TypeOK'
        BY <1>2 DEF TypeOK, DropDecision
    <2> QED BY <1>2, <2>1
        DEF DropDecision, CandidateInv, SeenInv, SignalInv, StartInv, InHand, GoodSignal
<1>3. ASSUME NEW r \in Runs, NEW sym \in Symbols, NEW price \in EntryPrices,
             NEW distance \in StopDistances, SizeDecision(r, sym, price, distance)
      PROVE  GateInv'
    <2> DEFINE stop == StopPrice(price, distance)
               n == SizedQuantity(sizingTotal[r], price, stop)
    <2>1. price \in Prices /\ stop \in Prices
        BY GateAssumption, SMT DEF StopPrice, Prices
    <2>2. /\ UNCHANGED <<portfolio, otherRows, rows, sizingTotal, seen, signals>>
          /\ pc[r] = "next" /\ todo' = [todo EXCEPT ![r] = @ \ {sym}]
        BY <1>3 DEF SizeDecision
    <2>3. CASE UNCHANGED candidate /\ (UNCHANGED pc \/ Goto(r, "failed"))
        <3>1. TypeOK'
            BY <2>2, <2>3 DEF TypeOK, Goto
        <3>2. \A x \in Runs : pc'[x] = pc[x] \/ (x = r /\ pc'[x] = "failed")
            BY <2>3 DEF TypeOK, Goto
        <3> QED BY <2>2, <2>3, <3>1, <3>2
            DEF CandidateInv, SeenInv, SignalInv, StartInv, InHand, GoodSignal
    <2>4. CASE /\ Sizable(sizingTotal[r], price, stop) /\ ~ (n <= 0)
               /\ candidate' = [candidate EXCEPT ![r] =
                    [symbol |-> sym, quantity |-> n, price |-> price, stop |-> stop]]
               /\ Goto(r, "check")
        <3> DEFINE cand == [symbol |-> sym, quantity |-> n, price |-> price, stop |-> stop]
        <3>1. price # stop
            BY <2>4 DEF Sizable
        <3>2. n \in Nat \ {0}
            <4>1. sizingTotal[r] \in Nat
                BY DEF TypeOK
            <4>2. n \in Int
                <5>1. RiskPerShare(price, stop) \in Nat \ {0}
                    BY <2>1, <3>1, PerShareType
                <5>2. \A limit \in Int, u \in Nat \ {0} : Room(limit, 0, u) \in Nat
                    <6>1. 0 \in Int /\ 1 \in Nat \ {0}
                        BY SMT
                    <6> QED BY <6>1, RoomIsLargest
                <5>3. /\ sizingTotal[r] * RISK_PER_TRADE_PCT \in Int
                      /\ sizingTotal[r] * MAX_POSITION_PCT \in Int
                      /\ MAX_POSITION_SIZE_KRW \in Int
                    BY <4>1, SettingsAssumption, SMT
                <5>4. /\ 100 * RiskPerShare(price, stop) \in Nat \ {0}
                      /\ 100 * price \in Nat \ {0} /\ price \in Nat \ {0}
                    BY <2>1, <5>1, SMT DEF Prices
                <5>5. /\ Room(sizingTotal[r] * RISK_PER_TRADE_PCT, 0,
                              100 * RiskPerShare(price, stop)) \in Nat
                      /\ Room(sizingTotal[r] * MAX_POSITION_PCT, 0, 100 * price) \in Nat
                      /\ Room(MAX_POSITION_SIZE_KRW, 0, price) \in Nat
                    BY <5>2, <5>3, <5>4
                <5> QED BY <5>5, SMT DEF SizedQuantity, Least, Most
            <4> QED BY <2>4, <4>2, SMT
        <3>3. cand \in CandidateType /\ cand.price \in EntryPrices
            BY <2>1, <3>2 DEF CandidateType
        <3> HIDE DEF n, stop
        <3>4. TypeOK'
            BY <2>2, <2>4, <3>3 DEF TypeOK, Goto
        <3>5. /\ \A x \in Runs : x # r => candidate'[x] = candidate[x] /\ pc'[x] = pc[x]
              /\ candidate'[r] = cand /\ pc'[r] = "check"
            BY <2>4 DEF TypeOK, Goto
        <3>6. InHand(r)'
            BY <2>2, <3>1, <3>2, <3>3, <3>5, SMT DEF InHand, n
        <3>7. CandidateInv'
            BY <2>2, <3>5, <3>6 DEF CandidateInv, InHand
        <3> QED BY <2>2, <3>4, <3>5, <3>7 DEF SeenInv, SignalInv, StartInv, GoodSignal
    <2> QED BY <1>3, <2>3, <2>4 DEF SizeDecision
<1>4. ASSUME NEW r \in Runs, ReadBalance(r) PROVE GateInv'
    <2> DEFINE fresh ==
            [total |-> portfolio.total, pnl |-> portfolio.pnl, pnlPct |-> portfolio.pnlPct,
             held |-> {}, value |-> [s \in Symbols |-> 0],
             sector |-> [s \in Sectors |-> 0], peak |-> 0, trades |-> 0]
    <2>1. fresh \in StateType /\ \A price \in EntryPrices : Fits(fresh, price)
        <3>1. portfolio \in Portfolios
            BY DEF TypeOK
        <3> QED BY <3>1, ReportType, PrecisionAssumption DEF PortfolioType, StateType, Fits
    <2>2. seen' = [seen EXCEPT ![r] = fresh]
        BY <1>4 DEF ReadBalance
    <2>3. /\ pc[r] = "check" /\ pc' = [pc EXCEPT ![r] = "positions"]
          /\ UNCHANGED <<portfolio, otherRows, rows, todo, sizingTotal, candidate, signals>>
        BY <1>4 DEF ReadBalance, Goto
    <2> HIDE DEF fresh
    <2>4. TypeOK'
        BY <2>1, <2>2, <2>3 DEF TypeOK
    <2>5. /\ \A x \in Runs : x # r => seen'[x] = seen[x] /\ pc'[x] = pc[x]
          /\ seen'[r] = fresh /\ pc'[r] = "positions"
        BY <2>2, <2>3 DEF TypeOK
    <2> QED BY <2>1, <2>4, <2>5, <2>3
        DEF CandidateInv, SeenInv, SignalInv, StartInv, InHand, GoodSignal
<1>5. ASSUME NEW r \in Runs, ReadPositions(r) PROVE GateInv'
    <2> DEFINE peak == Most(portfolio.recordedPeak, seen[r].total)
               more == [seen[r] EXCEPT !.held = portfolio.held, !.value = portfolio.value,
                                       !.sector = portfolio.sector, !.peak = peak]
    <2>1. seen[r] \in StateType /\ \A price \in EntryPrices : Fits(seen[r], price)
        BY <1>5 DEF ReadPositions, SeenInv
    <2>2. peak \in Nat
        BY <2>1, ReportType, SMT DEF PortfolioType, StateType, Most
    <2> HIDE DEF peak
    <2>3. more \in StateType /\ \A price \in EntryPrices : Fits(more, price)
        BY <2>1, <2>2, ReportType DEF PortfolioType, StateType, Fits
    <2>4. seen' = [seen EXCEPT ![r] = more]
        BY <1>5 DEF ReadPositions, peak
    <2>5. /\ pc[r] = "positions" /\ pc' = [pc EXCEPT ![r] = "trades"]
          /\ UNCHANGED <<portfolio, otherRows, rows, todo, sizingTotal, candidate, signals>>
        BY <1>5 DEF ReadPositions, Goto
    <2> HIDE DEF more
    <2>6. TypeOK'
        BY <2>3, <2>4, <2>5 DEF TypeOK
    <2>7. /\ \A x \in Runs : x # r => seen'[x] = seen[x] /\ pc'[x] = pc[x]
          /\ seen'[r] = more /\ pc'[r] = "trades"
        BY <2>4, <2>5 DEF TypeOK
    <2> QED BY <2>3, <2>6, <2>7, <2>5
        DEF CandidateInv, SeenInv, SignalInv, StartInv, InHand, GoodSignal
<1>6. ASSUME NEW r \in Runs, Judge(r) PROVE GateInv'
    <2> DEFINE s == [seen[r] EXCEPT !.trades = TradesToday(AccountOf[r])]
               c == candidate[r]
               sig == [order |-> [c EXCEPT !.quantity = AdjustedQuantity(s, c)], state |-> s]
    <2>1. seen[r] \in StateType /\ InHand(r) /\ Fits(seen[r], c.price)
        BY <1>6 DEF Judge, SeenInv, CandidateInv, InHand
    <2>2. s \in StateType /\ Fits(s, c.price)
        <3>1. TradesToday(AccountOf[r]) \in Nat
            BY ReportType, GateAssumption
        <3> QED BY <2>1, <3>1 DEF StateType, Fits
    <2>3. /\ pc[r] = "trades" /\ pc' = [pc EXCEPT ![r] = "next"]
          /\ signals' = [signals EXCEPT ![r] =
                IF Passed(s, c) /\ AdjustedQuantity(s, c) > 0 THEN @ \union {sig} ELSE @]
          /\ candidate' = [candidate EXCEPT ![r] = None] /\ seen' = [seen EXCEPT ![r] = None]
          /\ UNCHANGED <<portfolio, otherRows, rows, todo, sizingTotal>>
        BY <1>6 DEF Judge, Goto
    <2>4. ASSUME Passed(s, c), AdjustedQuantity(s, c) > 0 PROVE GoodSignal(r, sig)
        <3> DEFINE n == AdjustedQuantity(s, c)
        <3>1. /\ c \in CandidateType /\ c.quantity > 0
              /\ c.quantity = SizedQuantity(sizingTotal[r], c.price, c.stop)
            BY <2>1 DEF InHand
        <3> HIDE DEF s, c
        <3>2. n \in {c.quantity - 1, c.quantity} /\ KeepsAmounts(s, OrderOf(c, n))
            BY <2>2, <2>4, <3>1, PassedCutsOneShareAtMost
        <3>3. ~ BlockingRuleViolated(s, c)
            BY <2>4 DEF Passed
        <3>4. n > 0
            BY <2>4
        <3>5. sig = [order |-> OrderOf(c, n), state |-> s]
            BY DEF OrderOf
        <3> HIDE DEF n, sig
        <3>6. n \in Nat
            BY <3>1, <3>2, <3>4, SMT DEF CandidateType
        <3>7. /\ OrderOf(c, n) \in CandidateType /\ OrderOf(c, n).quantity = n
              /\ OrderOf(c, n).price = c.price /\ OrderOf(c, n).stop = c.stop
              /\ OrderOf(c, n).symbol = c.symbol
            BY <3>1, <3>6 DEF OrderOf, CandidateType
        <3>8. ~ BlockingRuleViolated(s, OrderOf(c, n))
            BY <3>3, <3>7 DEF BlockingRuleViolated, HoldingsViolated
        <3>9. sig \in SignalType
            BY <2>2, <3>5, <3>7 DEF SignalType
        <3>10. sig.order = OrderOf(c, n) /\ sig.state = s
            BY <3>5
        <3>11. Passed(s, OrderOf(OrderOf(c, n), c.quantity))
            <4>1. OrderOf(OrderOf(c, n), c.quantity) = c
                BY <3>1 DEF OrderOf, CandidateType
            <4> QED BY <2>4, <4>1
        <3> QED BY <3>1, <3>2, <3>4, <3>7, <3>8, <3>9, <3>10, <3>11 DEF GoodSignal
    <2> HIDE DEF s, c, sig
    <2>5. \A x \in Runs : \A y \in signals'[x] : y \in signals[x] \/ (x = r /\ GoodSignal(r, y))
        BY <2>3, <2>4 DEF TypeOK
    <2>6. SignalInv'
        BY <2>3, <2>5 DEF SignalInv, GoodSignal
    <2>7. signals' \in [Runs -> SUBSET SignalType]
        BY <2>3, <2>4 DEF TypeOK, GoodSignal
    <2>8. TypeOK'
        BY <2>3, <2>7 DEF TypeOK
    <2>9. \A x \in Runs : /\ x # r => /\ pc'[x] = pc[x] /\ candidate'[x] = candidate[x]
                                      /\ seen'[x] = seen[x] /\ signals'[x] = signals[x]
                          /\ x = r => pc'[x] = "next"
        BY <2>3 DEF TypeOK
    <2> QED BY <2>3, <2>6, <2>8, <2>9 DEF CandidateInv, SeenInv, StartInv, InHand
<1>7. ASSUME NEW r \in Runs, SignalsReady(r) \/ Respond(r) \/ Raise(r) PROVE GateInv'
    <2>1. /\ pc'[r] \in {"create", "done", "failed"}
          /\ \A x \in Runs : x # r => pc'[x] = pc[x]
          /\ UNCHANGED <<portfolio, otherRows, rows, todo, sizingTotal, candidate, seen, signals>>
        BY <1>7 DEF SignalsReady, Respond, Raise, Goto, TypeOK
    <2>2. TypeOK'
        BY <1>7, <2>1 DEF TypeOK, SignalsReady, Respond, Raise, Goto
    <2> QED BY <2>1, <2>2
        DEF CandidateInv, SeenInv, SignalInv, StartInv, InHand, GoodSignal
<1>8. ASSUME NEW r \in Runs, NEW sig \in signals[r], CreateRow(r, sig) PROVE GateInv'
    <2>1. /\ GoodSignal(r, sig) /\ sig \in SignalType
        BY DEF SignalInv, GoodSignal
    <2>2. IsFiniteSet(rows')
        BY <1>8, FS_AddElement DEF CreateRow, TypeOK
    <2>3. TypeOK'
        BY <1>8, <2>1, <2>2 DEF CreateRow, TypeOK, Goto
    <2>4. /\ pc[r] = "create" /\ pc'[r] \in {"create", "failed"}
          /\ \A x \in Runs : x # r => pc'[x] = pc[x] /\ signals'[x] = signals[x]
          /\ signals'[r] \subseteq signals[r]
          /\ rows' = rows \union {[run |-> r, signal |-> sig]}
          /\ UNCHANGED <<sizingTotal, candidate, seen>>
        BY <1>8 DEF CreateRow, Goto, TypeOK
    <2>5. SignalInv'
        <3>1. \A x \in Runs : \A y \in signals'[x] : GoodSignal(x, y)'
            BY <2>4 DEF SignalInv, GoodSignal
        <3>2. \A row \in rows' : GoodSignal(row.run, row.signal)'
            BY <2>1, <2>4 DEF SignalInv, GoodSignal
        <3> QED BY <3>1, <3>2 DEF SignalInv
    <2> QED BY <2>3, <2>4, <2>5 DEF CandidateInv, SeenInv, StartInv, InHand
<1>9. ASSUME PortfolioMoves PROVE GateInv'
    BY <1>9
    DEF PortfolioMoves, TypeOK, CandidateInv, SeenInv, SignalInv, StartInv, InHand, GoodSignal
<1>10. ASSUME NEW a \in Accounts, ExecutorEnters(a) PROVE GateInv'
    <2>1. TypeOK'
        BY <1>10 DEF ExecutorEnters, TypeOK
    <2> QED BY <1>10, <2>1
        DEF ExecutorEnters, CandidateInv, SeenInv, SignalInv, StartInv, InHand, GoodSignal
<1>11. ASSUME UNCHANGED vars PROVE GateInv'
    BY <1>11 DEF vars, TypeOK, CandidateInv, SeenInv, SignalInv, StartInv, InHand, GoodSignal
<1> QED BY <1>1, <1>2, <1>3, <1>4, <1>5, <1>6, <1>7, <1>8, <1>9, <1>10, <1>11
    DEF Next, RunStep

\* The invariant holds throughout, for any requests, portfolios and settings.
THEOREM GateInvariance == Spec => []GateInv
    BY GateInit, GateStep, PTL DEF Spec

\* What a run or a row issued is a good signal.
LEMMA IssuedAreGood ==
    ASSUME GateInv, NEW r \in Runs, NEW sig \in IssuedSignals(r)
    PROVE  GoodSignal(r, sig)
    BY DEF GateInv, SignalInv, IssuedSignals

\* No signal breaks a limit in the state its check read.
THEOREM SignalsAreWithinLimits == Spec => []SignalsKeepLimits
<1>1. GateInv => SignalsKeepLimits
    <2> SUFFICES ASSUME GateInv, NEW r \in Runs, NEW sig \in IssuedSignals(r)
                 PROVE  /\ sig.order.quantity > 0
                        /\ KeepsAmounts(sig.state, sig.order)
                        /\ sig.state.trades < MAX_DAILY_TRADES
                        /\ \/ sig.order.symbol \in sig.state.held
                           \/ Cardinality(sig.state.held) < MAX_PORTFOLIO_POSITIONS
        BY DEF SignalsKeepLimits
    <2> DEFINE s == sig.state
               c == sig.order
    <2>1. /\ s \in StateType /\ c \in CandidateType /\ c.quantity > 0
          /\ KeepsAmounts(s, c) /\ ~ BlockingRuleViolated(s, c)
        BY IssuedAreGood DEF GoodSignal, SignalType
    <2> HIDE DEF s, c
    <2>2. s.trades \in Nat /\ s.held \subseteq Symbols
        BY <2>1 DEF StateType
    <2>3. Cardinality(s.held) \in Nat
        BY <2>2, SettingsAssumption, FS_Subset, FS_CardinalityType
    <2>4. /\ ~ (s.trades >= MAX_DAILY_TRADES)
          /\ c.symbol \in s.held \/ ~ (Cardinality(s.held) >= MAX_PORTFOLIO_POSITIONS)
        BY <2>1 DEF BlockingRuleViolated, DailyTradesViolated, HoldingsViolated
    <2>5. s.trades < MAX_DAILY_TRADES
          /\ (c.symbol \in s.held \/ Cardinality(s.held) < MAX_PORTFOLIO_POSITIONS)
        BY <2>2, <2>3, <2>4, SettingsAssumption, SMT
    <2> QED BY <2>1, <2>5 DEF s, c
<1> QED BY <1>1, GateInvariance, PTL

\* A signal carries the sized quantity, or one share less.
THEOREM PassingCutsAtMostOne == Spec => []PassingCutsOneShareAtMost
<1>1. GateInv => PassingCutsOneShareAtMost
    BY IssuedAreGood DEF PassingCutsOneShareAtMost, GoodSignal, OrderOf
<1> QED BY <1>1, GateInvariance, PTL

\* The two classes agree on every decision that is being judged.
THEOREM SizerAndCheckAgree == Spec => []SizerAgreesWithCheck
<1>1. GateInv => SizerAgreesWithCheck
    <2> SUFFICES ASSUME GateInv, NEW r \in Runs, pc[r] = "trades",
                        seen[r].total >= sizingTotal[r],
                        seen[r].value[candidate[r].symbol] = 0
                 PROVE  /\ ~ PositionViolated(seen[r], candidate[r])
                        /\ candidate[r].quantity > 1
                              => ~ RiskViolated(seen[r], candidate[r])
        BY DEF SizerAgreesWithCheck
    <2>1. seen[r] \in StateType /\ InHand(r) /\ sizingTotal[r] \in Nat
        BY DEF GateInv, SeenInv, CandidateInv, TypeOK
    <2> QED BY <2>1, SizedPassesAmounts DEF InHand
<1> QED BY <1>1, GateInvariance, PTL
=============================================================================
