------------------------------- MODULE CpuProofs -------------------------------
(***************************************************************************)
(* The arithmetic of the executor and the contract of step and run, for    *)
(* registers of any width, any set of instructions, memory of any size and *)
(* whatever its words decode to.                                           *)
(***************************************************************************)
EXTENDS CpuProperties, WellFoundedInduction, TLAPS

-----------------------------------------------------------------------------
(* Powers of two *)

\* A set with 0 and every successor of its members holds every number.
LEMMA SetInduction ==
  ASSUME NEW T, 0 \in T, \A n \in Nat : n \in T => n + 1 \in T
  PROVE  Nat \subseteq T
<1>. SUFFICES ASSUME ~(Nat \subseteq T) PROVE FALSE
  OBVIOUS
<1>. DEFINE Below == OpToRel(<, Nat)
            Missing == Nat \ T
<1>1. IsWellFoundedOn(Below, Nat)
  BY NatLessThanWellFounded
<1>. HIDE DEF Below
<1>2. PICK x \in Missing : \A y \in Missing : ~(<<y, x>> \in Below)
  <2>1. Missing \subseteq Nat /\ Missing # {}
    OBVIOUS
  <2>. HIDE DEF Missing
  <2>. QED BY <1>1, <2>1, WFMin
<1>3. x - 1 \in Nat /\ x - 1 < x
  OBVIOUS
<1>4. <<x - 1, x>> \in Below
  BY <1>3 DEF Below, OpToRel
<1>. QED BY <1>2, <1>3, <1>4

LEMMA WidthsAreNatural ==
  W64 \in Nat /\ W32 \in Nat /\ W64 = W32 + W32 /\ W32 = FieldBits + FieldBits
  BY WidthAssumption DEF W64, W32

\* Powers are positive, and the power of a sum is the product.
LEMMA PowerIsPositive ==
  ASSUME NEW n \in 0..W64
  PROVE  2 ^ n \in Nat \ {0}
<1>. DEFINE T == {k \in Nat : k <= W64 => 2 ^ k \in Nat \ {0}}
<1>1. 0 \in T
  BY PowersAssumption
<1>2. ASSUME NEW k \in Nat, k \in T PROVE k + 1 \in T
  <2>. SUFFICES ASSUME k + 1 <= W64 PROVE 2 ^ (k + 1) \in Nat \ {0}
    OBVIOUS
  <2>1. 2 ^ (k + 1) = 2 * 2 ^ k
    BY PowersAssumption, WidthsAreNatural
  <2>2. 2 ^ k \in Nat \ {0}
    BY <1>2, WidthsAreNatural
  <2>. QED BY <2>1, <2>2
<1>. HIDE DEF T
<1>3. Nat \subseteq T
  BY <1>1, <1>2, SetInduction
<1>. QED BY <1>3, WidthsAreNatural DEF T

LEMMA PowerOfSum ==
  ASSUME NEW a \in Nat, NEW b \in Nat, a + b <= W64
  PROVE  2 ^ (a + b) = 2 ^ a * 2 ^ b
<1>. DEFINE T == {k \in Nat : a + k <= W64 => 2 ^ (a + k) = 2 ^ a * 2 ^ k}
<1>0. 2 ^ a \in Nat
  BY PowerIsPositive, WidthsAreNatural
<1>1. 0 \in T
  BY <1>0, PowersAssumption
<1>2. ASSUME NEW k \in Nat, k \in T PROVE k + 1 \in T
  <2>. SUFFICES ASSUME a + (k + 1) <= W64 PROVE 2 ^ (a + (k + 1)) = 2 ^ a * 2 ^ (k + 1)
    OBVIOUS
  <2>1. 2 ^ ((a + k) + 1) = 2 * 2 ^ (a + k) /\ 2 ^ (k + 1) = 2 * 2 ^ k
    BY PowersAssumption, WidthsAreNatural
  <2>2. 2 ^ (a + k) = 2 ^ a * 2 ^ k
    BY <1>2, WidthsAreNatural
  <2>3. 2 ^ k \in Nat
    BY PowerIsPositive, WidthsAreNatural
  <2>4. a + (k + 1) = (a + k) + 1
    OBVIOUS
  <2>5. 2 * (2 ^ a * 2 ^ k) = 2 ^ a * (2 * 2 ^ k)
    BY <1>0, <2>3
  <2>. QED BY <2>1, <2>2, <2>4, <2>5
<1>. HIDE DEF T
<1>3. Nat \subseteq T
  BY <1>1, <1>2, SetInduction
<1>. QED BY <1>3 DEF T

\* The powers the executor uses: F and I are the numbers of values of a field
\* and of an immediate.
LEMMA Powers ==
  LET F == 2 ^ FieldBits
      I == 2 ^ ImmBits
  IN /\ F \in Nat \ {0} /\ I \in Nat \ {0} /\ 2 * I <= F
     /\ 2 ^ W32 = F * F /\ 2 ^ W64 = (F * F) * (F * F)
     /\ \A w \in {W32, W64} : 2 ^ (w - 1) \in Nat /\ 2 ^ w = 2 * 2 ^ (w - 1)
     /\ 2 ^ (0 * FieldBits) = 1 /\ 2 ^ (1 * FieldBits) = F
     /\ 2 ^ (2 * FieldBits) = F * F /\ 2 ^ (3 * FieldBits) = F * (F * F)
<1>. DEFINE F == 2 ^ FieldBits
            I == 2 ^ ImmBits
            rest == FieldBits - ImmBits
<1>1. F \in Nat \ {0} /\ I \in Nat \ {0}
  BY PowerIsPositive, WidthsAreNatural, WidthAssumption
<1>2. 2 ^ W32 = F * F /\ 2 ^ W64 = 2 ^ W32 * 2 ^ W32
  BY PowerOfSum, WidthsAreNatural, WidthAssumption
<1>3. 2 * I <= F
  <2>1. /\ rest \in Nat \ {0} /\ rest - 1 \in 0..(W64 - 1) /\ rest - 1 \in 0..W64
        /\ ImmBits + rest = FieldBits /\ ImmBits + rest <= W64
    BY WidthsAreNatural, WidthAssumption
  <2>. HIDE DEF rest
  <2>2. F = I * 2 ^ rest
    BY <2>1, PowerOfSum, WidthsAreNatural, WidthAssumption
  <2>3. 2 ^ ((rest - 1) + 1) = 2 * 2 ^ (rest - 1) /\ 2 ^ (rest - 1) \in Nat \ {0}
    BY <2>1, PowersAssumption, PowerIsPositive
  <2>4. (rest - 1) + 1 = rest
    BY <2>1
  <2>5. 2 ^ rest = 2 * 2 ^ (rest - 1)
    BY <2>3, <2>4
  <2>6. PICK m \in Nat \ {0} : 2 ^ rest = 2 * m
    BY <2>3, <2>5
  <2>7. I * (2 * m) = (2 * I) * m /\ (2 * I) * m >= 2 * I
    <3>1. 2 * I \in Nat
      BY <1>1
    <3>. HIDE DEF I
    <3>2. \A i \in Nat, n \in Nat \ {0} : i * n >= i
      OBVIOUS
    <3>. QED BY <1>1, <3>1, <3>2
  <2>. QED BY <2>2, <2>6, <2>7
<1>4. ASSUME NEW w \in {W32, W64}
      PROVE  2 ^ (w - 1) \in Nat /\ 2 ^ w = 2 * 2 ^ (w - 1)
  <2>1. w - 1 \in 0..(W64 - 1) /\ (w - 1) + 1 = w
    BY WidthsAreNatural, WidthAssumption
  <2>2. 2 ^ ((w - 1) + 1) = 2 * 2 ^ (w - 1) /\ 2 ^ (w - 1) \in Nat
    BY <2>1, PowersAssumption, PowerIsPositive, WidthsAreNatural
  <2>. QED BY <2>1, <2>2
<1>5. 2 ^ (0 * FieldBits) = 1 /\ 2 ^ (1 * FieldBits) = F
  <2>1. 0 * FieldBits = 0 /\ 1 * FieldBits = FieldBits
    BY WidthAssumption
  <2>. QED BY <2>1, PowersAssumption
<1>6. 2 ^ (2 * FieldBits) = F * F /\ 2 ^ (3 * FieldBits) = F * (F * F)
  <2>1. 2 * FieldBits = W32 /\ 3 * FieldBits = FieldBits + W32
    BY WidthAssumption DEF W32
  <2>2. 2 ^ (FieldBits + W32) = F * 2 ^ W32
    BY PowerOfSum, WidthsAreNatural, WidthAssumption
  <2>. QED BY <1>2, <2>1, <2>2
<1>. QED BY <1>1, <1>2, <1>3, <1>4, <1>5, <1>6

-----------------------------------------------------------------------------
(* Division *)

\* A number is a multiple and a rest, and in only one way.
LEMMA DivMod ==
  ASSUME NEW x \in Int, NEW m \in Nat \ {0}
  PROVE  /\ x % m \in Nat /\ x % m < m /\ x \div m \in Int
         /\ x = m * (x \div m) + (x % m)
OBVIOUS

LEMMA DivModIs ==
  ASSUME NEW m \in Nat \ {0}, NEW q \in Int, NEW r \in 0..(m - 1),
         NEW x \in Int, x = m * q + r
  PROVE  x % m = r /\ x \div m = q
<1>. DEFINE p == x \div m
           s == x % m
<1>1. s \in Nat /\ s < m /\ p \in Int /\ m * p + s = x
  BY DivMod
<1>. HIDE DEF p, s
<1>2. m * (q - p) = s - r /\ m * (p - q) = r - s
  BY <1>1
<1>3. \A d \in Int : d >= 1 => m * d >= m
  OBVIOUS
<1>4. ~(q - p >= 1) /\ ~(p - q >= 1)
  BY <1>1, <1>2, <1>3
<1>5. p = q
  BY <1>1, <1>4
<1>. QED BY <1>1, <1>5 DEF p, s

LEMMA SmallMod ==
  ASSUME NEW m \in Nat \ {0}, NEW x \in 0..(m - 1)
  PROVE  x % m = x
<1>1. x = m * 0 + x
  OBVIOUS
<1>. QED BY <1>1, DivModIs

\* Reducing twice, and reducing before an addition.
LEMMA ModTwice ==
  ASSUME NEW m \in Nat \ {0}, NEW k \in Nat \ {0}, NEW x \in Int
  PROVE  (x % (m * k)) % m = x % m
<1>. DEFINE y == x % (m * k)
           q == x \div (m * k)
           r == y % m
           p == y \div m
<1>1. m * k \in Nat \ {0}
  OBVIOUS
<1>2. y \in Nat /\ q \in Int /\ x = (m * k) * q + y
  BY <1>1, DivMod
<1>. HIDE DEF y, q
<1>3. r \in Nat /\ r < m /\ p \in Int /\ y = m * p + r
  BY <1>2, DivMod
<1>. HIDE DEF r, p
<1>4. (m * k) * q = m * (k * q)
  BY <1>2
<1>5. x = m * (k * q + p) + r
  BY <1>2, <1>3, <1>4
<1>6. x % m = r
  BY <1>2, <1>3, <1>5, DivModIs
<1>. QED BY <1>6 DEF y, r

LEMMA ModOfSum ==
  ASSUME NEW m \in Nat \ {0}, NEW x \in Int, NEW b \in Int
  PROVE  ((x % m) + b) % m = (x + b) % m
<1>. DEFINE y == x % m
           q == x \div m
           r == (y + b) % m
           p == (y + b) \div m
<1>1. y \in Nat /\ q \in Int /\ x = m * q + y
  BY DivMod
<1>. HIDE DEF y, q
<1>2. r \in Nat /\ r < m /\ p \in Int /\ y + b = m * p + r
  BY <1>1, DivMod
<1>. HIDE DEF r, p
<1>3. x + b = m * (q + p) + r
  BY <1>1, <1>2
<1>4. x + b \in Int /\ q + p \in Int /\ r \in 0..(m - 1)
  BY <1>1, <1>2
<1>5. (x + b) % m = r
  BY <1>3, <1>4, DivModIs
<1>. QED BY <1>5 DEF y, r

\* The bit of weight h, in a word of 2 * h values.
LEMMA SignBit ==
  ASSUME NEW h \in Nat \ {0}, NEW x \in Int
  PROVE  ((x \div h) % 2 = 1) <=> x % (2 * h) >= h
<1>. DEFINE r == x % (2 * h)
           q == x \div (2 * h)
<1>0. 2 * h \in Nat \ {0}
  OBVIOUS
<1>1. r \in Nat /\ r < 2 * h /\ q \in Int /\ x = (2 * h) * q + r
  BY <1>0, DivMod
<1>. HIDE DEF r, q
<1>2. CASE r < h
  <2>1. x = h * (2 * q) + r
    BY <1>1
  <2>2. x \div h = 2 * q
    BY <1>1, <1>2, <2>1, DivModIs
  <2>3. (2 * q) % 2 = 0
    BY <1>1
  <2>. QED BY <1>1, <1>2, <2>2, <2>3 DEF r
<1>3. CASE r >= h
  <2>1. x = h * (2 * q + 1) + (r - h)
    BY <1>1
  <2>2. x \div h = 2 * q + 1
    BY <1>1, <1>3, <2>1, DivModIs
  <2>3. (2 * q + 1) % 2 = 1
    BY <1>1
  <2>. QED BY <1>1, <1>3, <2>2, <2>3 DEF r
<1>. QED BY <1>1, <1>2, <1>3

LEMMA Quotient ==
  ASSUME NEW m \in Nat \ {0}, NEW x \in Int
  PROVE  \E q \in Int, r \in 0..(m - 1) : x = m * q + r
<1>. DEFINE q == x \div m
           r == x % m
<1>1. x = m * q + r /\ q \in Int /\ r \in 0..(m - 1)
  BY DivMod
<1>. HIDE DEF q, r
<1>. QED BY <1>1

\* A number below m * k is an m-fold of one below k, and a rest.
LEMMA Below ==
  ASSUME NEW m \in Nat \ {0}, NEW k \in Nat \ {0}, NEW q \in Int, NEW r \in 0..(m - 1)
  PROVE  m * q + r \in 0..(m * k - 1) <=> q \in 0..(k - 1)
<1>1. ASSUME q \in 0..(k - 1) PROVE m * q + r \in 0..(m * k - 1)
  <2>1. m * q \in Nat /\ m * q <= m * (k - 1)
    BY <1>1
  <2>2. m * (k - 1) = m * k - m
    OBVIOUS
  <2>. QED BY <2>1, <2>2
<1>2. ASSUME q < 0 PROVE m * q + r < 0
  <2>1. m * q <= m * (-1) /\ m * (-1) = -m
    BY <1>2
  <2>. QED BY <2>1
<1>3. ASSUME q >= k PROVE m * q + r >= m * k
  <2>1. m * q >= m * k
    BY <1>3
  <2>. QED BY <2>1
<1>. QED BY <1>1, <1>2, <1>3

-----------------------------------------------------------------------------
(* ADD and SUB *)

\* ADD or SUB of b in a word of m = 2 * h values, computed as the code does in a
\* register of m * k values, from src, whose low word is a.
Wide(ins, src, b, m, k) == (IF ins.op THEN src - b ELSE src + b) % (m * k)
Sum(ins, a, b, m) == IF ins.op THEN a + (m - 1 - b) + 1 ELSE a + b
Low(v, h) == IF v >= h THEN v - 2 * h ELSE v

\* What it comes to, for a word a: the value, carry and overflow.
Reduced(ins, a, b, m) ==
  IF ins.op THEN IF a >= b THEN a - b ELSE a - b + m
  ELSE IF a + b < m THEN a + b ELSE a + b - m
Carries(ins, a, b, m) == IF ins.op THEN a >= b ELSE a + b >= m
Overflows(ins, a, v, h) ==
  IF ins.op THEN a >= h /\ ~(v >= h) ELSE ~(a >= h) /\ v >= h
SignedSum(ins, a, b, h) ==
  IF ins.op THEN Low(a, h) - Low(b, h) ELSE Low(a, h) + Low(b, h)

\* Wrapping in the register and then in the word is wrapping in the word.
LEMMA NarrowSum ==
  ASSUME NEW h \in Nat \ {0}, NEW k \in Nat \ {0}, NEW ins,
         NEW src \in Int, NEW b \in 0..(h - 1), NEW m \in Nat \ {0}, m = 2 * h
  PROVE  /\ Wide(ins, src, b, m, k) \in 0..(m * k - 1)
         /\ Wide(ins, src, b, m, k) % m = Sum(ins, src % m, b, m) % m
         /\ Sum(ins, src % m, b, m) % m = Reduced(ins, src % m, b, m)
<1>1. m \in Nat \ {0} /\ m * k \in Nat \ {0}
  OBVIOUS
<1>. DEFINE x == IF ins.op THEN src - b ELSE src + b
           a == src % m
<1>2. x \in Int /\ a \in 0..(m - 1)
  BY <1>1, DivMod
<1>3. Wide(ins, src, b, m, k) = x % (m * k)
  BY DEF Wide
<1>4. x % m = (a + (IF ins.op THEN -b ELSE b)) % m
  <2>1. x = src + (IF ins.op THEN -b ELSE b) /\ (IF ins.op THEN -b ELSE b) \in Int
    OBVIOUS
  <2>. QED BY <1>1, <2>1, ModOfSum
<1>. HIDE DEF a, x
<1>4a. x % (m * k) \in 0..(m * k - 1)
  <2>. DEFINE w == m * k
  <2>1. w \in Nat \ {0}
    BY <1>1
  <2>. HIDE DEF w
  <2>2. x % w \in 0..(w - 1)
    BY <1>2, <2>1, DivMod
  <2>. QED BY <2>2 DEF w
<1>4b. (x % (m * k)) % m = x % m
  BY <1>1, <1>2, ModTwice
<1>5. CASE ins.op
  <2>1. (a - b) % m = IF a >= b THEN a - b ELSE a - b + m
    <3>1. CASE a >= b
      BY <1>1, <1>2, <3>1, SmallMod
    <3>2. CASE ~(a >= b)
      <4>1. a - b = m * (-1) + (a - b + m) /\ a - b + m \in 0..(m - 1)
        BY <1>1, <1>2, <3>2
      <4>. QED BY <1>1, <1>2, <3>2, <4>1, DivModIs
    <3>. QED BY <3>1, <3>2
  <2>2. (a + (m - 1 - b) + 1) % m = IF a >= b THEN a - b ELSE a - b + m
    <3>1. CASE a >= b
      <4>1. a + (m - 1 - b) + 1 = m * 1 + (a - b) /\ a - b \in 0..(m - 1)
        BY <1>1, <1>2, <3>1
      <4>. QED BY <1>1, <1>2, <3>1, <4>1, DivModIs
    <3>2. CASE ~(a >= b)
      <4>1. a + (m - 1 - b) + 1 = a - b + m /\ a - b + m \in 0..(m - 1)
        BY <1>1, <1>2, <3>2
      <4>. QED BY <1>1, <3>2, <4>1, SmallMod
    <3>. QED BY <3>1, <3>2
  <2>. QED BY <1>2, <1>3, <1>4, <1>4a, <1>4b, <1>5, <2>1, <2>2 DEF Sum, Reduced, a
<1>6. CASE ~ins.op
  <2>1. (a + b) % m = IF a + b < m THEN a + b ELSE a + b - m
    <3>1. CASE a + b < m
      BY <1>1, <1>2, <3>1, SmallMod
    <3>2. CASE ~(a + b < m)
      <4>1. a + b = m * 1 + (a + b - m) /\ a + b - m \in 0..(m - 1)
        BY <1>1, <1>2, <3>2
      <4>. QED BY <1>1, <1>2, <3>2, <4>1, DivModIs
    <3>. QED BY <3>1, <3>2
  <2>. QED BY <1>3, <1>4, <1>4a, <1>4b, <1>6, <2>1 DEF Sum, Reduced, a
<1>. QED BY <1>5, <1>6
\* The code's tests for sign, carry and overflow are those of the integers.
LEMMA FlagsOfSum ==
  ASSUME NEW h \in Nat \ {0}, NEW m \in Nat \ {0}, m = 2 * h, NEW ins,
         NEW a \in 0..(m - 1), NEW b \in 0..(h - 1), NEW v, v = Reduced(ins, a, b, m)
  PROVE  /\ v \in 0..(m - 1)
         /\ v >= h <=> Low(v, h) < 0
         /\ Sum(ins, a, b, m) # v <=> Carries(ins, a, b, m)
         /\ SignedSum(ins, a, b, h) # Low(v, h) <=> Overflows(ins, a, v, h)
<1>1. CASE ins.op
  BY <1>1 DEF Low, Sum, Reduced, Carries, SignedSum, Overflows
<1>2. CASE ~ins.op
  BY <1>2 DEF Low, Sum, Reduced, Carries, SignedSum, Overflows
<1>. QED BY <1>1, <1>2

\* The AddSub arm's width and operand.
Width(ins) == IF ins.sf THEN W64 ELSE W32
Operand(ins) == ins.imm * 2 ^ (IF ins.shift THEN ImmBits ELSE 0)
IsAddSub(ins) ==
  /\ {ins.sf, ins.op, ins.s, ins.shift} \subseteq BOOLEAN
  /\ ins.imm \in 0..(2 ^ ImmBits - 1)

\* An operand is below the sign bit of either width.
LEMMA Widths ==
  ASSUME NEW ins, IsAddSub(ins)
  PROVE  LET w == Width(ins)
         IN /\ 2 ^ (w - 1) \in Nat \ {0} /\ 2 ^ w = 2 * 2 ^ (w - 1)
            /\ \E k \in Nat \ {0} : 2 ^ W64 = 2 ^ w * k /\ (ins.sf => k = 1)
            /\ Operand(ins) \in 0..(2 ^ (w - 1) - 1)
            /\ Operand(ins) = IF ins.shift THEN ins.imm * 2 ^ ImmBits ELSE ins.imm
<1>. DEFINE F == 2 ^ FieldBits
           I == 2 ^ ImmBits
           h32 == 2 ^ (W32 - 1)
           h64 == 2 ^ (W64 - 1)
<1>1. /\ F \in Nat /\ I \in Nat \ {0} /\ 2 * I <= F
      /\ 2 ^ W32 = F * F /\ 2 ^ W64 = (F * F) * (F * F)
      /\ h32 \in Nat /\ F * F = 2 * h32
      /\ h64 \in Nat /\ (F * F) * (F * F) = 2 * h64
  BY Powers
<1>2. /\ ins.imm \in 0..(I - 1) /\ ins.shift \in BOOLEAN /\ ins.sf \in BOOLEAN
      /\ Operand(ins) = IF ins.shift THEN ins.imm * I ELSE ins.imm
  <2>1. 2 ^ 0 = 1 /\ ins.imm \in 0..(I - 1) /\ ins.shift \in BOOLEAN /\ ins.sf \in BOOLEAN
    BY DEF IsAddSub
  <2>2. ins.imm * 1 = ins.imm
    BY <1>1, <2>1
  <2>. QED BY <2>1, <2>2 DEF Operand
<1>. HIDE DEF F, I, h32, h64
<1>3. F * F >= 4 * (I * I) /\ F * F \in Nat /\ F * F >= 4
  BY <1>1
<1>4. Operand(ins) \in Nat /\ Operand(ins) < I * I
  BY <1>1, <1>2
<1>5. h32 \in Nat \ {0} /\ Operand(ins) < h32
  BY <1>1, <1>3, <1>4
<1>6. (F * F) * (F * F) >= F * F
  BY <1>3
<1>7. h64 >= h32
  BY <1>1, <1>6
<1>8. CASE ins.sf
  <2>1. Width(ins) = W64 /\ 2 ^ W64 = 2 ^ W64 * 1
    BY <1>1, <1>3, <1>8 DEF Width
  <2>. QED BY <1>1, <1>2, <1>4, <1>5, <1>7, <2>1 DEF h64, I
<1>9. CASE ~ins.sf
  <2>1. Width(ins) = W32 /\ 2 ^ W64 = 2 ^ W32 * (F * F)
    BY <1>1, <1>9 DEF Width
  <2>. QED BY <1>1, <1>2, <1>3, <1>4, <1>5, <1>9, <2>1 DEF h32, I
<1>. QED BY <1>2, <1>8, <1>9

\* ADD and SUB immediate are the architecture's, on every value.
LEMMA AddSubMeets ==
  ASSUME NEW ins, IsAddSub(ins), NEW src \in Value
  PROVE  LET done == AddSub(ins, src)
             ref == Reference(ins, src)
         IN /\ done.value = ref.value /\ done.value \in Value
            /\ <<done.n, done.z, done.v>> = <<ref.n, ref.z, ref.v>>
            /\ ins.sf \/ ~ins.op => done.c = ref.c
            /\ {done.n, done.z, done.c, done.v} \subseteq BOOLEAN
<1>. DEFINE w == Width(ins)
           h == 2 ^ (w - 1)
           m == 2 ^ w
           b == Operand(ins)
           a == src % m
           full == (IF ins.op THEN src - b ELSE src + b) % 2 ^ W64
           low == IF ins.sf THEN full ELSE full % 2 ^ W32
           msb == w - 1
           v == Sum(ins, a, b, m) % m
<1>1. /\ h \in Nat \ {0} /\ m = 2 * h /\ b \in 0..(h - 1) /\ m \in Nat \ {0}
      /\ b = IF ins.shift THEN ins.imm * 2 ^ ImmBits ELSE ins.imm
  BY Widths
<1>2. PICK k \in Nat \ {0} : 2 ^ W64 = m * k /\ (ins.sf => k = 1)
  BY Widths
<1>3. /\ ins.sf \in BOOLEAN /\ ins.op \in BOOLEAN
      /\ src \in 0..(m * k - 1) /\ src \in Int
  BY <1>2 DEF IsAddSub, Value
<1>4. full = Wide(ins, src, b, m, k)
  BY <1>2 DEF Wide
<1>5. m = IF ins.sf THEN 2 ^ W64 ELSE 2 ^ W32
  BY DEF Width
<1>. HIDE DEF w, h, m, b, a, full, v
<1>6. full \in 0..(m * k - 1) /\ full % m = v /\ v = Reduced(ins, a, b, m)
  <2>1. h \in Nat \ {0} /\ m = 2 * h /\ b \in 0..(h - 1) /\ src \in Int
    BY <1>1, <1>3
  <2>. QED BY <1>1, <1>4, <2>1, NarrowSum DEF a, v
<1>7. a \in 0..(m - 1)
  BY <1>1, <1>3, DivMod DEF a
<1>8. /\ v \in 0..(m - 1)
      /\ v >= h <=> Low(v, h) < 0
      /\ Sum(ins, a, b, m) # v <=> Carries(ins, a, b, m)
      /\ SignedSum(ins, a, b, h) # Low(v, h) <=> Overflows(ins, a, v, h)
  <2>1. h \in Nat \ {0} /\ m = 2 * h /\ b \in 0..(h - 1)
    BY <1>1
  <2>. QED BY <1>1, <1>6, <1>7, <2>1, FlagsOfSum
<1>9. low = v
  <2>1. CASE ins.sf
    <3>1. full \in 0..(m - 1)
      BY <1>1, <1>2, <1>6, <2>1
    <3>2. full % m = full
      BY <1>1, <3>1, SmallMod
    <3>. QED BY <1>6, <2>1, <3>2
  <2>2. CASE ~ins.sf
    BY <1>5, <1>6, <2>2
  <2>. QED BY <2>1, <2>2
<1>10. ASSUME NEW x \in Int PROVE Bit(x, msb) <=> x % m >= h
  <2>1. Bit(x, msb) <=> ((x \div h) % 2 = 1)
    BY DEF Bit, h
  <2>. QED BY <1>1, <2>1, SignBit
<1>11. /\ Bit(src, msb) <=> a >= h
       /\ ~Bit(b, msb)
       /\ Bit(full, msb) <=> v >= h
       /\ Bit(v, msb) <=> v >= h
       /\ b % m = b /\ v % m = v /\ a % m = a
  <2>1. b \in 0..(m - 1) /\ v \in 0..(m - 1) /\ full \in Int
    BY <1>1, <1>6, <1>8
  <2>2. b % m = b /\ v % m = v /\ a % m = a
    BY <1>1, <1>7, <2>1, SmallMod
  <2>3. b \in Int /\ v \in Int /\ ~(b >= h)
    BY <1>1, <2>1
  <2>. QED BY <1>3, <1>6, <1>10, <2>1, <2>2, <2>3 DEF a
<1>. DEFINE carry == IF ins.op THEN src >= b
                    ELSE IF ins.sf THEN src + b >= 2 ^ W64
                    ELSE (src % 2 ^ W32) + (b % 2 ^ W32) >= 2 ^ W32
           overflow == /\ (Bit(src, msb) = Bit(b, msb)) = ~ins.op
                       /\ Bit(full, msb) # Bit(src, msb)
<1>12. AddSub(ins, src) = [value |-> low, n |-> Bit(low, msb), z |-> low = 0,
                           c |-> carry, v |-> overflow]
  <2>1. msb = IF ins.sf THEN W64 - 1 ELSE W32 - 1
    BY DEF w, Width
  <2>. QED BY <2>1 DEF AddSub, full, b, Operand
<1>13. Reference(ins, src) =
         [value |-> v, n |-> Signed(v, w) < 0, z |-> v = 0,
          c |-> Sum(ins, a, b, m) # v,
          v |-> (IF ins.op THEN Signed(a, w) - Signed(b, w)
                 ELSE Signed(a, w) + Signed(b, w)) # Signed(v, w)]
  BY <1>1 DEF Reference, Unsigned, Sum, v, a, m, w, Width
<1>14. ASSUME NEW x \in Int, x % m = x PROVE Signed(x, w) = Low(x, h)
  BY <1>1, <1>14 DEF Signed, Unsigned, Low, h, m
<1>15. Signed(a, w) = Low(a, h) /\ Signed(b, w) = Low(b, h) /\ Signed(v, w) = Low(v, h)
  BY <1>1, <1>7, <1>8, <1>11, <1>14
<1>16. overflow <=> Overflows(ins, a, v, h)
  BY <1>3, <1>11 DEF Bit, Overflows
<1>17. ins.sf \/ ~ins.op => (carry <=> Carries(ins, a, b, m))
  <2>1. CASE ins.sf
    <3>1. src \in 0..(m - 1)
      BY <1>1, <1>2, <1>3, <2>1
    <3>2. a = src
      BY <1>1, <3>1, SmallMod DEF a
    <3>. QED BY <1>5, <2>1, <3>2 DEF Carries
  <2>2. CASE ~ins.sf
    BY <1>5, <1>11, <2>2 DEF Carries, a
  <2>. QED BY <2>1, <2>2
<1>18. v \in Value
  <2>1. m <= m * k
    BY <1>1, <1>2
  <2>. QED BY <1>1, <1>2, <1>8, <2>1 DEF Value
<1>. HIDE DEF carry, overflow, msb, low
<1>19. Bit(low, msb) \in BOOLEAN /\ overflow \in BOOLEAN
  BY DEF Bit, overflow
<1>20. carry \in BOOLEAN
  <2>1. src \in Nat /\ b \in Nat
    BY <1>1, <1>3
  <2>2. CASE ins.op
    <3>1. carry = (src >= b)
      BY <2>2 DEF carry
    <3>. QED BY <2>1, <3>1
  <2>3. CASE ~ins.op /\ ins.sf
    <3>1. carry = (src + b >= 2 ^ W64)
      BY <2>3 DEF carry
    <3>. QED BY <2>1, <3>1
  <2>4. CASE ~ins.op /\ ~ins.sf
    <3>1. carry = ((src % 2 ^ W32) + (b % 2 ^ W32) >= 2 ^ W32)
      BY <2>4 DEF carry
    <3>. QED BY <2>1, <3>1
  <2>. QED BY <2>2, <2>3, <2>4
<1>. QED BY <1>8, <1>9, <1>11, <1>12, <1>13, <1>15, <1>16, <1>17, <1>18, <1>19, <1>20 DEF SignedSum

\* A 32-bit operation yields of a source what it yields of the source's low
\* half, with one exception: SUBS of a source whose upper half is not zero and
\* whose low half is below the operand sets the carry where there is a borrow.
BorrowLost(ins, src) ==
  ins.op /\ src >= 2 ^ W32 /\ src % 2 ^ W32 < Operand(ins)

LEMMA CarryOfSub ==
  ASSUME NEW ins, ins.op, NEW src
  PROVE  AddSub(ins, src).c = (src >= Operand(ins))
  BY DEF AddSub, Operand

LEMMA AddSubIsRecord ==
  ASSUME NEW ins, NEW src
  PROVE  LET done == AddSub(ins, src)
         IN done = [value |-> done.value, n |-> done.n, z |-> done.z,
                    c |-> done.c, v |-> done.v]
  BY DEF AddSub

LEMMA Narrow ==
  ASSUME NEW ins, IsAddSub(ins), ~ins.sf, NEW src \in Value
  PROVE  AddSub(ins, src) = AddSub(ins, Unsigned(src, W32)) <=> ~BorrowLost(ins, src)
<1>. DEFINE m == 2 ^ W32
           b == Operand(ins)
           a == src % m
           done == AddSub(ins, src)
           low == AddSub(ins, a)
<1>1. /\ m \in Nat \ {0} /\ b \in 0..(m - 1) /\ src \in Nat
      /\ ins.op \in BOOLEAN /\ \E k \in Nat \ {0} : 2 ^ W64 = m * k
  <2>1. Width(ins) = W32
    BY DEF Width
  <2>2. 2 ^ (W32 - 1) \in Nat \ {0} /\ m = 2 * 2 ^ (W32 - 1)
    BY <2>1, Widths
  <2>3. b \in 0..(2 ^ (W32 - 1) - 1) /\ \E k \in Nat \ {0} : 2 ^ W64 = m * k
    BY <2>1, Widths
  <2>. QED BY <2>2, <2>3 DEF Value, IsAddSub
<1>. HIDE DEF m, b
<1>2. a \in 0..(m - 1) /\ a % m = a
  <2>1. src % m \in Nat /\ src % m < m
    BY <1>1, DivMod
  <2>2. src % m \in 0..(m - 1)
    BY <1>1, <2>1
  <2>3. (src % m) % m = src % m
    BY <1>1, <2>2, SmallMod
  <2>. QED BY <2>2, <2>3
<1>3. a \in Value
  <2>1. PICK k \in Nat \ {0} : 2 ^ W64 = m * k
    BY <1>1
  <2>2. m * k >= m
    BY <1>1, <2>1
  <2>. QED BY <1>1, <1>2, <2>1, <2>2 DEF Value
<1>4. Unsigned(src, W32) = a /\ Unsigned(a, W32) = a
  BY <1>2 DEF Unsigned, m
<1>5. Reference(ins, src) = Reference(ins, a)
  BY <1>4 DEF Reference
<1>. HIDE DEF a
<1>6. /\ done.value = low.value /\ done.n = low.n /\ done.z = low.z /\ done.v = low.v
      /\ ~ins.op => done.c = low.c
  <2>1. /\ done.value = Reference(ins, src).value
        /\ <<done.n, done.z, done.v>> =
             <<Reference(ins, src).n, Reference(ins, src).z, Reference(ins, src).v>>
        /\ ~ins.op => done.c = Reference(ins, src).c
    BY AddSubMeets
  <2>2. /\ low.value = Reference(ins, a).value
        /\ <<low.n, low.z, low.v>> =
             <<Reference(ins, a).n, Reference(ins, a).z, Reference(ins, a).v>>
        /\ ~ins.op => low.c = Reference(ins, a).c
    BY <1>3, AddSubMeets
  <2>. HIDE DEF done, low
  <2>. QED BY <1>5, <2>1, <2>2
<1>7. done = low <=> done.c = low.c
  BY <1>6, AddSubIsRecord
<1>8. ins.op => (done.c = low.c <=> ~BorrowLost(ins, src))
  <2>. SUFFICES ASSUME ins.op PROVE done.c = low.c <=> ~BorrowLost(ins, src)
    OBVIOUS
  <2>1. done.c = (src >= b) /\ low.c = (a >= b)
    BY CarryOfSub DEF b
  <2>2. BorrowLost(ins, src) <=> src >= m /\ a < b
    BY DEF BorrowLost, m, a, b
  <2>3. src < m => a = src
    BY <1>1, SmallMod DEF a
  <2>4. (src >= b) = (a >= b) <=> ((src >= b) <=> (a >= b))
    BY <1>1, <1>2
  <2>5. ((src >= b) <=> (a >= b)) <=> ~(src >= m /\ a < b)
    BY <1>1, <1>2, <2>3
  <2>. HIDE DEF done, low
  <2>. QED BY <2>1, <2>2, <2>4, <2>5
<1>9. ~ins.op => ~BorrowLost(ins, src)
  BY DEF BorrowLost
<1>. QED BY <1>1, <1>4, <1>6, <1>7, <1>8, <1>9

-----------------------------------------------------------------------------
(* MOVZ, MOVK and MOVN *)

\* The base of MOV's fields; the other powers of two are products of it.
F == 2 ^ FieldBits

\* The number with four digits in base f, and the one with the fields d.
InBase(f, d0, d1, d2, d3) == d0 + f * d1 + (f * f) * d2 + (f * (f * f)) * d3
Number(d) == InBase(F, d[0], d[1], d[2], d[3])
Fields == [0..3 -> 0..(F - 1)]

LEMMA Base ==
  /\ F \in Nat \ {0} /\ 2 ^ W32 = F * F /\ 2 ^ W64 = (F * F) * (F * F)
  /\ 2 ^ (0 * FieldBits) = 1 /\ 2 ^ (1 * FieldBits) = F
  /\ 2 ^ (2 * FieldBits) = F * F /\ 2 ^ (3 * FieldBits) = F * (F * F)
  BY Powers DEF F

\* The digits of a number in base f.
LEMMA DigitsAreRead ==
  ASSUME NEW f \in Nat \ {0},
         NEW d0 \in 0..(f - 1), NEW d1 \in 0..(f - 1),
         NEW d2 \in 0..(f - 1), NEW d3 \in 0..(f - 1),
         NEW x, x = InBase(f, d0, d1, d2, d3)
  PROVE  /\ x \in 0..((f * f) * (f * f) - 1)
         /\ x % f = d0 /\ (x \div f) % f = d1
         /\ (x \div (f * f)) % f = d2 /\ (x \div (f * (f * f))) % f = d3
         /\ x % (f * f) = d0 + f * d1
<1>0a. PICK g \in Nat \ {0}, h \in Nat \ {0} : g = f * f /\ h = f * g
  OBVIOUS
<1>0b. x \in Int /\ x = d0 + f * d1 + g * d2 + h * d3
  BY <1>0a DEF InBase
<1>0d. x \in Int
  BY <1>0b
<1>1. PICK lo \in Int : lo = f * d1 + d0
  OBVIOUS
<1>2. PICK hi \in Int : hi = f * d3 + d2
  OBVIOUS
<1>3. PICK mid \in Int : mid = f * hi + d1
  BY <1>2
<1>4. g * hi = h * d3 + g * d2
  <2>1. g * hi = g * (f * d3 + d2)
    BY <1>2
  <2>2. g * (f * d3 + d2) = g * (f * d3) + g * d2
    OBVIOUS
  <2>3. g * (f * d3) = (f * g) * d3
    OBVIOUS
  <2>. QED BY <1>0a, <2>1, <2>2, <2>3
<1>5. x = g * hi + lo
  BY <1>0b, <1>1, <1>4
<1>6. f * mid = g * hi + f * d1
  <2>1. f * mid = f * (f * hi + d1)
    BY <1>3
  <2>2. f * (f * hi + d1) = (f * f) * hi + f * d1
    BY <1>2
  <2>. QED BY <1>0a, <2>1, <2>2
<1>7. x = f * mid + d0
  BY <1>1, <1>5, <1>6
<1>8. lo \in 0..(f * f - 1) /\ hi \in 0..(f * f - 1)
  BY <1>1, <1>2, Below
<1>9. lo \in 0..(g - 1) /\ hi \in 0..(g - 1)
  BY <1>0a, <1>8
<1>10. x \in 0..(g * g - 1)
  BY <1>5, <1>9, Below
<1>11. x \div f = mid /\ x % f = d0
  <2>1. d0 \in 0..(f - 1) /\ mid \in Int /\ x \in Int /\ x = f * mid + d0
    BY <1>0d, <1>7
  <2>. QED BY <2>1, DivModIs
<1>12. x \div g = hi /\ x % g = lo
  BY <1>0d, <1>5, <1>9, DivModIs
<1>13. mid % f = d1 /\ hi % f = d2
  <2>1. mid % f = d1
    BY <1>3, DivModIs
  <2>2. hi % f = d2
    BY <1>2, DivModIs
  <2>. QED BY <2>1, <2>2
<1>14. (x \div h) % f = d3
  <2>1. PICK s \in Int : s = g * d2 + lo
    BY <1>1
  <2>2. s \in 0..(g * f - 1)
    BY <1>9, <2>1, Below
  <2>3. g * f = h
    BY <1>0a
  <2>4. s \in 0..(h - 1) /\ x = h * d3 + s
    BY <1>0b, <1>1, <2>1, <2>2, <2>3
  <2>5. x \div h = d3
    BY <1>0d, <2>4, DivModIs
  <2>. QED BY <2>5, SmallMod
<1>15. x % g = d0 + f * d1
  BY <1>1, <1>12
<1>. QED BY <1>0a, <1>10, <1>11, <1>12, <1>13, <1>14, <1>15

LEMMA HasDigits ==
  ASSUME NEW f \in Nat \ {0}, NEW x \in 0..((f * f) * (f * f) - 1)
  PROVE  \E d0 \in 0..(f - 1), d1 \in 0..(f - 1), d2 \in 0..(f - 1), d3 \in 0..(f - 1) :
            x = InBase(f, d0, d1, d2, d3)
<1>0a. PICK g \in Nat \ {0}, h \in Nat \ {0} : g = f * f /\ h = f * g
  OBVIOUS
<1>0b. x \in 0..(g * g - 1) /\ x \in Int
  BY <1>0a
<1>1. PICK hi \in Int, lo \in 0..(g - 1) : x = g * hi + lo
  BY <1>0b, Quotient
<1>2. hi \in 0..(g - 1)
  <2>1. g * hi + lo \in 0..(g * g - 1)
    BY <1>0b, <1>1
  <2>. QED BY <2>1, Below
<1>2a. lo \in Int
  BY <1>1
<1>3. PICK d1 \in Int, d0 \in 0..(f - 1) : lo = f * d1 + d0
  BY <1>2a, Quotient
<1>4. PICK d3 \in Int, d2 \in 0..(f - 1) : hi = f * d3 + d2
  BY Quotient
<1>5. lo \in 0..(f * f - 1) /\ hi \in 0..(f * f - 1)
  BY <1>0a, <1>1, <1>2
<1>6. d1 \in 0..(f - 1)
  BY <1>3, <1>5, Below
<1>7. d3 \in 0..(f - 1)
  BY <1>4, <1>5, Below
<1>8. g * hi = h * d3 + g * d2
  <2>1. g * hi = g * (f * d3 + d2)
    BY <1>4
  <2>2. g * (f * d3 + d2) = g * (f * d3) + g * d2
    BY <1>4
  <2>3. g * (f * d3) = (f * g) * d3
    BY <1>4
  <2>. QED BY <1>0a, <2>1, <2>2, <2>3
<1>9. x = d0 + f * d1 + g * d2 + h * d3
  BY <1>1, <1>3, <1>4, <1>8
<1>10. x = InBase(f, d0, d1, d2, d3)
  BY <1>0a, <1>9 DEF InBase
<1>. QED BY <1>3, <1>4, <1>6, <1>7, <1>10

\* The fields of a number are what Field reads.
LEMMA FieldsAreRead ==
  ASSUME NEW d \in Fields
  PROVE  /\ Number(d) \in Value
         /\ \A f \in 0..3 : Field(Number(d), f) = d[f]
         /\ Number(d) % 2 ^ W32 = d[0] + F * d[1]
<1>1. /\ d[0] \in 0..(F - 1) /\ d[1] \in 0..(F - 1)
      /\ d[2] \in 0..(F - 1) /\ d[3] \in 0..(F - 1)
  BY DEF Fields
<1>. DEFINE x == Number(d)
<1>2. /\ x \in 0..((F * F) * (F * F) - 1)
      /\ x % F = d[0] /\ (x \div F) % F = d[1]
      /\ (x \div (F * F)) % F = d[2] /\ (x \div (F * (F * F))) % F = d[3]
      /\ x % (F * F) = d[0] + F * d[1]
  <2>1. F \in Nat \ {0} /\ x = InBase(F, d[0], d[1], d[2], d[3])
    BY Base DEF Number
  <2>. HIDE DEF x
  <2>. DEFINE d0 == d[0]
             d1 == d[1]
             d2 == d[2]
             d3 == d[3]
  <2>2. /\ d0 \in 0..(F - 1) /\ d1 \in 0..(F - 1) /\ d2 \in 0..(F - 1) /\ d3 \in 0..(F - 1)
        /\ F \in Nat \ {0} /\ x = InBase(F, d0, d1, d2, d3)
    BY <1>1, <2>1
  <2>. HIDE DEF d0, d1, d2, d3
  <2>3. /\ x \in 0..((F * F) * (F * F) - 1)
        /\ x % F = d0 /\ (x \div F) % F = d1
        /\ (x \div (F * F)) % F = d2 /\ (x \div (F * (F * F))) % F = d3
        /\ x % (F * F) = d0 + F * d1
    BY <2>2, DigitsAreRead
  <2>. QED BY <2>3 DEF d0, d1, d2, d3
<1>. HIDE DEF x
<1>3. x \div 1 = x
  BY <1>2, Base
<1>4. Field(x, 0) = d[0] /\ Field(x, 1) = d[1] /\ Field(x, 2) = d[2] /\ Field(x, 3) = d[3]
  BY <1>2, <1>3, Base DEF Field, F
<1>5. \A f \in 0..3 : f = 0 \/ f = 1 \/ f = 2 \/ f = 3
  OBVIOUS
<1>6. x \in Value /\ x % 2 ^ W32 = d[0] + F * d[1]
  BY <1>2, Base DEF Value
<1>. QED BY <1>4, <1>5, <1>6 DEF x

\* Every value has fields.
LEMMA HasFields ==
  ASSUME NEW x \in Value
  PROVE  \E d \in Fields : x = Number(d)
<1>1. F \in Nat \ {0} /\ x \in 0..((F * F) * (F * F) - 1)
  BY Base DEF Value
<1>2. PICK d0 \in 0..(F - 1), d1 \in 0..(F - 1), d2 \in 0..(F - 1), d3 \in 0..(F - 1) :
        x = InBase(F, d0, d1, d2, d3)
  BY <1>1, HasDigits
<1>. DEFINE d == [i \in 0..3 |-> CASE i = 0 -> d0 [] i = 1 -> d1 [] i = 2 -> d2 [] OTHER -> d3]
<1>4. d[0] = d0 /\ d[1] = d1 /\ d[2] = d2 /\ d[3] = d3
  OBVIOUS
<1>5. d \in Fields
  BY DEF Fields
<1>. HIDE DEF d
<1>6. Number(d) = x
  BY <1>2, <1>4 DEF Number
<1>. QED BY <1>5, <1>6

\* Replacing one field of a number.
LEMMA FieldReplaced ==
  ASSUME NEW d \in Fields, NEW i \in 0..3, NEW v \in 0..(F - 1)
  PROVE  /\ [d EXCEPT ![i] = v] \in Fields
         /\ Number([d EXCEPT ![i] = v])
              = Number(d) - d[i] * 2 ^ (i * FieldBits) + v * 2 ^ (i * FieldBits)
<1>1. /\ d[0] \in 0..(F - 1) /\ d[1] \in 0..(F - 1)
      /\ d[2] \in 0..(F - 1) /\ d[3] \in 0..(F - 1) /\ F \in Nat \ {0}
  BY Base DEF Fields
<1>. DEFINE e == [d EXCEPT ![i] = v]
<1>2. /\ e \in Fields
      /\ e[0] = (IF i = 0 THEN v ELSE d[0]) /\ e[1] = (IF i = 1 THEN v ELSE d[1])
      /\ e[2] = (IF i = 2 THEN v ELSE d[2]) /\ e[3] = (IF i = 3 THEN v ELSE d[3])
  BY DEF Fields
<1>. HIDE DEF e
<1>. DEFINE g == F * F
           h == F * (F * F)
<1>3. g \in Int /\ h \in Int
  BY <1>1
<1>4. /\ 2 ^ (0 * FieldBits) = 1 /\ 2 ^ (1 * FieldBits) = F
      /\ 2 ^ (2 * FieldBits) = g /\ 2 ^ (3 * FieldBits) = h
  BY Base
<1>5. /\ Number(d) = d[0] + F * d[1] + g * d[2] + h * d[3]
      /\ Number(e) = e[0] + F * e[1] + g * e[2] + h * e[3]
  BY DEF Number, InBase
<1>. HIDE DEF g, h
<1>. DEFINE d0 == d[0]
           d1 == d[1]
           d2 == d[2]
           d3 == d[3]
           x == Number(d)
           y == Number(e)
<1>6. /\ d0 \in Int /\ d1 \in Int /\ d2 \in Int /\ d3 \in Int /\ F \in Int
      /\ x = d0 + F * d1 + g * d2 + h * d3
  BY <1>1, <1>5
<1>7. /\ i = 0 => d[i] = d0 /\ y = v + F * d1 + g * d2 + h * d3
      /\ i = 1 => d[i] = d1 /\ y = d0 + F * v + g * d2 + h * d3
      /\ i = 2 => d[i] = d2 /\ y = d0 + F * d1 + g * v + h * d3
      /\ i = 3 => d[i] = d3 /\ y = d0 + F * d1 + g * d2 + h * v
  BY <1>2, <1>5
<1>. HIDE DEF d0, d1, d2, d3, x, y
<1>8. y = x - d[i] * 2 ^ (i * FieldBits) + v * 2 ^ (i * FieldBits)
  <2>1. CASE i = 0
    <3>1. y = x - d0 * 1 + v * 1
      BY <1>3, <1>6, <1>7, <2>1
    <3>. QED BY <1>4, <1>7, <2>1, <3>1
  <2>2. CASE i = 1
    <3>1. y = x - d1 * F + v * F
      BY <1>3, <1>6, <1>7, <2>2
    <3>. QED BY <1>4, <1>7, <2>2, <3>1
  <2>3. CASE i = 2
    <3>1. y = x - d2 * g + v * g
      BY <1>3, <1>6, <1>7, <2>3
    <3>. QED BY <1>4, <1>7, <2>3, <3>1
  <2>4. CASE i = 3
    <3>1. y = x - d3 * h + v * h
      BY <1>3, <1>6, <1>7, <2>4
    <3>. QED BY <1>4, <1>7, <2>4, <3>1
  <2>5. i = 0 \/ i = 1 \/ i = 2 \/ i = 3
    OBVIOUS
  <2>. QED BY <2>1, <2>2, <2>3, <2>4, <2>5
<1>. QED BY <1>2, <1>8 DEF e, x, y

Zeros == [i \in 0..3 |-> 0]
Ones == [i \in 0..3 |-> F - 1]

LEMMA ZerosAndOnes ==
  /\ Zeros \in Fields /\ Number(Zeros) = 0
  /\ Ones \in Fields /\ Number(Ones) = 2 ^ W64 - 1
<1>1. F \in Nat \ {0} /\ 2 ^ W64 = (F * F) * (F * F)
  BY Base
<1>2. Zeros \in Fields /\ Ones \in Fields
  BY <1>1 DEF Zeros, Ones, Fields
<1>3. Number(Zeros) = 0
  <2>1. Number(Zeros) = 0 + F * 0 + (F * F) * 0 + (F * (F * F)) * 0
    BY DEF Zeros, Number, InBase
  <2>. QED BY <1>1, <2>1
<1>4. Number(Ones) = (F * F) * (F * F) - 1
  <2>1. Number(Ones) = (F - 1) + F * (F - 1) + (F * F) * (F - 1) + (F * (F * F)) * (F - 1)
    BY DEF Ones, Number, InBase
  <2>. QED BY <1>1, <2>1
<1>. QED BY <1>1, <1>2, <1>3, <1>4

\* The lower two fields of a number.
LowHalf(d) == [i \in 0..3 |-> IF i < 2 THEN d[i] ELSE 0]

LEMMA LowHalfIs ==
  ASSUME NEW d \in Fields
  PROVE  LowHalf(d) \in Fields /\ Number(d) % 2 ^ W32 = Number(LowHalf(d))
<1>1. d[0] \in 0..(F - 1) /\ d[1] \in 0..(F - 1) /\ F \in Nat \ {0}
  BY Base DEF Fields
<1>2. LowHalf(d) \in Fields
  BY Base DEF LowHalf, Fields
<1>3. Number(LowHalf(d)) = d[0] + F * d[1] + (F * F) * 0 + (F * (F * F)) * 0
  BY DEF LowHalf, Number, InBase
<1>4. Number(LowHalf(d)) = d[0] + F * d[1]
  BY <1>1, <1>3
<1>. QED BY <1>2, <1>4, FieldsAreRead

IsMovWide(ins) ==
  /\ ins.sf \in BOOLEAN
  /\ ins.opc \in {0, 2, 3}
  /\ ins.hw \in {field * FieldBits : field \in 0..3}
  /\ ins.imm \in 0..(2 ^ FieldBits - 1)

\* MOVZ, MOVK and MOVN work field by field, on every value.
LEMMA MovWideMeets ==
  ASSUME NEW ins, IsMovWide(ins), NEW old \in Value
  PROVE  /\ MovWide(ins, old) \in Value
         /\ \A f \in 0..3 :
              LET ones == 2 ^ FieldBits - 1
                  named == IF ins.opc = 0 THEN ones - ins.imm ELSE ins.imm
                  other == IF ins.opc = 2 THEN 0
                           ELSE IF ins.opc = 3 THEN Field(old, f) ELSE ones
              IN Field(MovWide(ins, old), f) =
                   IF ~ins.sf /\ f >= 2 THEN 0
                   ELSE IF ins.hw = f * FieldBits THEN named ELSE other
<1>1. PICK d \in Fields : old = Number(d)
  BY HasFields
<1>2. PICK i \in 0..3 : ins.hw = i * FieldBits
  BY DEF IsMovWide
<1>. DEFINE at == 2 ^ ins.hw
           v == IF ins.opc = 0 THEN F - 1 - ins.imm ELSE ins.imm
           from == IF ins.opc = 2 THEN Zeros ELSE IF ins.opc = 3 THEN d ELSE Ones
           e == [from EXCEPT ![i] = v]
           value == CASE ins.opc = 2 -> ins.imm * at
                      [] ins.opc = 3 -> old - ((old \div at) % 2 ^ FieldBits) * at + ins.imm * at
                      [] ins.opc = 0 -> 2 ^ W64 - 1 - ins.imm * at
           after == IF ins.sf THEN e ELSE LowHalf(e)
<1>3. MovWide(ins, old) = IF ins.sf THEN value ELSE value % 2 ^ W32
  BY DEF MovWide
<1>4. /\ ins.sf \in BOOLEAN /\ ins.opc \in {0, 2, 3}
      /\ ins.imm \in 0..(F - 1) /\ F \in Nat \ {0} /\ 2 ^ FieldBits = F
  BY Base DEF IsMovWide, F
<1>5. v \in 0..(F - 1)
  BY <1>4
<1>6. from \in Fields
  BY <1>4, ZerosAndOnes
<1>7. at = 2 ^ (i * FieldBits) /\ at \in Int
  <2>1. i = 0 \/ i = 1 \/ i = 2 \/ i = 3
    OBVIOUS
  <2>2. F * F \in Int /\ F * (F * F) \in Int
    BY <1>4
  <2>. QED BY <1>2, <1>4, <2>1, <2>2, Base
<1>. HIDE DEF at
<1>8. e \in Fields /\ Number(e) = Number(from) - from[i] * at + v * at
  <2>. HIDE DEF from, v
  <2>. QED BY <1>5, <1>6, <1>7, FieldReplaced
<1>9. value = Number(e)
  <2>1. CASE ins.opc = 2
    <3>1. from = Zeros /\ v = ins.imm /\ value = ins.imm * at /\ Zeros[i] = 0
      BY <2>1 DEF Zeros
    <3>2. Number(e) = 0 - 0 * at + ins.imm * at
      BY <1>8, <3>1, ZerosAndOnes
    <3>. QED BY <1>4, <1>7, <3>1, <3>2
  <2>2. CASE ins.opc = 3
    <3>1. from = d /\ v = ins.imm
          /\ value = old - ((old \div at) % 2 ^ FieldBits) * at + ins.imm * at
      BY <2>2
    <3>2. (old \div at) % 2 ^ FieldBits = d[i]
      BY <1>1, <1>7, FieldsAreRead DEF Field
    <3>. QED BY <1>1, <1>8, <3>1, <3>2
  <2>3. CASE ins.opc = 0
    <3>1. from = Ones /\ v = F - 1 - ins.imm /\ value = 2 ^ W64 - 1 - ins.imm * at /\ Ones[i] = F - 1
      BY <2>3 DEF Ones
    <3>2. Number(e) = (2 ^ W64 - 1) - (F - 1) * at + (F - 1 - ins.imm) * at
      BY <1>8, <3>1, ZerosAndOnes
    <3>3. (F - 1 - ins.imm) * at = (F - 1) * at - ins.imm * at
      BY <1>4, <1>7
    <3>4. 2 ^ W64 \in Int /\ (F - 1) * at \in Int /\ ins.imm * at \in Int
      <4>1. (F * F) * (F * F) \in Int
        BY <1>4
      <4>. QED BY <1>4, <1>7, <4>1, Base
    <3>. DEFINE w == 2 ^ W64
               p == (F - 1) * at
               q == ins.imm * at
               y == Number(e)
    <3>5. y = w - 1 - p + (p - q) /\ value = w - 1 - q /\ {w, p, q} \subseteq Int
      BY <3>1, <3>2, <3>3, <3>4
    <3>. HIDE DEF w, p, q, y, value
    <3>. QED BY <3>5 DEF y
  <2>. QED BY <1>4, <2>1, <2>2, <2>3
<1>10. after \in Fields /\ MovWide(ins, old) = Number(after)
  <2>. HIDE DEF e, value
  <2>. QED BY <1>3, <1>4, <1>8, <1>9, LowHalfIs
<1>11. MovWide(ins, old) \in Value /\ \A f \in 0..3 : Field(MovWide(ins, old), f) = after[f]
  <2>. HIDE DEF after
  <2>. QED BY <1>10, FieldsAreRead
<1>12. ASSUME NEW f \in 0..3 PROVE (ins.hw = f * FieldBits) <=> f = i
  <2>1. FieldBits \in Nat \ {0}
    BY WidthAssumption
  <2>2. (f = 0 \/ f = 1 \/ f = 2 \/ f = 3) /\ (i = 0 \/ i = 1 \/ i = 2 \/ i = 3)
    OBVIOUS
  <2>. QED BY <1>2, <2>1, <2>2
<1>13. ASSUME NEW f \in 0..3
       PROVE  after[f] = IF ~ins.sf /\ f >= 2 THEN 0
                         ELSE IF f = i THEN v ELSE from[f]
  <2>1. e[f] = IF f = i THEN v ELSE from[f]
    <3>. HIDE DEF from, v
    <3>. QED BY <1>6 DEF Fields
  <2>. HIDE DEF e
  <2>. QED BY <1>4, <2>1 DEF LowHalf
<1>14. ASSUME NEW f \in 0..3
       PROVE  from[f] = IF ins.opc = 2 THEN 0
                        ELSE IF ins.opc = 3 THEN Field(old, f) ELSE 2 ^ FieldBits - 1
  <2>1. Zeros[f] = 0 /\ Ones[f] = 2 ^ FieldBits - 1 /\ Field(old, f) = d[f]
    BY <1>1, <1>4, FieldsAreRead DEF Zeros, Ones
  <2>. QED BY <1>4, <2>1
<1>15. v = IF ins.opc = 0 THEN 2 ^ FieldBits - 1 - ins.imm ELSE ins.imm
  BY <1>4
<1>. HIDE DEF after, from, v
<1>. QED BY <1>11, <1>12, <1>13, <1>14, <1>15

-----------------------------------------------------------------------------
(* Types *)

\* The register files of CpuTypeOK.
RegisterFiles == [x : [Gprs -> Value], sp : Value, pc : 0..(AddrSpace - 1),
                  n : BOOLEAN, z : BOOLEAN, c : BOOLEAN, v : BOOLEAN]

Addresses == 0..(AddrSpace - 1)

LEMMA ZeroIsValue == 0 \in Value
<1>1. PICK g \in Nat \ {0} : g = F * F
  BY Base
<1>2. g * g \in Nat \ {0} /\ 2 ^ W64 = g * g
  BY <1>1, Base
<1>. QED BY <1>2 DEF Value

LEMMA ReadIsValue ==
  ASSUME NEW x \in [Gprs -> Value], NEW i \in Gprs \cup {ZR}
  PROVE  Read(x, i) \in Value
  BY ZeroIsValue DEF Read

LEMMA WriteIsFile ==
  ASSUME NEW x \in [Gprs -> Value], NEW i \in Gprs \cup {ZR}, NEW v \in Value
  PROVE  Write(x, i, v) \in [Gprs -> Value] /\ (i # ZR => Write(x, i, v)[i] = v)
  BY DEF Write

LEMMA FlagsType ==
  ASSUME NEW r \in RegisterFiles,
         NEW n \in BOOLEAN, NEW z \in BOOLEAN, NEW c \in BOOLEAN, NEW v \in BOOLEAN
  PROVE  /\ WithFlags(r, n, z, c, v) \in RegisterFiles
         /\ WithFlags(r, n, z, c, v).x = r.x
         /\ WithFlags(r, n, z, c, v).n = n /\ WithFlags(r, n, z, c, v).z = z
         /\ WithFlags(r, n, z, c, v).c = c /\ WithFlags(r, n, z, c, v).v = v
  BY DEF WithFlags, RegisterFiles

\* What ADD and SUB leave.
LEMMA AddSubEffect ==
  ASSUME NEW r \in RegisterFiles, NEW ins, IsInstruction(ins, Gprs), ins.kind = "AddSub"
  PROVE  LET after == execute_instruction(r, ins)
             src == Read(r.x, ins.rn)
             done == AddSub(ins, src)
         IN /\ src \in Value /\ IsAddSub(ins)
            /\ after \in RegisterFiles
            /\ ins.rd # ZR => after.x[ins.rd] = done.value
            /\ ins.s => /\ after.n = done.n /\ after.z = done.z
                        /\ after.c = done.c /\ after.v = done.v
<1>. DEFINE src == Read(r.x, ins.rn)
           done == AddSub(ins, src)
           w == [r EXCEPT !.x = Write(r.x, ins.rd, done.value)]
           flagged == WithFlags(w, done.n, done.z, done.c, done.v)
<1>1. /\ IsAddSub(ins) /\ ins.rd \in Gprs \cup {ZR} /\ ins.rn \in Gprs \cup {ZR}
      /\ ins.s \in BOOLEAN
  BY DEF IsInstruction, IsAddSub
<1>2. src \in Value
  BY <1>1, ReadIsValue DEF RegisterFiles
<1>3. done.value \in Value /\ {done.n, done.z, done.c, done.v} \subseteq BOOLEAN
  <2>. HIDE DEF src
  <2>. QED BY <1>1, <1>2, AddSubMeets
<1>4. execute_instruction(r, ins) = IF ins.s THEN flagged ELSE w
  BY DEF execute_instruction, WithFlags
<1>. HIDE DEF done, src
<1>5. w \in RegisterFiles /\ (ins.rd # ZR => w.x[ins.rd] = done.value)
  <2>1. r.x \in [Gprs -> Value]
    BY DEF RegisterFiles
  <2>2. /\ Write(r.x, ins.rd, done.value) \in [Gprs -> Value]
        /\ ins.rd # ZR => Write(r.x, ins.rd, done.value)[ins.rd] = done.value
    BY <1>1, <1>3, <2>1, WriteIsFile
  <2>. QED BY <2>2 DEF RegisterFiles
<1>. HIDE DEF w
<1>6. /\ flagged \in RegisterFiles /\ flagged.x = w.x
      /\ flagged.n = done.n /\ flagged.z = done.z /\ flagged.c = done.c /\ flagged.v = done.v
  <2>. DEFINE n == done.n
             z == done.z
             c == done.c
             v == done.v
  <2>1. n \in BOOLEAN /\ z \in BOOLEAN /\ c \in BOOLEAN /\ v \in BOOLEAN
    BY <1>3
  <2>. HIDE DEF n, z, c, v
  <2>2. LET new == WithFlags(w, n, z, c, v)
        IN /\ new \in RegisterFiles /\ new.x = w.x
           /\ new.n = n /\ new.z = z /\ new.c = c /\ new.v = v
    BY <1>5, <2>1, FlagsType
  <2>. QED BY <2>2 DEF n, z, c, v
<1>. HIDE DEF flagged
<1>. QED BY <1>1, <1>2, <1>4, <1>5, <1>6 DEF done, src

\* What MOVZ, MOVK and MOVN leave.
LEMMA MovWideEffect ==
  ASSUME NEW r \in RegisterFiles, NEW ins, IsInstruction(ins, Gprs), ins.kind = "MovWide",
         ins.opc # 1
  PROVE  LET after == execute_instruction(r, ins)
             old == Read(r.x, ins.rd)
         IN /\ old \in Value /\ IsMovWide(ins)
            /\ after \in RegisterFiles
            /\ ins.rd # ZR => after.x[ins.rd] = MovWide(ins, old)
<1>. DEFINE old == Read(r.x, ins.rd)
           done == MovWide(ins, old)
           w == [r EXCEPT !.x = Write(r.x, ins.rd, done)]
<1>1. IsMovWide(ins) /\ ins.rd \in Gprs \cup {ZR}
  BY DEF IsInstruction, IsMovWide
<1>2. r.x \in [Gprs -> Value]
  BY DEF RegisterFiles
<1>3. old \in Value
  BY <1>1, <1>2, ReadIsValue
<1>4. done \in Value
  <2>. HIDE DEF old
  <2>. QED BY <1>1, <1>3, MovWideMeets
<1>5. execute_instruction(r, ins) = w
  BY DEF execute_instruction
<1>. HIDE DEF old, done
<1>6. w \in RegisterFiles /\ (ins.rd # ZR => w.x[ins.rd] = done)
  <2>1. /\ Write(r.x, ins.rd, done) \in [Gprs -> Value]
        /\ ins.rd # ZR => Write(r.x, ins.rd, done)[ins.rd] = done
    BY <1>1, <1>2, <1>4, WriteIsFile
  <2>. QED BY <2>1 DEF RegisterFiles
<1>. HIDE DEF w
<1>. QED BY <1>1, <1>3, <1>5, <1>6 DEF done, old

LEMMA ExecuteType ==
  ASSUME NEW r \in RegisterFiles, NEW ins \in Instructions
  PROVE  execute_instruction(r, ins) \in RegisterFiles
<1>1. IsInstruction(ins, Gprs)
  BY InstructionsAssumption
<1>2. CASE ins.kind = "AddSub"
  BY <1>1, <1>2, AddSubEffect
<1>3. CASE ins.kind = "MovWide" /\ ins.opc # 1
  BY <1>1, <1>3, MovWideEffect
<1>4. CASE ins.kind # "AddSub" /\ ~(ins.kind = "MovWide" /\ ins.opc # 1)
  BY <1>4 DEF execute_instruction
<1>. QED BY <1>2, <1>3, <1>4

LEMMA InitType == Init => CpuTypeOK
<1>. SUFFICES ASSUME Init PROVE CpuTypeOK
  OBVIOUS
<1>1. regs \in RegisterFiles
  BY ZeroIsValue, MemoryAssumption DEF Init, New, RegisterFiles
<1>. QED BY <1>1 DEF Init, New, CpuTypeOK, RegisterFiles

LEMMA Wraps ==
  ASSUME NEW pc \in Addresses
  PROVE  (pc + 4) % AddrSpace \in Addresses
  BY MemoryAssumption DEF Addresses

\* What a fetch finds decodes to an instruction.
LEMMA CodeType ==
  ASSUME CpuTypeOK, Fetchable(regs.pc), FetchedWord # Undecodable
  PROVE  FetchedWord \in Instructions
<1>. DEFINE base == as_usize(regs.pc)
<1>1. base \in Nat
  BY MemoryAssumption, DivMod DEF CpuTypeOK, as_usize
<1>2. base + 4 <= Size
  BY DEF Fetchable
<1>. HIDE DEF base
<1>3. base \in 0..(Size - 4)
  BY <1>1, <1>2, MemoryAssumption
<1>4. code \in [0..(Size - 4) -> Instructions \cup {Undecodable}]
  BY MemoryAssumption DEF CpuTypeOK
<1>. QED BY <1>3, <1>4 DEF FetchedWord, base

LEMMA BodyType ==
  ASSUME CpuTypeOK, NEW answer, StepBody(answer)
  PROVE  regs' \in RegisterFiles /\ halted' \in BOOLEAN /\ answer \in Answers
<1>1. CASE Fails("MemoryFault", answer) \/ Fails("UnknownInstruction", answer)
           \/ Fails("Panic", answer)
  BY <1>1 DEF Fails, CpuTypeOK, RegisterFiles, Answers
<1>2. CASE /\ Fetchable(regs.pc) /\ FetchedWord # Undecodable
           /\ Completes(FetchedWord, answer)
  <2>. DEFINE ins == FetchedWord
             after == execute_instruction(regs, ins)
             moved == [after EXCEPT !.pc = (regs.pc + 4) % AddrSpace]
  <2>1. ins \in Instructions
    BY <1>2, CodeType
  <2>2. regs \in RegisterFiles /\ regs.pc \in Addresses
    BY DEF CpuTypeOK, RegisterFiles, Addresses
  <2>3. after \in RegisterFiles
    <3>. HIDE DEF ins
    <3>. QED BY <2>1, <2>2, ExecuteType
  <2>4. /\ regs' = IF halted' THEN after ELSE moved
        /\ halted' = (halted \/ Halts(ins))
        /\ answer = IF halted' THEN "Halt" ELSE "Ok"
    BY <1>2 DEF Completes
  <2>. HIDE DEF after
  <2>5. moved \in RegisterFiles
    BY <2>2, <2>3, Wraps DEF RegisterFiles, Addresses
  <2>. HIDE DEF moved
  <2>6. halted' \in BOOLEAN
    BY <2>4 DEF CpuTypeOK, Halts
  <2>. QED BY <2>3, <2>4, <2>5, <2>6 DEF Answers
<1>. QED BY <1>1, <1>2 DEF StepBody

LEMMA SettingType ==
  ASSUME CpuTypeOK, NEW r \in RegisterFiles, Setting(r)
  PROVE  CpuTypeOK'
  BY DEF Setting, CpuTypeOK, RegisterFiles

LEMMA NextType == CpuTypeOK /\ [Next]_vars => CpuTypeOK'
<1>. SUFFICES ASSUME CpuTypeOK, [Next]_vars PROVE CpuTypeOK'
  OBVIOUS
<1>0. regs \in RegisterFiles
  BY DEF CpuTypeOK, RegisterFiles
<1>1. ASSUME NEW v \in RegValues, NEW i \in Gprs, write_reg(i, v)
      PROVE  CpuTypeOK'
  <2>. DEFINE r == [regs EXCEPT !.x[i] = v]
  <2>1. r \in RegisterFiles
    BY <1>0, RegistersAssumption DEF RegisterFiles
  <2>. QED BY <1>1, <2>1, SettingType DEF write_reg
<1>2. ASSUME NEW v \in RegValues, write_sp(v)
      PROVE  CpuTypeOK'
  <2>. DEFINE r == [regs EXCEPT !.sp = v]
  <2>1. r \in RegisterFiles
    BY <1>0, RegistersAssumption DEF RegisterFiles
  <2>. QED BY <1>2, <2>1, SettingType DEF write_sp
<1>3. ASSUME NEW v \in PcValues, write_pc(v)
      PROVE  CpuTypeOK'
  <2>. DEFINE r == [regs EXCEPT !.pc = v]
  <2>1. r \in RegisterFiles
    BY <1>0, RegistersAssumption DEF RegisterFiles
  <2>. QED BY <1>3, <2>1, SettingType DEF write_pc
<1>4. ASSUME NEW f \in FlagValues, set_flags(f)
      PROVE  CpuTypeOK'
  <2>1. f \in [n : BOOLEAN, z : BOOLEAN, c : BOOLEAN, v : BOOLEAN]
    BY RegistersAssumption
  <2>. DEFINE r == WithFlags(regs, f.n, f.z, f.c, f.v)
  <2>2. r \in RegisterFiles
    BY <1>0, <2>1, FlagsType
  <2>3. Setting(r)
    BY <1>4 DEF set_flags
  <2>. HIDE DEF r
  <2>. QED BY <2>2, <2>3, SettingType
<1>5. ASSUME NEW p \in PstateValues, write_pstate(p)
      PROVE  CpuTypeOK'
  <2>. DEFINE r == WithFlags(regs, Bit(p, W32 - 1), Bit(p, W32 - 2),
                            Bit(p, W32 - 3), Bit(p, W32 - 4))
  <2>1. /\ Bit(p, W32 - 1) \in BOOLEAN /\ Bit(p, W32 - 2) \in BOOLEAN
        /\ Bit(p, W32 - 3) \in BOOLEAN /\ Bit(p, W32 - 4) \in BOOLEAN
    BY DEF Bit
  <2>2. r \in RegisterFiles
    BY <1>0, <2>1, FlagsType
  <2>3. Setting(r)
    BY <1>5 DEF write_pstate
  <2>. HIDE DEF r
  <2>. QED BY <2>2, <2>3, SettingType
<1>6. ASSUME NEW c \in Codes, WriteMemory(c)
      PROVE  CpuTypeOK'
  BY <1>6 DEF WriteMemory, CpuTypeOK
<1>7. ASSUME NEW ins \in Instructions, execute(ins)
      PROVE  CpuTypeOK'
  <2>1. regs' \in RegisterFiles
    BY <1>0, <1>7, ExecuteType DEF execute
  <2>. QED BY <1>7, <2>1 DEF execute, CpuTypeOK, RegisterFiles, Halts, Answers
<1>8. CASE step
  <2>1. StepBody(result') /\ UNCHANGED <<code, running>>
    BY <1>8 DEF step
  <2>2. regs' \in RegisterFiles /\ halted' \in BOOLEAN /\ result' \in Answers
    BY <2>1, BodyType
  <2>. QED BY <2>1, <2>2 DEF CpuTypeOK, RegisterFiles
<1>9. CASE RunLoop
  <2>1. PICK answer \in Answers : StepBody(answer) /\ running' = (answer = "Ok")
          /\ result' = IF answer = "Halt" THEN "Ok" ELSE answer
    BY <1>9 DEF RunLoop
  <2>2. regs' \in RegisterFiles /\ halted' \in BOOLEAN
    BY <2>1, BodyType
  <2>3. result' \in Answers /\ running' \in BOOLEAN /\ code' = code
    BY <1>9, <2>1 DEF RunLoop, Answers
  <2>. QED BY <2>2, <2>3 DEF CpuTypeOK, RegisterFiles
<1>10. CASE run
  BY <1>10 DEF run, CpuTypeOK
<1>11. CASE UNCHANGED vars
  BY <1>11 DEF vars, CpuTypeOK
<1>. QED BY <1>1, <1>2, <1>3, <1>4, <1>5, <1>6, <1>7, <1>8, <1>9, <1>10, <1>11 DEF Next, Caller

\* The type invariant: a register never holds more than its 64 bits and PC is
\* always an address, where executor.rs:50, :63 and cpu.rs:178 wrap.
THEOREM CpuTypeOKHolds == Spec => []CpuTypeOK
  BY InitType, NextType, PTL DEF Spec

-----------------------------------------------------------------------------
(* PSTATE *)

\* One more bit of a number.
LEMMA OneBitMore ==
  ASSUME NEW m \in Nat \ {0}, NEW p \in Nat
  PROVE  p % (2 * m) = m * ((p \div m) % 2) + (p % m)
<1>. DEFINE k == p \div m
           r == p % m
           j == k \div 2
           t == k % 2
<1>1. k \in Int /\ r \in Nat /\ r < m /\ p = m * k + r
  BY DivMod
<1>. HIDE DEF k, r
<1>2. j \in Int /\ t \in {0, 1} /\ k = 2 * j + t
  BY <1>1
<1>. HIDE DEF j, t
<1>3. m * t + r \in 0..(2 * m - 1)
  BY <1>1, <1>2
<1>4. p = (2 * m) * j + (m * t + r)
  <2>1. m * k = m * (2 * j) + m * t
    BY <1>1, <1>2
  <2>2. m * (2 * j) = (2 * m) * j
    BY <1>2
  <2>. QED BY <1>1, <1>2, <2>1, <2>2
<1>5. p % (2 * m) = m * t + r
  <2>. DEFINE mm == 2 * m
             rr == m * t + r
  <2>1. mm \in Nat \ {0} /\ rr \in 0..(mm - 1) /\ p = mm * j + rr /\ p \in Int
    BY <1>3, <1>4
  <2>. HIDE DEF mm, rr
  <2>2. p % mm = rr
    BY <1>2, <2>1, DivModIs
  <2>. QED BY <2>2 DEF mm, rr
<1>. QED BY <1>5 DEF t, k, r

\* The weights of the four flags.
LEMMA FlagWeights ==
  /\ 2 ^ (W32 - 4) \in Nat \ {0} /\ 2 ^ (W32 - 3) = 2 * 2 ^ (W32 - 4)
  /\ 2 ^ (W32 - 2) = 4 * 2 ^ (W32 - 4) /\ 2 ^ (W32 - 1) = 8 * 2 ^ (W32 - 4)
  /\ 2 ^ W32 = 16 * 2 ^ (W32 - 4)
<1>1. \A k \in 1..4 : /\ W32 - k \in 0..(W64 - 1) /\ W32 - k \in 0..W64
                      /\ (W32 - k) + 1 = W32 - (k - 1)
  BY WidthsAreNatural, WidthAssumption
<1>2. \A k \in 1..4 : 2 ^ (W32 - (k - 1)) = 2 * 2 ^ (W32 - k)
  <2>. SUFFICES ASSUME NEW k \in 1..4
                PROVE  2 ^ (W32 - (k - 1)) = 2 * 2 ^ (W32 - k)
    OBVIOUS
  <2>1. 2 ^ ((W32 - k) + 1) = 2 * 2 ^ (W32 - k)
    BY <1>1, PowersAssumption
  <2>. QED BY <1>1, <2>1
<1>3. 2 ^ (W32 - 4) \in Nat \ {0}
  BY <1>1, PowerIsPositive
<1>4. /\ 2 ^ (W32 - (1 - 1)) = 2 * 2 ^ (W32 - 1)
      /\ 2 ^ (W32 - (2 - 1)) = 2 * 2 ^ (W32 - 2)
      /\ 2 ^ (W32 - (3 - 1)) = 2 * 2 ^ (W32 - 3)
      /\ 2 ^ (W32 - (4 - 1)) = 2 * 2 ^ (W32 - 4)
  BY <1>2
<1>5. W32 - (1 - 1) = W32 /\ W32 - (2 - 1) = W32 - 1
      /\ W32 - (3 - 1) = W32 - 2 /\ W32 - (4 - 1) = W32 - 3
  BY WidthsAreNatural
<1>. QED BY <1>3, <1>4, <1>5

\* PSTATE reads as four bits, each of them its flag.
PstateShowsFlags ==
  /\ Bit(read_pstate, W32 - 1) = regs.n /\ Bit(read_pstate, W32 - 2) = regs.z
  /\ Bit(read_pstate, W32 - 3) = regs.c /\ Bit(read_pstate, W32 - 4) = regs.v
  /\ read_pstate < 2 ^ W32 /\ read_pstate % 2 ^ (W32 - 4) = 0

\* What is written to it is read back, but for the bits that are not flags.
PstateReadsBack ==
  [][\A p \in PstateValues :
       write_pstate(p) =>
         read_pstate' = Unsigned(p, W32) - Unsigned(p, W32 - 4)]_vars

\* The word with the flags n, z, c and v from bit weight q up.
FlagsWord(q, n, z, c, v) == (8 * q) * n + (4 * q) * z + (2 * q) * c + q * v

LEMMA BitsOfFlags ==
  ASSUME NEW q \in Nat \ {0},
         NEW n \in {0, 1}, NEW z \in {0, 1}, NEW c \in {0, 1}, NEW v \in {0, 1}
  PROVE  LET x == FlagsWord(q, n, z, c, v)
         IN /\ (x \div (8 * q)) % 2 = n /\ (x \div (4 * q)) % 2 = z
            /\ (x \div (2 * q)) % 2 = c /\ (x \div q) % 2 = v
            /\ x < 16 * q /\ x % q = 0
<1>0. PICK x, q2, q4, q8 :
        /\ x = FlagsWord(q, n, z, c, v) /\ x = q8 * n + q4 * z + q2 * c + q * v
        /\ q2 = 2 * q /\ q4 = 4 * q /\ q8 = 8 * q
  BY DEF FlagsWord
<1>1. /\ q8 \in Nat \ {0} /\ q4 \in Nat \ {0} /\ q2 \in Nat \ {0}
      /\ x \in Int /\ x < 16 * q
  BY <1>0
<1>2. /\ x = q8 * n + (q4 * z + q2 * c + q * v)
      /\ q4 * z + q2 * c + q * v \in 0..(q8 - 1)
  BY <1>0
<1>3. /\ x = q4 * (2 * n + z) + (q2 * c + q * v)
      /\ q2 * c + q * v \in 0..(q4 - 1)
  BY <1>0
<1>4. /\ x = q2 * (4 * n + 2 * z + c) + q * v
      /\ q * v \in 0..(q2 - 1)
  BY <1>0
<1>5. x = q * (8 * n + 4 * z + 2 * c + v) + 0 /\ 0 \in 0..(q - 1)
  BY <1>0
<1>6. x \div q8 = n
  BY <1>1, <1>2, DivModIs
<1>7. x \div q4 = 2 * n + z
  BY <1>1, <1>3, DivModIs
<1>8. x \div q2 = 4 * n + 2 * z + c
  BY <1>1, <1>4, DivModIs
<1>9. x \div q = 8 * n + 4 * z + 2 * c + v /\ x % q = 0
  BY <1>1, <1>5, DivModIs
<1>. QED BY <1>0, <1>1, <1>6, <1>7, <1>8, <1>9

\* PSTATE is the sum of the weights of the flags that are set.
LEMMA PackedIs ==
  ASSUME NEW flag, NEW n \in {0, 1}, flag = (n = 1), NEW bit,
         NEW w \in Nat, w = 2 ^ bit
  PROVE  Packed(flag, bit) = w * n
<1>1. CASE n = 1
  <2>1. flag
    BY <1>1
  <2>. QED BY <1>1, <2>1 DEF Packed
<1>2. CASE n = 0
  <2>1. ~(n = 1)
    BY <1>2
  <2>2. ~flag
    BY <2>1, Zenon
  <2>. QED BY <1>2, <2>2 DEF Packed
<1>. QED BY <1>1, <1>2

LEMMA PstateIs ==
  ASSUME NEW n \in {0, 1}, NEW z \in {0, 1}, NEW c \in {0, 1}, NEW v \in {0, 1},
         regs.n = (n = 1), regs.z = (z = 1), regs.c = (c = 1), regs.v = (v = 1)
  PROVE  read_pstate = FlagsWord(2 ^ (W32 - 4), n, z, c, v)
<1>1. PICK q \in Nat \ {0} :
        /\ q = 2 ^ (W32 - 4) /\ 2 ^ (W32 - 3) = 2 * q
        /\ 2 ^ (W32 - 2) = 4 * q /\ 2 ^ (W32 - 1) = 8 * q
  BY FlagWeights
<1>2. Packed(regs.n, W32 - 1) = (8 * q) * n
  BY <1>1, PackedIs
<1>3. Packed(regs.z, W32 - 2) = (4 * q) * z
  BY <1>1, PackedIs
<1>4. Packed(regs.c, W32 - 3) = (2 * q) * c
  BY <1>1, PackedIs
<1>5. Packed(regs.v, W32 - 4) = q * v
  BY <1>1, PackedIs
<1>. QED BY <1>1, <1>2, <1>3, <1>4, <1>5 DEF read_pstate, FlagsWord

\* In every state, read_pstate shows the four flags (cpu.rs:101).
THEOREM PstateShowsFlagsHolds == Spec => []PstateShowsFlags
<1>1. CpuTypeOK => PstateShowsFlags
  <2>. SUFFICES ASSUME CpuTypeOK PROVE PstateShowsFlags
    OBVIOUS
  <2>. DEFINE n == IF regs.n THEN 1 ELSE 0
             z == IF regs.z THEN 1 ELSE 0
             c == IF regs.c THEN 1 ELSE 0
             v == IF regs.v THEN 1 ELSE 0
             x == read_pstate
             q == 2 ^ (W32 - 4)
  <2>1. regs.n \in BOOLEAN /\ regs.z \in BOOLEAN /\ regs.c \in BOOLEAN /\ regs.v \in BOOLEAN
    BY DEF CpuTypeOK
  <2>2. /\ n \in {0, 1} /\ z \in {0, 1} /\ c \in {0, 1} /\ v \in {0, 1}
        /\ regs.n = (n = 1) /\ regs.z = (z = 1) /\ regs.c = (c = 1) /\ regs.v = (v = 1)
    BY <2>1
  <2>. HIDE DEF n, z, c, v
  <2>3. x = FlagsWord(q, n, z, c, v)
    BY <2>2, PstateIs
  <2>4. /\ q \in Nat \ {0} /\ 2 ^ (W32 - 3) = 2 * q /\ 2 ^ (W32 - 2) = 4 * q
        /\ 2 ^ (W32 - 1) = 8 * q /\ 2 ^ W32 = 16 * q
    BY FlagWeights
  <2>. HIDE DEF x, q
  <2>5. /\ (x \div (8 * q)) % 2 = n /\ (x \div (4 * q)) % 2 = z
        /\ (x \div (2 * q)) % 2 = c /\ (x \div q) % 2 = v
        /\ x < 16 * q /\ x % q = 0
    BY <2>2, <2>3, <2>4, BitsOfFlags
  <2>6. /\ Bit(x, W32 - 1) = (n = 1) /\ Bit(x, W32 - 2) = (z = 1)
        /\ Bit(x, W32 - 3) = (c = 1) /\ Bit(x, W32 - 4) = (v = 1)
    BY <2>4, <2>5 DEF Bit, q
  <2>. QED BY <2>2, <2>4, <2>5, <2>6 DEF PstateShowsFlags, x, q
<1>. QED BY <1>1, CpuTypeOKHolds, PTL

\* write_pstate followed by read_pstate (cpu.rs:101-119) returns the four
\* flag bits of what was written.
THEOREM PstateReadsBackHolds == Spec => PstateReadsBack
<1>1. ASSUME CpuTypeOK, NEW p \in PstateValues, write_pstate(p)
      PROVE  read_pstate' = Unsigned(p, W32) - Unsigned(p, W32 - 4)
  <2>. DEFINE q == 2 ^ (W32 - 4)
             n == (p \div (8 * q)) % 2
             z == (p \div (4 * q)) % 2
             c == (p \div (2 * q)) % 2
             v == (p \div q) % 2
  <2>1. /\ q \in Nat \ {0} /\ 2 ^ (W32 - 3) = 2 * q /\ 2 ^ (W32 - 2) = 4 * q
        /\ 2 ^ (W32 - 1) = 8 * q /\ 2 ^ W32 = 16 * q
    BY FlagWeights
  <2>2. p \in Nat
    BY RegistersAssumption DEF Value
  <2>3. /\ regs'.n = Bit(p, W32 - 1) /\ regs'.z = Bit(p, W32 - 2)
        /\ regs'.c = Bit(p, W32 - 3) /\ regs'.v = Bit(p, W32 - 4)
    BY <1>1 DEF write_pstate, Setting, WithFlags, CpuTypeOK
  <2>4. /\ Bit(p, W32 - 1) = (n = 1) /\ Bit(p, W32 - 2) = (z = 1)
        /\ Bit(p, W32 - 3) = (c = 1) /\ Bit(p, W32 - 4) = (v = 1)
    BY <2>1 DEF Bit
  <2>. HIDE DEF q
  <2>5. n \in {0, 1} /\ z \in {0, 1} /\ c \in {0, 1} /\ v \in {0, 1}
    <3>1. \A m \in Nat \ {0} : (p \div m) % 2 \in {0, 1}
      <4>. SUFFICES ASSUME NEW m \in Nat \ {0} PROVE (p \div m) % 2 \in {0, 1}
        OBVIOUS
      <4>1. p \div m \in Int
        BY <2>2, DivMod
      <4>. QED BY <4>1
    <3>2. 8 * q \in Nat \ {0} /\ 4 * q \in Nat \ {0} /\ 2 * q \in Nat \ {0}
      BY <2>1
    <3>. QED BY <2>1, <3>1, <3>2
  <2>6. read_pstate' = (8 * q) * n + (4 * q) * z + (2 * q) * c + q * v
    <3>1. PICK qq \in Nat \ {0} :
            /\ qq = 2 ^ (W32 - 4) /\ 2 ^ (W32 - 3) = 2 * qq
            /\ 2 ^ (W32 - 2) = 4 * qq /\ 2 ^ (W32 - 1) = 8 * qq
      BY FlagWeights
    <3>. HIDE DEF n, z, c, v
    <3>2. /\ Packed(regs'.n, W32 - 1) = (8 * qq) * n /\ Packed(regs'.z, W32 - 2) = (4 * qq) * z
          /\ Packed(regs'.c, W32 - 3) = (2 * qq) * c /\ Packed(regs'.v, W32 - 4) = qq * v
      BY <2>3, <2>4, <2>5, <3>1, PackedIs
    <3>. QED BY <3>1, <3>2 DEF read_pstate, q
  <2>7. /\ p % (2 * (8 * q)) = (8 * q) * n + (p % (8 * q))
        /\ p % (2 * (4 * q)) = (4 * q) * z + (p % (4 * q))
        /\ p % (2 * (2 * q)) = (2 * q) * c + (p % (2 * q))
        /\ p % (2 * q) = q * v + (p % q)
    <3>1. 8 * q \in Nat \ {0} /\ 4 * q \in Nat \ {0} /\ 2 * q \in Nat \ {0}
      BY <2>1
    <3>. QED BY <2>1, <2>2, <3>1, OneBitMore
  <2>8. 2 * (8 * q) = 16 * q /\ 2 * (4 * q) = 8 * q /\ 2 * (2 * q) = 4 * q
    BY <2>1
  <2>9. p % q \in Nat
    BY <2>1, <2>2, DivMod
  <2>. HIDE DEF n, z, c, v
  <2>10. (p % (16 * q)) - (p % q) = (8 * q) * n + (4 * q) * z + (2 * q) * c + q * v
    BY <2>1, <2>5, <2>7, <2>8, <2>9
  <2>. QED BY <2>1, <2>6, <2>10 DEF Unsigned, q
<1>2. CpuTypeOK =>
        [\A p \in PstateValues :
           write_pstate(p) =>
             read_pstate' = Unsigned(p, W32) - Unsigned(p, W32 - 4)]_vars
  BY <1>1
<1>. QED BY <1>2, CpuTypeOKHolds, PTL DEF PstateReadsBack

-----------------------------------------------------------------------------
(* Arithmetic *)

\* Both properties hold of any registers of the type.
LEMMA TypedIsArchitectural == CpuTypeOK => ArithmeticIsArchitectural
<1>. SUFFICES ASSUME CpuTypeOK, NEW ins \in Of("AddSub")
    PROVE  LET after == execute_instruction(regs, ins)
               ref == Reference(ins, Read(regs.x, ins.rn))
           IN /\ ins.rd # ZR => after.x[ins.rd] = ref.value
              /\ ins.s => /\ <<after.n, after.z, after.v>> = <<ref.n, ref.z, ref.v>>
                          /\ ins.sf \/ ~ins.op => after.c = ref.c
  BY DEF ArithmeticIsArchitectural
<1>1. regs \in RegisterFiles /\ IsInstruction(ins, Gprs) /\ ins.kind = "AddSub"
  BY InstructionsAssumption DEF Of, CpuTypeOK, RegisterFiles
<1>. DEFINE after == execute_instruction(regs, ins)
           src == Read(regs.x, ins.rn)
           done == AddSub(ins, src)
           ref == Reference(ins, src)
<1>2. /\ src \in Value /\ IsAddSub(ins)
      /\ ins.rd # ZR => after.x[ins.rd] = done.value
      /\ ins.s => /\ after.n = done.n /\ after.z = done.z
                  /\ after.c = done.c /\ after.v = done.v
  BY <1>1, AddSubEffect
<1>. HIDE DEF src
<1>3. /\ done.value = ref.value
      /\ <<done.n, done.z, done.v>> = <<ref.n, ref.z, ref.v>>
      /\ ins.sf \/ ~ins.op => done.c = ref.c
  BY <1>2, AddSubMeets
<1>. HIDE DEF after, done, ref
<1>4. /\ ins.rd # ZR => after.x[ins.rd] = ref.value
      /\ ins.s => /\ <<after.n, after.z, after.v>> = <<ref.n, ref.z, ref.v>>
                  /\ ins.sf \/ ~ins.op => after.c = ref.c
  BY <1>2, <1>3
<1>. QED BY <1>4 DEF after, ref, src

\* ADD and SUB immediate (executor.rs:32-97) are the architecture's AddWithCarry,
\* in the value they write and in the flags, in either width; only the carry of
\* a 32-bit SUBS is not claimed.
THEOREM ArithmeticHolds == Spec => []ArithmeticIsArchitectural
  BY CpuTypeOKHolds, TypedIsArchitectural, PTL

\* The 32-bit results are those of the source's low half (the comment at
\* executor.rs:255) exactly in the states where no SUBS loses a borrow: the
\* carry of the finding is the only way the upper half shows.
THEOREM Sub32CarryIsTheOnlyLeak ==
  Spec => [](Sub32IgnoresUpperHalf
             <=> \A ins \in Of("AddSub") :
                   ~ins.sf => ~BorrowLost(ins, Read(regs.x, ins.rn)))
<1>. DEFINE Exact == \A ins \in Of("AddSub") :
                       ~ins.sf => ~BorrowLost(ins, Read(regs.x, ins.rn))
<1>1. CpuTypeOK => (Sub32IgnoresUpperHalf <=> Exact)
  <2>. SUFFICES ASSUME CpuTypeOK PROVE Sub32IgnoresUpperHalf <=> Exact
    OBVIOUS
  <2>1. ASSUME NEW ins \in Of("AddSub")
        PROVE  ~ins.sf => (AddSub(ins, Read(regs.x, ins.rn))
                             = AddSub(ins, Unsigned(Read(regs.x, ins.rn), W32))
                           <=> ~BorrowLost(ins, Read(regs.x, ins.rn)))
    <3>1. regs \in RegisterFiles /\ IsInstruction(ins, Gprs) /\ ins.kind = "AddSub"
      BY InstructionsAssumption DEF Of, CpuTypeOK, RegisterFiles
    <3>2. Read(regs.x, ins.rn) \in Value /\ IsAddSub(ins)
      BY <3>1, AddSubEffect
    <3>. QED BY <3>2, Narrow
  <2>. QED BY <2>1 DEF Sub32IgnoresUpperHalf
<1>. QED BY <1>1, CpuTypeOKHolds, PTL DEF Exact

LEMMA TypedIsFieldwise == CpuTypeOK => MovWideIsFieldwise
<1>. SUFFICES ASSUME CpuTypeOK, NEW ins \in Of("MovWide"), NEW f \in 0..3, ins.rd # ZR
    PROVE  LET old == Field(regs.x[ins.rd], f)
               ones == 2 ^ FieldBits - 1
               named == IF ins.opc = 0 THEN ones - ins.imm ELSE ins.imm
               other == IF ins.opc = 2 THEN 0 ELSE IF ins.opc = 3 THEN old ELSE ones
           IN Field(execute_instruction(regs, ins).x[ins.rd], f) =
                IF ins.opc = 1 THEN old
                ELSE IF ~ins.sf /\ f >= 2 THEN 0
                ELSE IF ins.hw = f * FieldBits THEN named ELSE other
  BY DEF MovWideIsFieldwise
<1>1. regs \in RegisterFiles /\ IsInstruction(ins, Gprs) /\ ins.kind = "MovWide"
  BY InstructionsAssumption DEF Of, CpuTypeOK, RegisterFiles
<1>2. CASE ins.opc = 1
  <2>1. execute_instruction(regs, ins) = regs
    BY <1>1, <1>2 DEF execute_instruction
  <2>. QED BY <1>2, <2>1
<1>3. CASE ins.opc # 1
  <2>. DEFINE after == execute_instruction(regs, ins)
             old == regs.x[ins.rd]
  <2>1. Read(regs.x, ins.rd) = old
    BY DEF Read
  <2>2. old \in Value /\ IsMovWide(ins) /\ after.x[ins.rd] = MovWide(ins, old)
    <3>1. /\ Read(regs.x, ins.rd) \in Value /\ IsMovWide(ins)
          /\ ins.rd # ZR => after.x[ins.rd] = MovWide(ins, Read(regs.x, ins.rd))
      BY <1>1, <1>3, MovWideEffect
    <3>. QED BY <2>1, <3>1
  <2>. HIDE DEF after, old
  <2>3. Field(MovWide(ins, old), f) =
          IF ~ins.sf /\ f >= 2 THEN 0
          ELSE IF ins.hw = f * FieldBits
               THEN IF ins.opc = 0 THEN 2 ^ FieldBits - 1 - ins.imm ELSE ins.imm
               ELSE IF ins.opc = 2 THEN 0
                    ELSE IF ins.opc = 3 THEN Field(old, f) ELSE 2 ^ FieldBits - 1
    BY <2>2, MovWideMeets
  <2>. QED BY <1>3, <2>2, <2>3 DEF after, old
<1>. QED BY <1>2, <1>3

\* MOVZ, MOVK and MOVN (executor.rs:99-136) set the field they name and leave
\* the others zero, as they were, or all ones; the upper two are zero in 32 bits.
THEOREM MovWideHolds == Spec => []MovWideIsFieldwise
  BY CpuTypeOKHolds, TypedIsFieldwise, PTL

-----------------------------------------------------------------------------
(* What programs rely on *)

\* The value of ADD and SUB, as it comes to for the low word of the source.
LEMMA ValueIsReduced ==
  ASSUME NEW ins, IsAddSub(ins), NEW src \in Value
  PROVE  LET m == 2 ^ Width(ins)
         IN /\ AddSub(ins, src).value = Reduced(ins, src % m, Operand(ins), m)
            /\ Reference(ins, src).value = Reduced(ins, src % m, Operand(ins), m)
            /\ src % m \in 0..(m - 1)
<1>. DEFINE w == Width(ins)
           h == 2 ^ (w - 1)
           m == 2 ^ w
           b == Operand(ins)
           a == src % m
<1>1. /\ h \in Nat \ {0} /\ m = 2 * h /\ b \in 0..(h - 1) /\ m \in Nat \ {0}
      /\ b = IF ins.shift THEN ins.imm * 2 ^ ImmBits ELSE ins.imm
  BY Widths
<1>2. src \in Int
  BY DEF Value
<1>3. Reference(ins, src).value = Sum(ins, a, b, m) % m
  BY <1>1 DEF Reference, Unsigned, Sum, Width
<1>. HIDE DEF h, m, b
<1>4. Sum(ins, a, b, m) % m = Reduced(ins, a, b, m)
  <2>1. h \in Nat \ {0} /\ m = 2 * h /\ b \in 0..(h - 1) /\ 1 \in Nat \ {0}
    BY <1>1
  <2>. QED BY <1>1, <1>2, <2>1, NarrowSum
<1>5. AddSub(ins, src).value = Reference(ins, src).value
  BY AddSubMeets
<1>6. a \in 0..(m - 1)
  BY <1>1, <1>2, DivMod
<1>. QED BY <1>3, <1>4, <1>5, <1>6 DEF m, b

\* What SUBS, and with it CMP, tells of the register it reads and its operand.
Compares(after, ins, src) ==
  LET w == Width(ins)
      a == Unsigned(src, w)
      b == Operand(ins)
  IN /\ after.z <=> a = b
     /\ (after.n <=> after.v) <=> ~(Signed(a, w) < Signed(b, w))
     /\ ins.sf => (after.c <=> a >= b)

LEMMA ReferenceCompares ==
  ASSUME NEW ins, IsAddSub(ins), ins.op, NEW src \in Value
  PROVE  Compares(Reference(ins, src), ins, src)
<1>. DEFINE w == Width(ins)
           h == 2 ^ (w - 1)
           m == 2 ^ w
           b == Operand(ins)
           a == src % m
           v == Sum(ins, a, b, m) % m
<1>1. /\ h \in Nat \ {0} /\ m = 2 * h /\ b \in 0..(h - 1) /\ m \in Nat \ {0}
      /\ b = IF ins.shift THEN ins.imm * 2 ^ ImmBits ELSE ins.imm
  BY Widths
<1>2. Reference(ins, src) =
        [value |-> v, n |-> Signed(v, w) < 0, z |-> v = 0,
         c |-> Sum(ins, a, b, m) # v,
         v |-> (IF ins.op THEN Signed(a, w) - Signed(b, w)
                ELSE Signed(a, w) + Signed(b, w)) # Signed(v, w)]
  BY <1>1 DEF Reference, Unsigned, Sum, Width
<1>3. v = Reduced(ins, a, b, m) /\ a \in 0..(m - 1)
  BY <1>2, ValueIsReduced
<1>. HIDE DEF w, h, m, b, v
<1>4. /\ v = 0 <=> a = b
      /\ (Low(v, h) < 0 <=> SignedSum(ins, a, b, h) # Low(v, h))
           <=> ~(Low(a, h) < Low(b, h))
      /\ Sum(ins, a, b, m) # v <=> a >= b
  <2>1. h \in Nat \ {0} /\ m = 2 * h /\ b \in 0..(h - 1)
    BY <1>1
  <2>. HIDE DEF a
  <2>. QED BY <1>1, <1>3, <2>1 DEF Reduced, Low, SignedSum, Sum
<1>5. v \in 0..(m - 1)
  <2>1. h \in Nat \ {0} /\ m = 2 * h /\ b \in 0..(h - 1)
    BY <1>1
  <2>. HIDE DEF a
  <2>. QED BY <1>1, <1>3, <2>1, FlagsOfSum
<1>6. b % m = b /\ v % m = v /\ a % m = a
  <2>1. b \in 0..(m - 1)
    BY <1>1
  <2>. HIDE DEF a
  <2>. QED BY <1>1, <1>3, <1>5, <2>1, SmallMod
<1>7. ASSUME NEW x \in Int, x % m = x PROVE Signed(x, w) = Low(x, h)
  BY <1>1, <1>7 DEF Signed, Unsigned, Low, h, m
<1>8. Signed(a, w) = Low(a, h) /\ Signed(b, w) = Low(b, h) /\ Signed(v, w) = Low(v, h)
  <2>1. a \in Int /\ b \in Int /\ v \in Int
    BY <1>1, <1>3, <1>5
  <2>. HIDE DEF a
  <2>. QED BY <1>6, <1>7, <2>1
<1>9. a = Unsigned(src, w)
  BY DEF Unsigned, m
<1>. HIDE DEF a
<1>10. Reference(ins, src).z <=> a = b
  <2>1. Reference(ins, src).z = (v = 0)
    BY <1>2
  <2>. QED BY <1>4, <2>1
<1>11. (Reference(ins, src).n <=> Reference(ins, src).v) <=> ~(Signed(a, w) < Signed(b, w))
  <2>1. Reference(ins, src).n = (Low(v, h) < 0)
    BY <1>2, <1>8
  <2>2. Reference(ins, src).v = (SignedSum(ins, a, b, h) # Low(v, h))
    BY <1>2, <1>8 DEF SignedSum
  <2>. QED BY <1>4, <1>8, <2>1, <2>2
<1>12. Reference(ins, src).c <=> a >= b
  <2>1. Reference(ins, src).c = (Sum(ins, a, b, m) # v)
    BY <1>2
  <2>. QED BY <1>4, <2>1
<1>. QED BY <1>9, <1>10, <1>11, <1>12 DEF Compares, w, b

\* After SUBS, in either width: Z says that the two are equal and N # V that the
\* register is below the operand as a signed integer; in 64 bits C says that it is
\* not below it as an unsigned one (executor.rs:42-95).
SubsCompares ==
  \A ins \in Of("AddSub") :
    ins.op /\ ins.s =>
      Compares(execute_instruction(regs, ins), ins, Read(regs.x, ins.rn))

THEOREM SubsComparesHolds == Spec => []SubsCompares
<1>1. CpuTypeOK => SubsCompares
  <2>. SUFFICES ASSUME CpuTypeOK, NEW ins \in Of("AddSub"), ins.op, ins.s
      PROVE  Compares(execute_instruction(regs, ins), ins, Read(regs.x, ins.rn))
    BY DEF SubsCompares
  <2>. DEFINE after == execute_instruction(regs, ins)
             src == Read(regs.x, ins.rn)
             ref == Reference(ins, src)
  <2>1. regs \in RegisterFiles /\ IsInstruction(ins, Gprs) /\ ins.kind = "AddSub"
    BY InstructionsAssumption DEF Of, CpuTypeOK, RegisterFiles
  <2>2. src \in Value /\ IsAddSub(ins)
    BY <2>1, AddSubEffect
  <2>3. after.n = ref.n /\ after.z = ref.z /\ after.v = ref.v /\ (ins.sf => after.c = ref.c)
    BY TypedIsArchitectural DEF ArithmeticIsArchitectural
  <2>4. Compares(ref, ins, src)
    <3>. HIDE DEF src
    <3>. QED BY <2>2, ReferenceCompares DEF ref
  <2>. HIDE DEF after, ref, src
  <2>5. Compares(after, ins, src)
    BY <2>3, <2>4 DEF Compares
  <2>. QED BY <2>5 DEF after, src
<1>. QED BY <1>1, CpuTypeOKHolds, PTL

\* An ADD after a SUB of the same operand, or a SUB after an ADD, gives back what
\* the first one read, in 32 bits its low half; also when the first one wrapped.
THEOREM OppositesCancel ==
  ASSUME NEW r \in RegisterFiles, NEW first, NEW second,
         IsInstruction(first, Gprs), first.kind = "AddSub",
         IsInstruction(second, Gprs), second.kind = "AddSub",
         first.rd # ZR, second.rn = first.rd, second.rd # ZR,
         second.op = ~first.op, second.sf = first.sf,
         second.imm = first.imm, second.shift = first.shift
  PROVE  execute_instruction(execute_instruction(r, first), second).x[second.rd]
           = Unsigned(Read(r.x, first.rn), Width(first))
<1>. DEFINE between == execute_instruction(r, first)
           src == Read(r.x, first.rn)
           mid == between.x[first.rd]
           m == 2 ^ Width(first)
           h == 2 ^ (Width(first) - 1)
           b == Operand(first)
           a == src % m
<1>1. /\ src \in Value /\ IsAddSub(first) /\ between \in RegisterFiles
      /\ mid = AddSub(first, src).value
  BY AddSubEffect
<1>2. Read(between.x, second.rn) = mid
  BY DEF Read
<1>3. /\ mid \in Value /\ IsAddSub(second)
      /\ execute_instruction(between, second).x[second.rd] = AddSub(second, mid).value
  <2>. HIDE DEF between
  <2>1. LET after == execute_instruction(between, second)
            s == Read(between.x, second.rn)
        IN /\ s \in Value /\ IsAddSub(second)
           /\ after.x[second.rd] = AddSub(second, s).value
    BY <1>1, AddSubEffect
  <2>. HIDE DEF mid
  <2>. QED BY <1>2, <2>1
<1>4. Width(second) = Width(first) /\ Operand(second) = b
  BY DEF Width, Operand
<1>5. /\ h \in Nat \ {0} /\ m = 2 * h /\ b \in 0..(h - 1) /\ m \in Nat \ {0}
  BY <1>1, Widths
<1>. HIDE DEF between, src
<1>6. mid = Reduced(first, a, b, m) /\ a \in 0..(m - 1)
  BY <1>1, ValueIsReduced
<1>. HIDE DEF mid
<1>7. AddSub(second, mid).value = Reduced(second, mid % m, b, m)
  BY <1>3, <1>4, ValueIsReduced
<1>. HIDE DEF a, m, b
<1>8. mid \in 0..(m - 1)
  BY <1>5, <1>6 DEF Reduced
<1>9. mid % m = mid
  BY <1>5, <1>8, SmallMod
<1>10. Reduced(second, mid, b, m) = a
  <2>1. first.op \in BOOLEAN
    BY <1>1 DEF IsAddSub
  <2>2. CASE first.op
    <3>1. mid = IF a >= b THEN a - b ELSE a - b + m
      BY <1>6, <2>2 DEF Reduced
    <3>2. Reduced(second, mid, b, m) = IF mid + b < m THEN mid + b ELSE mid + b - m
      BY <2>2 DEF Reduced
    <3>. QED BY <1>5, <1>6, <3>1, <3>2
  <2>3. CASE ~first.op
    <3>1. mid = IF a + b < m THEN a + b ELSE a + b - m
      BY <1>6, <2>3 DEF Reduced
    <3>2. Reduced(second, mid, b, m) = IF mid >= b THEN mid - b ELSE mid - b + m
      BY <2>3 DEF Reduced
    <3>. QED BY <1>5, <1>6, <3>1, <3>2
  <2>. QED BY <2>1, <2>2, <2>3
<1>. QED BY <1>3, <1>7, <1>9, <1>10 DEF a, m, between, src, Unsigned

\* A value is known by its fields.
LEMMA FieldsDetermine ==
  ASSUME NEW x \in Value, NEW y \in Value, \A f \in 0..3 : Field(x, f) = Field(y, f)
  PROVE  x = y
<1>1. PICK d \in Fields : x = Number(d)
  BY HasFields
<1>2. PICK e \in Fields : y = Number(e)
  BY HasFields
<1>3. \A f \in 0..3 : d[f] = e[f]
  BY <1>1, <1>2, FieldsAreRead
<1>. QED BY <1>1, <1>2, <1>3 DEF Number

LEMMA FieldFits ==
  ASSUME NEW x \in Value, NEW f \in 0..3
  PROVE  Field(x, f) \in 0..(2 ^ FieldBits - 1)
<1>1. PICK d \in Fields : x = Number(d)
  BY HasFields
<1>2. Field(x, f) = d[f] /\ d[f] \in 0..(F - 1)
  BY <1>1, FieldsAreRead DEF Fields
<1>. QED BY <1>2 DEF F

\* The 64-bit MOVZ (opc 2) or MOVK (opc 3) of field f of v into register rd.
Mov(opc, f, v, rd) == MovWideImmediate(TRUE, opc, f * FieldBits, Field(v, f), rd)

\* What it leaves of the register file r.
Sets(r, after, opc, f, v, rd) ==
  /\ after \in RegisterFiles
  /\ after = [r EXCEPT !.x[rd] = after.x[rd]]
  /\ \A g \in 0..3 :
       Field(after.x[rd], g) =
         IF g = f THEN Field(v, f) ELSE IF opc = 2 THEN 0 ELSE Field(r.x[rd], g)

LEMMA MovSets ==
  ASSUME NEW r \in RegisterFiles, NEW rd \in Gprs, NEW opc \in {2, 3}, NEW f \in 0..3,
         NEW v \in Value
  PROVE  Sets(r, execute_instruction(r, Mov(opc, f, v, rd)), opc, f, v, rd)
<1>. DEFINE ins == Mov(opc, f, v, rd)
           after == execute_instruction(r, ins)
           old == r.x[rd]
           new == MovWide(ins, old)
<1>1. /\ ins.kind = "MovWide" /\ ins.sf = TRUE /\ ins.opc = opc /\ ins.hw = f * FieldBits
      /\ ins.imm = Field(v, f) /\ ins.rd = rd
  BY DEF Mov, MovWideImmediate
<1>2. rd # ZR
  BY RegistersAssumption DEF ZR
<1>3. Field(v, f) \in 0..(2 ^ FieldBits - 1)
  BY FieldFits
<1>. HIDE DEF ins
<1>4. IsInstruction(ins, Gprs) /\ ins.opc # 1
  <2>1. ins.hw \in {field * FieldBits : field \in 0..3}
    BY <1>1, Zenon
  <2>2. ins.opc \in 0..3 /\ ins.opc # 1 /\ ins.rd \in Gprs \cup {ZR}
    BY <1>1
  <2>3. ins.sf \in BOOLEAN
    BY <1>1, Zenon
  <2>. QED BY <1>1, <1>3, <2>1, <2>2, <2>3 DEF IsInstruction
<1>5. Read(r.x, ins.rd) = old
  BY <1>1, <1>2 DEF Read
<1>6. /\ old \in Value /\ IsMovWide(ins) /\ after \in RegisterFiles /\ after.x[rd] = new
  <2>1. LET a == execute_instruction(r, ins)
            o == Read(r.x, ins.rd)
        IN /\ o \in Value /\ IsMovWide(ins) /\ a \in RegisterFiles
           /\ a.x[ins.rd] = MovWide(ins, o)
    BY <1>1, <1>2, <1>4, MovWideEffect
  <2>. QED BY <1>1, <1>5, <2>1
<1>7. after = [r EXCEPT !.x[rd] = new]
  <2>1. after = [r EXCEPT !.x = Write(r.x, rd, new)]
    BY <1>1, <1>4, <1>5 DEF execute_instruction
  <2>2. Write(r.x, rd, new) = [r.x EXCEPT ![rd] = new]
    BY <1>2 DEF Write
  <2>. QED BY <2>1, <2>2
<1>8. \A g \in 0..3 : Field(new, g) =
        IF ins.hw = g * FieldBits THEN ins.imm
        ELSE IF opc = 2 THEN 0 ELSE Field(old, g)
  <2>. HIDE DEF old
  <2>. QED BY <1>1, <1>6, MovWideMeets
<1>9. \A g \in 0..3 : ins.hw = g * FieldBits <=> g = f
  <2>1. FieldBits \in Nat \ {0}
    BY WidthAssumption
  <2>2. f = 0 \/ f = 1 \/ f = 2 \/ f = 3
    OBVIOUS
  <2>. QED BY <1>1, <2>1, <2>2
<1>. HIDE DEF after, new, old
<1>10. after = [r EXCEPT !.x[rd] = after.x[rd]]
  BY <1>6, <1>7
<1>11. \A g \in 0..3 : Field(after.x[rd], g) =
         IF g = f THEN Field(v, f) ELSE IF opc = 2 THEN 0 ELSE Field(old, g)
  BY <1>1, <1>6, <1>8, <1>9
<1>. QED BY <1>6, <1>10, <1>11 DEF after, ins, old, Sets

\* MOVZ of one field of v and MOVK of the other three, in any order, leave v in the
\* register whatever was there, and nothing else is changed (executor.rs:99-136).
THEOREM AnyConstantLoads ==
  ASSUME NEW r \in RegisterFiles, NEW rd \in Gprs, NEW v \in Value,
         NEW f0 \in 0..3, NEW f1 \in 0..3, NEW f2 \in 0..3, NEW f3 \in 0..3,
         {f0, f1, f2, f3} = 0..3
  PROVE  LET r0 == execute_instruction(r, Mov(2, f0, v, rd))
             r1 == execute_instruction(r0, Mov(3, f1, v, rd))
             r2 == execute_instruction(r1, Mov(3, f2, v, rd))
         IN execute_instruction(r2, Mov(3, f3, v, rd)) = [r EXCEPT !.x[rd] = v]
<1>. DEFINE r0 == execute_instruction(r, Mov(2, f0, v, rd))
           r1 == execute_instruction(r0, Mov(3, f1, v, rd))
           r2 == execute_instruction(r1, Mov(3, f2, v, rd))
           r3 == execute_instruction(r2, Mov(3, f3, v, rd))
<1>0. \A g \in 0..3 : g = f0 \/ g = f1 \/ g = f2 \/ g = f3
  OBVIOUS
<1>1. Sets(r, r0, 2, f0, v, rd)
  <2>1. 2 \in {2, 3}
    OBVIOUS
  <2>. QED BY <2>1, MovSets
<1>. HIDE DEF r0
<1>2. Sets(r0, r1, 3, f1, v, rd)
  <2>1. 3 \in {2, 3} /\ r0 \in RegisterFiles
    BY <1>1 DEF Sets
  <2>. QED BY <2>1, MovSets
<1>. HIDE DEF r1
<1>3. Sets(r1, r2, 3, f2, v, rd)
  <2>1. 3 \in {2, 3} /\ r1 \in RegisterFiles
    BY <1>2 DEF Sets
  <2>. QED BY <2>1, MovSets
<1>. HIDE DEF r2
<1>4. Sets(r2, r3, 3, f3, v, rd)
  <2>1. 3 \in {2, 3} /\ r2 \in RegisterFiles
    BY <1>3 DEF Sets
  <2>. QED BY <2>1, MovSets
<1>. HIDE DEF r3
<1>5. \A g \in 0..3 : Field(r3.x[rd], g) = Field(v, g)
  BY <1>0, <1>1, <1>2, <1>3, <1>4 DEF Sets
<1>6. r3.x[rd] = v
  <2>1. r3.x[rd] \in Value
    BY <1>4 DEF RegisterFiles, Sets
  <2>. DEFINE y == r3.x[rd]
  <2>2. y \in Value /\ \A g \in 0..3 : Field(y, g) = Field(v, g)
    BY <1>5, <2>1
  <2>. HIDE DEF y
  <2>3. y = v
    BY <2>2, FieldsDetermine
  <2>. QED BY <2>3 DEF y
<1>. DEFINE a0 == r0.x[rd]
           a1 == r1.x[rd]
           a2 == r2.x[rd]
           a3 == r3.x[rd]
<1>. DEFINE Set(s, a) == [s EXCEPT !.x[rd] = a]
<1>7. r0 = Set(r, a0) /\ r1 = Set(r0, a1) /\ r2 = Set(r1, a2) /\ r3 = Set(r2, a3)
  BY <1>1, <1>2, <1>3, <1>4 DEF Sets
<1>. HIDE DEF a0, a1, a2, a3
<1>8. ASSUME NEW a, NEW b PROVE Set(Set(r, a), b) = Set(r, b)
  BY DEF RegisterFiles
<1>. HIDE DEF Set
<1>9. r1 = Set(r, a1)
  BY <1>7, <1>8
<1>10. r2 = Set(r, a2)
  BY <1>7, <1>8, <1>9
<1>11. r3 = Set(r, a3)
  BY <1>7, <1>8, <1>10
<1>. QED BY <1>6, <1>11 DEF r0, r1, r2, r3, a3, Set

-----------------------------------------------------------------------------
(* step and run *)

\* A register file: the fields of Registers, with any values.
IsFile(r) == r = [x |-> r.x, sp |-> r.sp, pc |-> r.pc,
                  n |-> r.n, z |-> r.z, c |-> r.c, v |-> r.v]

FileInv == IsFile(regs) /\ regs.pc \in Addresses

\* Setting the flags leaves a register file with the same PC.
LEMMA FlagsSet ==
  ASSUME NEW r, IsFile(r), NEW n, NEW z, NEW c, NEW v
  PROVE  /\ IsFile(WithFlags(r, n, z, c, v))
         /\ WithFlags(r, n, z, c, v).pc = r.pc
<1>. DEFINE rn == [r EXCEPT !.n = n]
            rz == [rn EXCEPT !.z = z]
            rc == [rz EXCEPT !.c = c]
            rv == [rc EXCEPT !.v = v]
<1>1. IsFile(rn) /\ rn.pc = r.pc
  BY DEF IsFile
<1>. HIDE DEF rn
<1>2. IsFile(rz) /\ rz.pc = r.pc
  BY <1>1 DEF IsFile
<1>. HIDE DEF rz
<1>3. IsFile(rc) /\ rc.pc = r.pc
  BY <1>2 DEF IsFile
<1>. HIDE DEF rc
<1>4. IsFile(rv) /\ rv.pc = r.pc
  BY <1>3 DEF IsFile
<1>. QED
  BY <1>4 DEF rn, rz, rc, WithFlags

\* No instruction touches PC.
LEMMA ExecuteKeepsPc ==
  ASSUME NEW r, IsFile(r), NEW ins
  PROVE  /\ IsFile(execute_instruction(r, ins))
         /\ execute_instruction(r, ins).pc = r.pc
<1>. DEFINE done == AddSub(ins, Read(r.x, ins.rn))
            w == [r EXCEPT !.x = Write(r.x, ins.rd, done.value)]
            moved == [r EXCEPT !.x = Write(r.x, ins.rd, MovWide(ins, Read(r.x, ins.rd)))]
            flagged == WithFlags(w, done.n, done.z, done.c, done.v)
<1>1. IsFile(w) /\ w.pc = r.pc
  BY DEF IsFile
<1>2. IsFile(moved) /\ moved.pc = r.pc
  BY DEF IsFile
<1>3. IsFile(flagged) /\ flagged.pc = r.pc
  <2>. HIDE DEF w, done
  <2>. QED
    BY <1>1, FlagsSet
<1>4. execute_instruction(r, ins) \in {r, w, flagged, moved}
  BY DEF execute_instruction, WithFlags
<1>. HIDE DEF w, moved, flagged
<1>. QED
  BY <1>1, <1>2, <1>3, <1>4

\* An address that can be fetched from has a successor, four bytes further on
\* as a usize too.
LEMMA NextPc ==
  ASSUME NEW pc \in Addresses, Fetchable(pc)
  PROVE  /\ (pc + 4) % AddrSpace = pc + 4
         /\ as_usize(pc + 4) = as_usize(pc) + 4
<1>. DEFINE m == UsizeSpace
            q == pc \div m
            r == pc % m
<1>1. m \in Nat \ {0} /\ AddrSpace \in Nat /\ AddrSpace % m = 0 /\ Size < m
  BY MemoryAssumption
<1>2. pc \in Nat /\ pc + 3 < AddrSpace /\ r + 4 <= Size
  BY <1>1, MemoryAssumption DEF Fetchable, OutOfBounds, as_usize, Addresses
<1>. HIDE DEF m
<1>3. r \in Nat /\ q \in Int /\ pc = m * q + r
  BY <1>1, <1>2, DivMod DEF r, q
<1>. HIDE DEF q, r
<1>4. pc + 4 = m * q + (r + 4) /\ r + 4 \in 0..(m - 1) /\ pc + 4 \in Int
  BY <1>1, <1>2, <1>3, MemoryAssumption
<1>5. (pc + 4) % m = r + 4
  <2>. DEFINE s == r + 4
  <2>1. pc + 4 = m * q + s /\ s \in 0..(m - 1)
    BY <1>4
  <2>. HIDE DEF s
  <2>2. (pc + 4) % m = s
    BY <1>1, <1>3, <1>4, <2>1, DivModIs
  <2>. QED BY <2>2 DEF s
<1>6. pc + 4 # AddrSpace
  BY <1>1, <1>3, <1>5
<1>7. pc + 4 \in 0..(AddrSpace - 1) /\ AddrSpace \in Nat \ {0}
  BY <1>1, <1>2, <1>6
<1>8. (pc + 4) % AddrSpace = pc + 4
  BY <1>7, SmallMod
<1>. QED BY <1>5, <1>8 DEF as_usize, m, r

\* What a step may do to PC, the registers and the flag, by its answer.
LEMMA StepMeets ==
  ASSUME FileInv, NEW answer, StepBody(answer)
  PROVE  \/ /\ answer = "Ok"
            /\ Fetchable(regs.pc)
            /\ regs'.pc = regs.pc + 4
         \/ /\ answer = "Halt"
            /\ halted'
            /\ regs'.pc = regs.pc
         \/ /\ answer \in Answers \ {"Ok", "Halt"}
            /\ regs' = regs /\ halted' = halted
<1>1. CASE Fails("MemoryFault", answer) \/ Fails("UnknownInstruction", answer)
           \/ Fails("Panic", answer)
  BY <1>1 DEF Fails, Answers
<1>2. CASE Fetchable(regs.pc) /\ Completes(FetchedWord, answer)
  <2>. DEFINE after == execute_instruction(regs, FetchedWord)
              moved == [after EXCEPT !.pc = (regs.pc + 4) % AddrSpace]
  <2>1. IsFile(after) /\ after.pc = regs.pc
    BY ExecuteKeepsPc DEF FileInv
  <2>2. /\ regs' = IF halted' THEN after ELSE moved
        /\ answer = IF halted' THEN "Halt" ELSE "Ok"
    BY <1>2 DEF Completes
  <2>. HIDE DEF after
  <2>3. moved.pc = (regs.pc + 4) % AddrSpace
    BY <2>1 DEF IsFile
  <2>4. (regs.pc + 4) % AddrSpace = regs.pc + 4
    BY <1>2, NextPc DEF FileInv
  <2>. HIDE DEF moved
  <2>. QED
    BY <1>2, <2>1, <2>2, <2>3, <2>4
<1>. QED
  BY <1>1, <1>2 DEF StepBody

\* After a halt no step is Ok or moves PC.
LEMMA HaltedStays ==
  ASSUME FileInv, halted, NEW answer, StepBody(answer)
  PROVE  halted' /\ answer # "Ok" /\ regs'.pc = regs.pc
<1>1. CASE Fails("MemoryFault", answer) \/ Fails("UnknownInstruction", answer)
           \/ Fails("Panic", answer)
  BY <1>1 DEF Fails
<1>2. CASE Completes(FetchedWord, answer)
  BY <1>2, ExecuteKeepsPc DEF Completes, FileInv
<1>. QED
  BY <1>1, <1>2 DEF StepBody

LEMMA FileHolds == Spec => []FileInv
<1>1. CpuTypeOK => FileInv
  BY DEF CpuTypeOK, FileInv, IsFile, Addresses
<1>. QED
  BY <1>1, CpuTypeOKHolds, PTL

\* step and each iteration of run keep the contract of cpu.rs:160-167, and run
\* that of cpu.rs:192: PC moves by 4 on success, stays on HLT, and a fault
\* changes nothing, on a host with a usize of any width.
THEOREM StepContractHolds == Spec => StepContract
<1>1. ASSUME FileInv, Steps
      PROVE  \/ /\ result' = "Ok" /\ running' = running
                /\ Fetchable(regs.pc)
                /\ regs'.pc = regs.pc + 4
             \/ /\ result' = (IF running THEN "Ok" ELSE "Halt") /\ ~running'
                /\ halted'
                /\ regs'.pc = regs.pc
             \/ /\ result' \in Answers \ {"Ok", "Halt"} /\ ~running'
                /\ regs' = regs /\ halted' = halted
  <2>1. CASE step
    <3>1. ~running /\ StepBody(result') /\ running' = running
      BY <2>1 DEF step
    <3>. QED BY <1>1, <3>1, StepMeets
  <2>2. CASE RunLoop
    <3>1. PICK answer \in Answers : StepBody(answer) /\ running' = (answer = "Ok")
            /\ result' = IF answer = "Halt" THEN "Ok" ELSE answer
      BY <2>2 DEF RunLoop
    <3>2. running
      BY <2>2 DEF RunLoop
    <3>. QED BY <1>1, <3>1, <3>2, StepMeets
  <2>. QED BY <1>1, <2>1, <2>2 DEF Steps
<1>2. FileInv /\ [Next]_vars =>
        [Steps =>
          \/ /\ result' = "Ok" /\ running' = running
             /\ Fetchable(regs.pc)
             /\ regs'.pc = regs.pc + 4
          \/ /\ result' = (IF running THEN "Ok" ELSE "Halt") /\ ~running'
             /\ halted'
             /\ regs'.pc = regs.pc
          \/ /\ result' \in Answers \ {"Ok", "Halt"} /\ ~running'
             /\ regs' = regs /\ halted' = halted]_vars
  BY <1>1
<1>. QED
  BY <1>2, FileHolds, PTL DEF Spec, StepContract

\* The halt flag of cpu.rs:175 is final: whatever the caller writes in between,
\* no later step or execute succeeds, no instruction moves PC, and run ends with
\* its first one.
THEOREM HaltIsFinalHolds == Spec => HaltIsFinal
<1>1. ASSUME FileInv, halted, Steps \/ \E ins \in Instructions : execute(ins)
      PROVE  /\ halted' /\ regs'.pc = regs.pc
             /\ ~running' /\ (result' = "Ok" => running)
  <2>1. CASE step
    <3>1. ~running /\ StepBody(result') /\ running' = running
      BY <2>1 DEF step
    <3>. QED BY <1>1, <3>1, HaltedStays
  <2>2. CASE RunLoop
    <3>1. PICK answer \in Answers : StepBody(answer) /\ running' = (answer = "Ok")
      BY <2>2 DEF RunLoop
    <3>2. running
      BY <2>2 DEF RunLoop
    <3>. QED BY <1>1, <3>1, <3>2, HaltedStays
  <2>3. ASSUME NEW ins \in Instructions, execute(ins)
        PROVE  /\ halted' /\ regs'.pc = regs.pc
               /\ ~running' /\ (result' = "Ok" => running)
    BY <1>1, <2>3, ExecuteKeepsPc DEF execute, FileInv
  <2>. QED BY <1>1, <2>1, <2>2, <2>3 DEF Steps
<1>2. FileInv /\ [Next]_vars =>
        [halted /\ (Steps \/ \E ins \in Instructions : execute(ins)) =>
           /\ halted' /\ regs'.pc = regs.pc
           /\ ~running' /\ (result' = "Ok" => running)]_vars
  BY <1>1
<1>. QED
  BY <1>2, FileHolds, PTL DEF Spec, HaltIsFinal

\* Every iteration after which run goes on has moved PC up by 4, within what
\* memory holds of it as a usize: what is left of memory from there on shrinks
\* by 4 each time and never goes below zero, which is why the loop of cpu.rs:195
\* ends, on a host with a usize of any width.
Left == Size - as_usize(regs.pc)

RunDescends == [][running /\ running' => Left' \in Nat /\ Left' = Left - 4]_vars

THEOREM RunDescendsHolds == Spec => RunDescends
<1>1. ASSUME FileInv, Next, running, running'
      PROVE  Left' \in Nat /\ Left' = Left - 4
  <2>1. RunLoop
    BY <1>1 DEF Next, Caller, write_reg, write_sp, write_pc, set_flags, write_pstate,
                Setting, WriteMemory, execute, step, run
  <2>2. PICK answer \in Answers : StepBody(answer) /\ running' = (answer = "Ok")
    BY <2>1 DEF RunLoop
  <2>3. Fetchable(regs.pc) /\ regs'.pc = regs.pc + 4
    BY <1>1, <2>2, StepMeets
  <2>4. regs.pc \in Addresses /\ regs.pc \in Nat /\ Size \in Nat
    BY <1>1, MemoryAssumption DEF FileInv, Addresses
  <2>5. as_usize(regs'.pc) = as_usize(regs.pc) + 4
    BY <2>3, <2>4, NextPc
  <2>6. as_usize(regs.pc) \in Nat /\ as_usize(regs.pc) + 4 <= Size
    <3>1. UsizeSpace \in Nat \ {0} /\ regs.pc \in Int
      BY <2>4, MemoryAssumption
    <3>2. regs.pc % UsizeSpace \in Nat
      BY <3>1, DivMod
    <3>. QED BY <2>3, <3>2 DEF Fetchable, as_usize
  <2>7. Left' = Size - as_usize(regs'.pc)
    BY DEF Left, as_usize
  <2>. HIDE DEF as_usize
  <2>. QED BY <2>4, <2>5, <2>6, <2>7 DEF Left
<1>2. FileInv /\ [Next]_vars => [running /\ running' => Left' \in Nat /\ Left' = Left - 4]_vars
  BY <1>1
<1>. QED
  BY <1>2, FileHolds, PTL DEF Spec, RunDescends
=============================================================================
