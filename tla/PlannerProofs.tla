--------------------------- MODULE PlannerProofs ---------------------------
(***************************************************************************)
(* What the arithmetic of the planner guarantees for every quantity: where *)
(* a clamp, a step, a bump and a scaled limit may land.                    *)
(***************************************************************************)
EXTENDS Planner, TLAPS

Positive == Nat \ {0}

---------------------------------------------------------------------------
(* Integer arithmetic.                                                     *)

\* Products of naturals are naturals, and grow with either factor.
LEMMA ProductMonotonic ==
  ASSUME NEW a \in Nat, NEW b \in Nat, NEW c \in Nat, a <= b
  PROVE  a * c \in Nat /\ a * c <= b * c
OBVIOUS

\* Integer division: the quotient brackets the dividend.
LEMMA Quotient ==
  ASSUME NEW a \in Nat, NEW b \in Nat, b > 0
  PROVE  /\ a \div b \in Nat
         /\ (a \div b) * b <= a
         /\ a < (a \div b) * b + b
<1>1. a \div b \in Nat
  OBVIOUS
<1>2. (a \div b) * b <= a
  OBVIOUS
<1>3. a < (a \div b) * b + b
  OBVIOUS
<1> QED
  BY <1>1, <1>2, <1>3

\* A quotient is at least q when the dividend is at least q divisors.
LEMMA QuotientAtLeast ==
  ASSUME NEW a \in Nat, NEW b \in Nat, b > 0, NEW q \in Nat, q * b <= a
  PROVE  q <= a \div b
OBVIOUS

\* The quotient rounded up is large enough.
LEMMA CeilDivEnough ==
  ASSUME NEW a \in Nat, NEW b \in Positive
  PROVE  CeilDiv(a, b) \in Nat /\ a <= CeilDiv(a, b) * b
<1> DEFINE d == (a + b - 1) \div b
<1>1. a + b - 1 \in Nat /\ b \in Nat /\ b > 0
  BY DEF Positive
<1>2. d \in Nat /\ a + b - 1 < d * b + b
  BY <1>1, Quotient
<1>3. CeilDiv(a, b) = d
  BY DEF CeilDiv
<1> HIDE DEF d
<1>4. d * b \in Nat
  BY <1>1, <1>2
<1> QED
  BY <1>1, <1>2, <1>3, <1>4

---------------------------------------------------------------------------
(* Targets.                                                                *)

\* Rounding up gives a natural.
LEMMA MarginType ==
  ASSUME NEW raw \in Nat, NEW step \in Positive
  PROVE  WithMargin(raw, step) \in Nat
<1>1. raw * 110 \in Nat /\ 100 * step \in Positive
  BY DEF Positive
<1>2. CeilDiv(raw * 110, 100 * step) \in Nat
  BY <1>1, CeilDivEnough
<1> QED
  BY <1>2 DEF WithMargin, Positive

InBounds(q, b) == b.min <= q /\ q <= b.max

\* A recommendation lies within the bounds of its container.
LEMMA RecommendInBounds ==
  ASSUME NEW raw \in Targets, NEW cb \in Bounds, NEW mb \in Bounds,
         cb.min <= cb.max, mb.min <= mb.max
  PROVE  /\ Recommend(raw, cb, mb) \in Targets
         /\ InBounds(Recommend(raw, cb, mb).cpu, cb)
         /\ InBounds(Recommend(raw, cb, mb).mem, mb)
<1>1. WithMargin(raw.cpu, CPURounding) \in Nat /\ WithMargin(raw.mem, MemRounding) \in Nat
  BY MarginType, RoundingAssumption DEF Targets, Positive
<1>2. RoundUp(MinMemory, MemRounding) \in Nat
  <2>1. CeilDiv(MinMemory, MemRounding) \in Nat
    BY CeilDivEnough, RoundingAssumption DEF Positive
  <2> QED
    BY <2>1, RoundingAssumption DEF RoundUp
<1>3. ASSUME NEW q \in Nat, NEW b \in Bounds, b.min <= b.max
      PROVE  ClampQuantity(q, b) \in Nat /\ InBounds(ClampQuantity(q, b), b)
  BY <1>3 DEF ClampQuantity, InBounds, Bounds
<1> QED
  BY <1>1, <1>2, <1>3 DEF Recommend, Targets

\* The margin never falls short of the usage it is added to, and a target falls
\* short of that usage only at the max of its container.
LEMMA MarginEnough ==
  ASSUME NEW raw \in Nat, NEW step \in Positive
  PROVE  raw <= WithMargin(raw, step)
<1> DEFINE q == CeilDiv(raw * 110, 100 * step)
<1>1. raw * 110 \in Nat /\ 100 * step \in Positive /\ step \in Nat
  BY DEF Positive
<1>2. q \in Nat /\ raw * 110 <= q * (100 * step)
  BY <1>1, CeilDivEnough
<1> HIDE DEF q
<1>3. q * step \in Nat /\ q * (100 * step) = 100 * (q * step)
  BY <1>1, <1>2
<1> DEFINE w == q * step
<1>4. w \in Nat /\ raw * 110 <= 100 * w
  BY <1>2, <1>3
<1> HIDE DEF w
<1>5. raw <= w
  BY <1>4
<1> QED
  BY <1>5 DEF WithMargin, q, w

LEMMA RecommendEnough ==
  ASSUME NEW raw \in Targets, NEW cb \in Bounds, NEW mb \in Bounds,
         cb.min <= cb.max, mb.min <= mb.max
  PROVE  /\ raw.cpu <= Recommend(raw, cb, mb).cpu \/ cb.max <= Recommend(raw, cb, mb).cpu
         /\ raw.mem <= Recommend(raw, cb, mb).mem \/ mb.max <= Recommend(raw, cb, mb).mem
<1> DEFINE c == WithMargin(raw.cpu, CPURounding)
           m == WithMargin(raw.mem, MemRounding)
           low == RoundUp(MinMemory, MemRounding)
<1>1. /\ c \in Nat /\ raw.cpu <= c /\ raw.cpu \in Nat
      /\ m \in Nat /\ raw.mem <= m /\ raw.mem \in Nat
  BY MarginType, MarginEnough, RoundingAssumption DEF Targets, Positive
<1>2. low \in Nat
  <2>1. CeilDiv(MinMemory, MemRounding) \in Nat
    BY CeilDivEnough, RoundingAssumption DEF Positive
  <2> QED
    BY <2>1, RoundingAssumption DEF RoundUp
<1>3. ASSUME NEW r \in Nat, NEW q \in Nat, r <= q, NEW b \in Bounds, b.min <= b.max
      PROVE  r <= ClampQuantity(q, b) \/ b.max <= ClampQuantity(q, b)
  BY <1>3 DEF ClampQuantity, Bounds
<1>4. /\ Recommend(raw, cb, mb).cpu = ClampQuantity(c, cb)
      /\ Recommend(raw, cb, mb).mem = ClampQuantity(IF m > low THEN m ELSE low, mb)
  BY DEF Recommend
<1> HIDE DEF c, m, low
<1>5. raw.cpu <= ClampQuantity(c, cb) \/ cb.max <= ClampQuantity(c, cb)
  BY <1>1, <1>3
<1>6. \A q \in Nat : raw.mem <= q => raw.mem <= ClampQuantity(q, mb) \/ mb.max <= ClampQuantity(q, mb)
  BY <1>1, <1>3
<1> DEFINE q == IF m > low THEN m ELSE low
<1>7. q \in Nat /\ raw.mem <= q
  BY <1>1, <1>2
<1> HIDE DEF q
<1>8. raw.mem <= ClampQuantity(q, mb) \/ mb.max <= ClampQuantity(q, mb)
  BY <1>6, <1>7
<1> QED
  BY <1>4, <1>5, <1>8 DEF q

\* The floor of an HPA keeps the utilization at or below target - headroom.
LEMMA FloorEnough ==
  ASSUME NEW usage \in Nat, NEW target \in Nat, NEW headroom \in Nat
  PROVE  /\ RequestFloor(usage, target, headroom) \in Nat
         /\ target > headroom =>
              usage * 100 <= RequestFloor(usage, target, headroom) * (target - headroom)
<1>1. CASE target > headroom
  <2>1. usage * 100 \in Nat /\ target - headroom \in Positive
    BY <1>1 DEF Positive
  <2>2. RequestFloor(usage, target, headroom) = CeilDiv(usage * 100, target - headroom)
    BY <1>1 DEF RequestFloor
  <2> QED
    BY <2>1, <2>2, CeilDivEnough
<1>2. CASE ~(target > headroom)
  BY <1>2 DEF RequestFloor
<1> QED
  BY <1>1, <1>2

\* Flooring never lowers a target, and reaches both floors.
LEMMA FloorTargetFacts ==
  ASSUME NEW t \in Targets, NEW u \in Targets,
         NEW hpa, hpa.cpu \in Nat, hpa.mem \in Nat, hpa.headroom \in Nat
  PROVE  /\ FloorTarget(t, u, hpa) \in Targets
         /\ FloorTarget(t, u, hpa).cpu >= t.cpu /\ FloorTarget(t, u, hpa).mem >= t.mem
         /\ FloorTarget(t, u, hpa).cpu >= RequestFloor(u.cpu, hpa.cpu, hpa.headroom)
         /\ FloorTarget(t, u, hpa).mem >= RequestFloor(u.mem, hpa.mem, hpa.headroom)
<1>1. /\ RequestFloor(u.cpu, hpa.cpu, hpa.headroom) \in Nat
      /\ RequestFloor(u.mem, hpa.mem, hpa.headroom) \in Nat
  BY FloorEnough DEF Targets
<1> QED
  BY <1>1 DEF FloorTarget, Targets

---------------------------------------------------------------------------
(* Steps, bumps and limits.                                                *)

Between(x, a, b) == \/ a <= x /\ x <= b
                    \/ b <= x /\ x <= a

\* A step goes towards the target and never past it: it lands between the
\* current request and the target, and stays positive.
LEMMA StepBetween ==
  ASSUME NEW cur \in Positive, NEW want \in Positive, NEW policy \in Policies
  PROVE  StepClamp(cur, want, policy) \in Positive /\ Between(StepClamp(cur, want, policy), cur, want)
<1>1. cur * policy.up \in Nat /\ cur * policy.down \in Nat
  BY DEF Positive, Policies
<1>2. (cur * policy.up) \div 100 \in Nat /\ (cur * policy.down) \div 100 \in Nat
  BY <1>1
<1> DEFINE up == (cur * policy.up) \div 100
           down == (cur * policy.down) \div 100
<1>3. up \in Nat /\ down \in Nat
  BY <1>2
<1>4. StepClamp(cur, want, policy) =
        IF want > cur THEN IF want > cur + up THEN cur + up ELSE want
        ELSE IF want < cur - down THEN cur - down ELSE want
  BY DEF StepClamp
<1> HIDE DEF up, down
<1> QED
  BY <1>3, <1>4 DEF Positive, Between

\* An OOM bump that is due raises the request, at most to the max.
LEMMA BumpBetween ==
  ASSUME NEW cur \in Nat, NEW max \in Nat, OOMMemory(cur, max) > cur
  PROVE  OOMMemory(cur, max) \in Positive /\ OOMMemory(cur, max) <= max
<1>1. (cur * 3) \div 2 \in Nat
  OBVIOUS
<1> QED
  BY <1>1 DEF OOMMemory, Positive

\* A scaled limit stays at or above its request, also when the float product
\* slips one unit below the exact one.
LEMMA ScaledLimitEnough ==
  ASSUME NEW new \in Nat, NEW lim \in Nat, NEW req \in Positive, req <= lim,
         NEW slip \in {0, 1}
  PROVE  ScaleLimit(new, lim, req, slip) \in Nat /\ new <= ScaleLimit(new, lim, req, slip)
<1> DEFINE p == new * lim
           q == p \div req
<1>1. req \in Nat /\ req > 0
  BY DEF Positive
<1>2. p \in Nat /\ new * req \in Nat /\ new * req <= p
  <2>1. req * new \in Nat /\ req * new <= lim * new
    BY <1>1, ProductMonotonic
  <2>2. req * new = new * req /\ lim * new = new * lim
    BY <1>1
  <2> QED
    BY <2>1, <2>2
<1>3. q \in Nat /\ new <= q /\ q * req <= p /\ p < q * req + req
  BY <1>1, <1>2, Quotient, QuotientAtLeast
<1>4. ScaleLimit(new, lim, req, slip) =
        IF lim # req /\ q > 0 /\ p % req = 0 THEN q - slip ELSE q
  BY DEF ScaleLimit
<1>5. CASE lim # req /\ q > 0 /\ p % req = 0
  <2>1. CASE new = 0
    BY <1>3, <1>4, <1>5, <2>1
  <2>2. CASE new > 0
    <3>1. p = q * req
      BY <1>1, <1>2, <1>5
    <3>2. new * req < p
      <4>1. (req + 1) * new <= lim * new
        BY <1>1, <1>5, ProductMonotonic
      <4>2. (req + 1) * new = new * req + new /\ lim * new = p
        BY <1>1
      <4> QED
        BY <1>2, <2>2, <4>1, <4>2
    <3> HIDE DEF p, q
    <3>3. q # new
      BY <3>1, <3>2
    <3> QED
      BY <1>3, <1>4, <1>5, <3>3
  <2> QED
    BY <2>1, <2>2
<1>6. CASE ~(lim # req /\ q > 0 /\ p % req = 0)
  BY <1>3, <1>4, <1>6
<1> QED
  BY <1>5, <1>6

\* Where the limit leaves more than one unit of room over the new request, the
\* scaled limit stays strictly above it, also when the float product slips.
LEMMA ScaledLimitAbove ==
  ASSUME NEW new \in Nat, NEW lim \in Nat, NEW req \in Positive, req < lim,
         NEW slip \in {0, 1}, req < new * (lim - req)
  PROVE  ScaleLimit(new, lim, req, slip) \in Nat /\ new < ScaleLimit(new, lim, req, slip)
<1> DEFINE p == new * lim
           q == p \div req
<1>1. req \in Nat /\ req > 0 /\ p \in Nat
  BY DEF Positive
<1>2. (new + 1) * req \in Nat /\ (new + 1) * req < p
  <2>1. new * (lim - req) = new * lim - new * req /\ (new + 1) * req = new * req + req
    BY <1>1
  <2>2. new * req \in Nat /\ new * lim \in Nat
    BY <1>1
  <2> QED
    BY <1>1, <2>1, <2>2
<1>3. q \in Nat /\ new + 1 <= q /\ q * req <= p
  BY <1>1, <1>2, Quotient, QuotientAtLeast
<1>4. ScaleLimit(new, lim, req, slip) =
        IF lim # req /\ q > 0 /\ p % req = 0 THEN q - slip ELSE q
  BY DEF ScaleLimit
<1>5. CASE p % req = 0
  <2>1. p = q * req
    BY <1>1, <1>5
  <2> HIDE DEF p, q
  <2>2. q # new + 1
    BY <1>2, <2>1
  <2> QED
    BY <1>3, <1>4, <2>2
<1>6. CASE p % req # 0
  BY <1>3, <1>4, <1>6
<1> QED
  BY <1>5, <1>6

\* The limits that go with new requests: the result is a spec the API server
\* accepts, a request is lowered only to an existing limit, and a memory limit
\* shrinks only where it is pinned to the request of a Guaranteed pod.
LEMMA PlanLimitsFacts ==
  ASSUME NEW c \in Resources, RequestsUnder(c),
         c.cpuReq \in Positive, c.memReq \in Positive,
         NEW cpu \in Positive, NEW mem \in Positive, NEW policy \in Policies,
         NEW guaranteed \in BOOLEAN, NEW slip \in {0, 1},
         NEW r, r = PlanLimits(c, cpu, mem, policy, guaranteed, slip)
  PROVE  /\ r \in Resources /\ RequestsUnder(r)
         /\ r.cpuReq # cpu => c.cpuReq <= r.cpuReq /\ r.cpuReq < cpu
         /\ r.memReq # mem => c.memReq <= r.memReq /\ r.memReq < mem
         /\ IF guaranteed THEN r.memLim = mem ELSE c.memLim <= r.memLim
<1>1. CASE policy.requestsOnly /\ ~guaranteed
  <2>1. r = [c EXCEPT !.cpuReq = CapAt(cpu, c.cpuLim), !.memReq = CapAt(mem, c.memLim)]
    BY <1>1 DEF PlanLimits
  <2>2. /\ r.cpuReq = CapAt(cpu, c.cpuLim) /\ r.cpuLim = c.cpuLim
        /\ r.memReq = CapAt(mem, c.memLim) /\ r.memLim = c.memLim
    BY <2>1 DEF Resources
  <2>3. CapAt(cpu, c.cpuLim) \in Nat /\ CapAt(mem, c.memLim) \in Nat
    BY DEF CapAt, Resources, Positive
  <2>4. r \in Resources
    BY <2>1, <2>3 DEF Resources
  <2>5. /\ RequestsUnder(r) /\ c.memLim <= r.memLim
        /\ r.cpuReq # cpu => c.cpuReq <= r.cpuReq /\ r.cpuReq < cpu
        /\ r.memReq # mem => c.memReq <= r.memReq /\ r.memReq < mem
    BY <2>2 DEF CapAt, Resources, RequestsUnder, Positive, NotSet
  <2> QED
    BY <1>1, <2>4, <2>5, Zenon
<1>2. CASE guaranteed
  <2>1. r = [cpuReq |-> cpu, memReq |-> mem, cpuLim |-> cpu, memLim |-> mem]
    BY <1>2 DEF PlanLimits
  <2>2. /\ r \in Resources /\ RequestsUnder(r)
        /\ r.cpuReq = cpu /\ r.memReq = mem /\ r.memLim = mem
    BY <2>1 DEF Resources, RequestsUnder, Positive
  <2> QED
    BY <1>2, <2>2, Zenon
<1>3. CASE ~policy.requestsOnly /\ ~guaranteed
  <2> DEFINE cl == ScaleLimit(cpu, c.cpuLim, c.cpuReq, slip)
             ml == ScaleLimit(mem, c.memLim, c.memReq, slip)
  <2>1. r = [cpuReq |-> cpu, memReq |-> mem,
             cpuLim |-> IF c.cpuLim = NotSet THEN NotSet ELSE cl,
             memLim |-> IF c.memLim = NotSet THEN NotSet
                        ELSE IF ml > c.memLim THEN ml ELSE c.memLim]
    BY <1>3 DEF PlanLimits
  <2>2. c.cpuLim # NotSet => cl \in Nat /\ cpu <= cl
    BY ScaledLimitEnough DEF Resources, RequestsUnder, Positive
  <2>3. c.memLim # NotSet => ml \in Nat /\ mem <= ml
    BY ScaledLimitEnough DEF Resources, RequestsUnder, Positive
  <2> HIDE DEF cl, ml
  <2> QED
    BY <1>3, <2>1, <2>2, <2>3 DEF Resources, RequestsUnder, Positive, NotSet
<1> QED
  BY <1>1, <1>2, <1>3

\* What planLimits keeps of a container: requests that are set stay set, limits
\* that are not set stay so, the limits of a Guaranteed pod are the requests,
\* and a memory limit that scales stays strictly above its request.
LEMMA PlanLimitsShape ==
  ASSUME NEW c \in Resources, RequestsUnder(c),
         c.cpuReq \in Positive, c.memReq \in Positive,
         NEW cpu \in Positive, NEW mem \in Positive, NEW policy \in Policies,
         NEW guaranteed \in BOOLEAN, NEW slip \in {0, 1},
         NEW r, r = PlanLimits(c, cpu, mem, policy, guaranteed, slip)
  PROVE  /\ r.cpuReq # NotSet /\ r.memReq # NotSet
         /\ guaranteed => r.cpuReq = r.cpuLim /\ r.memReq = r.memLim
         /\ ~guaranteed /\ c.cpuLim = NotSet => r.cpuLim = NotSet
         /\ ~guaranteed /\ c.memLim = NotSet => r.memLim = NotSet
         /\ ~guaranteed /\ ~policy.requestsOnly /\ c.memReq < c.memLim => r.memReq < r.memLim
<1>1. CASE policy.requestsOnly /\ ~guaranteed
  <2>1. r = [c EXCEPT !.cpuReq = CapAt(cpu, c.cpuLim), !.memReq = CapAt(mem, c.memLim)]
    BY <1>1 DEF PlanLimits
  <2>2. /\ r.cpuReq = CapAt(cpu, c.cpuLim) /\ r.cpuLim = c.cpuLim
        /\ r.memReq = CapAt(mem, c.memLim) /\ r.memLim = c.memLim
    BY <2>1 DEF Resources
  <2>3. CapAt(cpu, c.cpuLim) # NotSet /\ CapAt(mem, c.memLim) # NotSet
    BY DEF CapAt, Resources, Positive, NotSet
  <2> QED
    BY <1>1, <2>2, <2>3, Zenon
<1>2. CASE guaranteed
  <2>1. r = [cpuReq |-> cpu, memReq |-> mem, cpuLim |-> cpu, memLim |-> mem]
    BY <1>2 DEF PlanLimits
  <2>2. r.cpuReq = cpu /\ r.memReq = mem /\ r.cpuLim = cpu /\ r.memLim = mem
    BY <2>1
  <2>3. cpu # NotSet /\ mem # NotSet
    BY DEF Positive, NotSet
  <2> QED
    BY <1>2, <2>2, <2>3, Zenon
<1>3. CASE ~policy.requestsOnly /\ ~guaranteed
  <2> DEFINE cl == ScaleLimit(cpu, c.cpuLim, c.cpuReq, slip)
             ml == ScaleLimit(mem, c.memLim, c.memReq, slip)
             nl == IF ml > c.memLim THEN ml ELSE c.memLim
  <2>1. r = [cpuReq |-> cpu, memReq |-> mem,
             cpuLim |-> IF c.cpuLim = NotSet THEN NotSet ELSE cl,
             memLim |-> IF c.memLim = NotSet THEN NotSet ELSE nl]
    BY <1>3 DEF PlanLimits
  <2>2. ASSUME c.memReq < c.memLim PROVE mem < nl
    <3>1. c.memReq \in Nat /\ c.memLim \in Nat /\ mem \in Nat /\ mem > 0 /\ c.memReq > 0
      BY DEF Resources, Positive
    <3>2. ml \in Nat /\ mem <= ml
      <4>1. c.memReq <= c.memLim
        BY <2>2, <3>1
      <4> QED
        BY <3>1, <4>1, ScaledLimitEnough
    <3>3. CASE mem <= c.memReq
      <4> HIDE DEF ml
      <4> QED
        BY <2>2, <3>1, <3>2, <3>3
    <3>4. CASE c.memReq < mem
      <4>1. mem <= mem * (c.memLim - c.memReq)
        <5>1. mem = 1 * mem /\ 1 <= c.memLim - c.memReq /\ c.memLim - c.memReq \in Nat
          BY <2>2, <3>1
        <5>2. 1 * mem <= (c.memLim - c.memReq) * mem
          BY <3>1, <5>1, ProductMonotonic
        <5>3. (c.memLim - c.memReq) * mem = mem * (c.memLim - c.memReq)
          BY <3>1
        <5> QED
          BY <5>1, <5>2, <5>3
      <4>2. mem * (c.memLim - c.memReq) \in Int
        BY <3>1
      <4>3. c.memReq < mem * (c.memLim - c.memReq)
        BY <3>1, <3>4, <4>1, <4>2
      <4>4. mem < ml
        BY <2>2, <3>1, <4>3, ScaledLimitAbove
      <4> HIDE DEF ml
      <4> QED
        BY <3>1, <3>2, <4>4
    <3> QED
      BY <3>1, <3>3, <3>4
  <2>3. cpu # NotSet /\ mem # NotSet
    BY DEF Positive, NotSet
  <2>4. c.memReq < c.memLim => c.memLim # NotSet
    BY DEF Resources, NotSet
  <2> HIDE DEF cl, nl
  <2>5. /\ r.cpuReq = cpu /\ r.memReq = mem
        /\ r.cpuLim = IF c.cpuLim = NotSet THEN NotSet ELSE cl
        /\ r.memLim = IF c.memLim = NotSet THEN NotSet ELSE nl
    BY <2>1
  <2> QED
    BY <1>3, <2>2, <2>3, <2>4, <2>5, Zenon
<1> QED
  BY <1>1, <1>2, <1>3

\* A planned container: nothing changes, or both requests land between the
\* current request and the target, on a spec the API server accepts.
LEMMA PlanContainerFacts ==
  ASSUME NEW c \in Resources, RequestsUnder(c), NEW want \in Targets,
         NEW policy \in Policies, NEW guaranteed \in BOOLEAN,
         guaranteed => c.memReq = c.memLim, NEW slip \in {0, 1},
         NEW r, r = PlanContainer(c, want, policy, guaranteed, slip), r # c
  PROVE  /\ r \in Resources /\ RequestsUnder(r)
         /\ c.cpuReq \in Positive /\ c.memReq \in Positive
         /\ r.cpuReq \in Positive /\ r.memReq \in Positive
         /\ Between(r.cpuReq, c.cpuReq, want.cpu)
         /\ Between(r.memReq, c.memReq, want.mem)
         /\ c.memLim <= r.memLim
<1> DEFINE cpu == StepClamp(c.cpuReq, want.cpu, policy)
           stepped == StepClamp(c.memReq, want.mem, policy)
           mem == IF guaranteed /\ stepped < c.memReq THEN c.memReq ELSE stepped
<1>1. /\ c.cpuReq \in Positive /\ c.memReq \in Positive
      /\ want.cpu \in Positive /\ want.mem \in Positive
      /\ r = PlanLimits(c, cpu, mem, policy, guaranteed, slip)
  BY DEF PlanContainer, Resources, Targets, Positive, NotSet
<1>2. cpu \in Positive /\ Between(cpu, c.cpuReq, want.cpu)
  BY <1>1, StepBetween
<1>3. stepped \in Positive /\ Between(stepped, c.memReq, want.mem)
  BY <1>1, StepBetween
<1> HIDE DEF cpu, stepped
<1>4. /\ mem \in Positive /\ Between(mem, c.memReq, want.mem)
      /\ guaranteed => c.memReq <= mem
  BY <1>1, <1>3 DEF Between, Positive
<1> HIDE DEF mem
<1>5. /\ r \in Resources /\ RequestsUnder(r)
      /\ r.cpuReq # cpu => c.cpuReq <= r.cpuReq /\ r.cpuReq < cpu
      /\ r.memReq # mem => c.memReq <= r.memReq /\ r.memReq < mem
      /\ IF guaranteed THEN r.memLim = mem ELSE c.memLim <= r.memLim
  BY <1>1, <1>2, <1>4, PlanLimitsFacts
<1>6. /\ r.cpuReq \in Nat /\ r.memReq \in Nat /\ r.memLim \in Nat /\ c.memLim \in Nat
  BY <1>5 DEF Resources
<1>7. r.cpuReq \in Positive /\ Between(r.cpuReq, c.cpuReq, want.cpu)
  BY <1>1, <1>2, <1>5, <1>6 DEF Between, Positive
<1>8. r.memReq \in Positive /\ Between(r.memReq, c.memReq, want.mem)
  BY <1>1, <1>4, <1>5, <1>6 DEF Between, Positive
<1>9. c.memLim <= r.memLim
  BY <1>4, <1>5, <1>6
<1> QED
  BY <1>1, <1>5, <1>7, <1>8, <1>9

\* A bumped container: only its memory is raised, at most to the max.
LEMMA BumpFacts ==
  ASSUME NEW c \in Resources, RequestsUnder(c),
         c.cpuReq # NotSet, c.memReq # NotSet, NEW max \in Nat,
         OOMMemory(c.memReq, max) > c.memReq, NEW policy \in Policies,
         NEW guaranteed \in BOOLEAN, guaranteed => c.memReq = c.memLim,
         NEW slip \in {0, 1}, NEW r,
         r = PlanLimits(c, c.cpuReq, OOMMemory(c.memReq, max), policy, guaranteed, slip)
  PROVE  /\ r \in Resources /\ RequestsUnder(r)
         /\ r.cpuReq = c.cpuReq
         /\ c.memReq <= r.memReq /\ r.memReq <= max
         /\ c.memLim <= r.memLim
<1> DEFINE b == OOMMemory(c.memReq, max)
<1>1. c.cpuReq \in Positive /\ c.memReq \in Positive
  BY DEF Resources, Positive, NotSet
<1>2. b \in Positive /\ b <= max /\ b > c.memReq
  BY <1>1, BumpBetween DEF Positive
<1> HIDE DEF b
<1>3. r = PlanLimits(c, c.cpuReq, b, policy, guaranteed, slip)
  BY DEF b
<1>4. /\ r \in Resources /\ RequestsUnder(r)
      /\ r.cpuReq # c.cpuReq => c.cpuReq <= r.cpuReq /\ r.cpuReq < c.cpuReq
      /\ r.memReq # b => c.memReq <= r.memReq /\ r.memReq < b
      /\ IF guaranteed THEN r.memLim = b ELSE c.memLim <= r.memLim
  BY <1>1, <1>2, <1>3, PlanLimitsFacts
<1>5. r.cpuReq \in Nat /\ r.memReq \in Nat /\ r.memLim \in Nat /\ c.memLim \in Nat
  BY <1>4 DEF Resources
<1> QED
  BY <1>1, <1>2, <1>4, <1>5 DEF Positive

\* A container at admission: the injected target, and limits that the API
\* server accepts with it.
LEMMA ApplyTargetFacts ==
  ASSUME NEW c \in Resources, RequestsUnder(c), NEW want \in Targets, NEW slip \in {0, 1},
         NEW r, r = ApplyTarget(c, want, slip)
  PROVE  /\ r \in Resources /\ RequestsUnder(r)
         /\ r.cpuReq \in {c.cpuReq, want.cpu} /\ r.memReq \in {c.memReq, want.mem}
<1>1. ASSUME NEW new \in Nat, NEW lim \in Nat, NEW req \in Nat, req # NotSet,
             lim # NotSet => req <= lim
      PROVE  /\ TargetLimit(new, lim, req, slip) \in Nat
             /\ TargetLimit(new, lim, req, slip) # NotSet => new <= TargetLimit(new, lim, req, slip)
  <2>1. CASE lim = NotSet \/ lim = req
    BY <1>1, <2>1 DEF TargetLimit, NotSet
  <2>2. CASE lim # NotSet /\ lim # req
    <3>1. req \in Positive /\ req <= lim
      BY <1>1, <2>2 DEF Positive, NotSet
    <3>2. TargetLimit(new, lim, req, slip) = ScaleLimit(new, lim, req, slip)
      BY <2>2 DEF TargetLimit
    <3> QED
      BY <1>1, <3>1, <3>2, ScaledLimitEnough
  <2> QED
    BY <2>1, <2>2
<1> DEFINE cl == TargetLimit(want.cpu, c.cpuLim, c.cpuReq, slip)
           ml == TargetLimit(want.mem, c.memLim, c.memReq, slip)
<1>2. c.cpuReq # NotSet => cl \in Nat /\ (cl # NotSet => want.cpu <= cl)
  BY <1>1 DEF Resources, RequestsUnder, Targets
<1>3. c.memReq # NotSet => ml \in Nat /\ (ml # NotSet => want.mem <= ml)
  BY <1>1 DEF Resources, RequestsUnder, Targets
<1>4. r = [cpuReq |-> IF c.cpuReq # NotSet THEN want.cpu ELSE c.cpuReq,
           memReq |-> IF c.memReq # NotSet THEN want.mem ELSE c.memReq,
           cpuLim |-> IF c.cpuReq # NotSet THEN cl ELSE c.cpuLim,
           memLim |-> IF c.memReq # NotSet THEN ml ELSE c.memLim]
  BY DEF ApplyTarget
<1> HIDE DEF cl, ml
<1> QED
  BY <1>2, <1>3, <1>4 DEF Resources, RequestsUnder, Targets
============================================================================
