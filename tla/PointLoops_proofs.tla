--------------------------- MODULE PointLoops_proofs ---------------------------
(***************************************************************************)
(* Proofs about the three loops over grid points, for any number of        *)
(* features, any thresholds and grids of any length: the generated code is *)
(* only given arguments it is defined for, and the streaming integral and  *)
(* the contraction are the sums over what the work function stores.        *)
(***************************************************************************)
EXTENDS PointLoops, SequenceTheorems, TLAPS

(* What the three loops leave at a point, feature by feature. *)
ZkCell(p, f) ==
  IF Screened(p) THEN << >> ELSE <<Value(<<"zk", 0>>, f, StackArguments(p))>>
FirstCell(p, d, f) ==
  IF Screened(p) THEN << >> ELSE <<Value(d, f, StackArguments(p))>>
ContractedCell(p, d) ==
  IF Screened(p) THEN << >>
  ELSE [i \in 1..NFeatures |-> Scaled(i - 1, Value(d, i - 1, StackArguments(p)))]

(* A cell of the streaming integral after the first n points. *)
Streamed(cell, f, n) ==
  /\ cell \in Seq({cell[i] : i \in DOMAIN cell})
  /\ \A i \in DOMAIN cell :
       \E p \in 1..n :
         /\ ~Screened(p)
         /\ cell[i] = Weighted(p, Total(p), Value(<<"zk", 0>>, f, StackArguments(p)))
  /\ \A i, j \in DOMAIN cell : i < j => cell[i].weight < cell[j].weight
  /\ \A p \in 1..n : ~Screened(p) => \E i \in DOMAIN cell : cell[i].weight = p

GridInv ==
  /\ grid \in Grids
  /\ phase \in {"work", "stream", "contract", "done"}
  /\ point \in 1..NPoints+1

(* Points the work function has been at are as it leaves them ... *)
WorkInv ==
  LET over(p) == phase # "work" \/ p < point
  IN  /\ zk = [p \in 1..NPoints |->
                 [f \in Features |-> IF over(p) THEN ZkCell(p, f) ELSE << >>]]
      /\ first = [p \in 1..NPoints |->
                    [d \in Partials |->
                       [f \in Features |-> IF over(p) THEN FirstCell(p, d, f) ELSE << >>]]]

(* ... the sums have the points the streaming loop has been at ... *)
StreamInv ==
  /\ features = [f \in Features |-> features[f]]
  /\ phase = "work" => \A f \in Features : features[f] = Caller
  /\ phase = "stream" => \A f \in Features : Streamed(features[f], f, point - 1)
  /\ phase \in {"contract", "done"} => \A f \in Features : Streamed(features[f], f, NPoints)

(* ... and the rows behind the contraction are contracted. *)
ContractInv ==
  contracted =
    [p \in 1..NPoints |->
       [d \in Partials |->
          IF phase = "done" \/ (phase = "contract" /\ p < point)
          THEN ContractedCell(p, d) ELSE Caller]]

PointInv == GridInv /\ WorkInv /\ StreamInv /\ ContractInv
-----------------------------------------------------------------------------
(* What depends on the grid alone does not change with the other variables. *)
LEMMA SameGrid ==
  ASSUME grid' = grid
  PROVE  /\ NPoints' = NPoints /\ Partials' = Partials /\ Polarized' = Polarized
         /\ \A p : Screened(p)' = Screened(p)
         /\ \A p : Total(p)' = Total(p)
         /\ \A p : StackArguments(p)' = StackArguments(p)
         /\ \A p, f : ZkCell(p, f)' = ZkCell(p, f)
         /\ \A p, d, f : FirstCell(p, d, f)' = FirstCell(p, d, f)
         /\ \A p, d : ContractedCell(p, d)' = ContractedCell(p, d)
         /\ \A cell, f, n : Streamed(cell, f, n)' <=> Streamed(cell, f, n)
<1>1. NPoints' = NPoints /\ Partials' = Partials /\ Polarized' = Polarized
  BY DEF NPoints, Partials, Polarized
<1>2. \A p : Total(p)' = Total(p)
  BY <1>1 DEF Total
<1>3. \A p : Screened(p)' = Screened(p)
  BY <1>2 DEF Screened
<1>4. \A p : StackArguments(p)' = StackArguments(p)
  BY DEF StackArguments
<1>5. \A p, f : ZkCell(p, f)' = ZkCell(p, f)
  BY <1>3, <1>4 DEF ZkCell
<1>6. \A p, d, f : FirstCell(p, d, f)' = FirstCell(p, d, f)
  BY <1>3, <1>4 DEF FirstCell
<1>7. \A p, d : ContractedCell(p, d)' = ContractedCell(p, d)
  BY <1>3, <1>4 DEF ContractedCell
<1>8. \A cell, f, n : Streamed(cell, f, n)' <=> Streamed(cell, f, n)
  BY <1>2, <1>3, <1>4 DEF Streamed
<1>9. QED
  BY <1>1, <1>2, <1>3, <1>4, <1>5, <1>6, <1>7, <1>8

(* What is known of a point of a grid. *)
LEMMA PointTypes ==
  ASSUME grid \in Grids
  PROVE  /\ NPoints \in Nat
         /\ \A p \in 1..NPoints : grid.points[p] \in Point(grid.nspin)
         /\ grid.nspin \in {"UNPOLARIZED", "POLARIZED"}
<1>1. grid.points \in Seq(Point(grid.nspin)) /\ grid.nspin \in {"UNPOLARIZED", "POLARIZED"}
  BY PointAssumption
<1>2. QED
  BY <1>1 DEF NPoints

(* The two preparations, one with names for the components and one with loops
   over them, come to the same arguments. *)
LEMMA SameArguments ==
  ASSUME grid \in Grids, NEW p \in 1..NPoints
  PROVE  WorkArguments(p) = StackArguments(p)
<1>. DEFINE in == grid.points[p]
            outer(k) == Larger(SigmaThreshold2, in.sigma[k])
            average == (outer(1) + outer(3)) \div 2
<1>1. in \in Point(grid.nspin)
  BY PointTypes
<1>2. CASE Polarized
  <2>1. in \in [rho : [1..2 -> Int], sigma : [1..3 -> Int], tau : [1..2 -> Int]]
    BY <1>1, <1>2 DEF Point, Polarized
  <2>2. /\ DOMAIN in.rho = 1..2 /\ DOMAIN in.sigma = 1..3 /\ DOMAIN in.tau = 1..2
        /\ in.sigma[1] \in Int /\ in.sigma[2] \in Int /\ in.sigma[3] \in Int
    BY <2>1
  <2>3. outer(1) \in Nat /\ outer(3) \in Nat /\ average \in Nat
    <3>1. outer(1) \in Nat /\ outer(3) \in Nat
      <4>. DEFINE s1 == in.sigma[1]
                  s3 == in.sigma[3]
      <4>1. s1 \in Int /\ s3 \in Int /\ SigmaThreshold2 \in Nat
        BY <2>2, PointAssumption
      <4>. HIDE DEF s1, s3
      <4>2. Larger(SigmaThreshold2, s1) \in Nat /\ Larger(SigmaThreshold2, s3) \in Nat
        BY <4>1 DEF Larger
      <4>. QED
        BY <4>2 DEF s1, s3
    <3>. HIDE DEF outer
    <3>2. QED
      BY <3>1
  <2>4. (LET above == IF in.sigma[2] >= -average THEN in.sigma[2] ELSE -average
         IN  IF above =< average THEN above ELSE average)
        = Smaller(average, Larger(-average, in.sigma[2]))
    <3>. HIDE DEF average
    <3>. QED
      BY <2>2, <2>3 DEF Smaller, Larger
  <2>. DEFINE mixed == Smaller(average, Larger(-average, in.sigma[2]))
              rho(k) == Larger(DensThreshold, in.rho[k])
              tau(k) == Larger(TauThreshold, in.tau[k])
  <2>5. WorkArguments(p) =
          [rho |-> <<rho(1), rho(2)>>, sigma |-> <<outer(1), mixed, outer(3)>>,
           tau |-> <<tau(1), tau(2)>>]
    BY <1>2, <2>4 DEF WorkArguments
  <2>6. StackArguments(p) =
          [rho |-> [k \in 1..2 |-> rho(k)],
           sigma |-> [k \in 1..3 |-> IF k = 2 THEN mixed ELSE outer(k)],
           tau |-> [k \in 1..2 |-> tau(k)]]
    BY <2>2 DEF StackArguments
  <2>7. /\ <<rho(1), rho(2)>> = [k \in 1..2 |-> rho(k)]
        /\ <<tau(1), tau(2)>> = [k \in 1..2 |-> tau(k)]
        /\ <<outer(1), mixed, outer(3)>>
             = [k \in 1..3 |-> IF k = 2 THEN mixed ELSE outer(k)]
    <3>. HIDE DEF rho, tau, outer, mixed
    <3>. QED
      OBVIOUS
  <2>8. QED
    BY <2>5, <2>6, <2>7
<1>3. CASE ~Polarized
  <2>1. in \in [rho : [1..1 -> Int], sigma : [1..1 -> Int], tau : [1..1 -> Int]]
    BY <1>1, <1>3, PointTypes DEF Point, Polarized
  <2>2. /\ DOMAIN in.rho = 1..1 /\ DOMAIN in.sigma = 1..1 /\ DOMAIN in.tau = 1..1
    BY <2>1
  <2>. DEFINE rho(k) == Larger(DensThreshold, in.rho[k])
              tau(k) == Larger(TauThreshold, in.tau[k])
  <2>3. WorkArguments(p) =
          [rho |-> <<rho(1)>>, sigma |-> <<outer(1)>>, tau |-> <<tau(1)>>]
    BY <1>3 DEF WorkArguments
  <2>4. StackArguments(p) =
          [rho |-> [k \in 1..1 |-> rho(k)], sigma |-> [k \in 1..1 |-> outer(k)],
           tau |-> [k \in 1..1 |-> tau(k)]]
    BY <2>2 DEF StackArguments
  <2>5. /\ <<rho(1)>> = [k \in 1..1 |-> rho(k)]
        /\ <<tau(1)>> = [k \in 1..1 |-> tau(k)]
        /\ <<outer(1)>> = [k \in 1..1 |-> outer(k)]
    <3>. HIDE DEF rho, tau, outer
    <3>. QED
      OBVIOUS
  <2>6. QED
    BY <2>3, <2>4, <2>5
<1>4. QED
  BY <1>2, <1>3

(* What the generated code is defined for. *)
Physical(a) ==
  /\ \A k \in DOMAIN a.rho : a.rho[k] >= DensThreshold
  /\ \A k \in DOMAIN a.sigma \ {2} : a.sigma[k] >= SigmaThreshold2
  /\ \A k \in DOMAIN a.tau : a.tau[k] >= TauThreshold
  /\ Polarized => /\ 2 * a.sigma[2] =< a.sigma[1] + a.sigma[3]
                  /\ -2 * a.sigma[2] =< a.sigma[1] + a.sigma[3]

(* Whatever the inputs of a point, the prepared arguments are physical. *)
LEMMA PreparedArePhysical ==
  ASSUME grid \in Grids, NEW p \in 1..NPoints
  PROVE  Physical(StackArguments(p))
<1>. DEFINE in == grid.points[p]
            outer(k) == Larger(SigmaThreshold2, in.sigma[k])
            average == (outer(1) + outer(3)) \div 2
            mixed == Smaller(average, Larger(-average, in.sigma[2]))
            a == StackArguments(p)
<1>1. /\ in \in Point(grid.nspin)
      /\ grid.nspin \in {"UNPOLARIZED", "POLARIZED"}
  BY PointTypes
<1>2. /\ in.rho \in [DOMAIN in.rho -> Int] /\ in.tau \in [DOMAIN in.tau -> Int]
      /\ in.sigma \in [DOMAIN in.sigma -> Int]
  BY <1>1 DEF Point
<1>3. /\ a.rho = [k \in DOMAIN in.rho |-> Larger(DensThreshold, in.rho[k])]
      /\ a.sigma = [k \in DOMAIN in.sigma |-> IF k = 2 THEN mixed ELSE outer(k)]
      /\ a.tau = [k \in DOMAIN in.tau |-> Larger(TauThreshold, in.tau[k])]
  BY DEF StackArguments
<1>. HIDE DEF a
<1>4. /\ \A k \in DOMAIN a.rho : a.rho[k] >= DensThreshold
      /\ \A k \in DOMAIN a.tau : a.tau[k] >= TauThreshold
      /\ \A k \in DOMAIN a.sigma \ {2} : a.sigma[k] >= SigmaThreshold2
  <2>. HIDE DEF mixed
  <2>. /\ DensThreshold \in Int /\ SigmaThreshold2 \in Int /\ TauThreshold \in Int
    BY PointAssumption
  <2>1. \A x, y \in Int : Larger(x, y) >= x
    BY DEF Larger
  <2>2. \A k \in DOMAIN a.rho : a.rho[k] >= DensThreshold
    <3>1. DOMAIN a.rho = DOMAIN in.rho
      BY <1>3
    <3>2. ASSUME NEW k \in DOMAIN in.rho PROVE a.rho[k] >= DensThreshold
      <4>1. a.rho[k] = Larger(DensThreshold, in.rho[k]) /\ in.rho[k] \in Int
        BY <1>2, <1>3
      <4>2. QED
        BY <2>1, <4>1
    <3>3. QED
      BY <3>1, <3>2
  <2>3. \A k \in DOMAIN a.tau : a.tau[k] >= TauThreshold
    <3>1. DOMAIN a.tau = DOMAIN in.tau
      BY <1>3
    <3>2. ASSUME NEW k \in DOMAIN in.tau PROVE a.tau[k] >= TauThreshold
      <4>1. a.tau[k] = Larger(TauThreshold, in.tau[k]) /\ in.tau[k] \in Int
        BY <1>2, <1>3
      <4>2. QED
        BY <2>1, <4>1
    <3>3. QED
      BY <3>1, <3>2
  <2>4. \A k \in DOMAIN a.sigma \ {2} : a.sigma[k] >= SigmaThreshold2
    <3>1. DOMAIN a.sigma = DOMAIN in.sigma
      BY <1>3
    <3>2. ASSUME NEW k \in DOMAIN in.sigma, k # 2 PROVE a.sigma[k] >= SigmaThreshold2
      <4>1. a.sigma[k] = Larger(SigmaThreshold2, in.sigma[k]) /\ in.sigma[k] \in Int
        BY <1>2, <1>3, <3>2
      <4>2. QED
        BY <2>1, <4>1
    <3>3. QED
      BY <3>1, <3>2
  <2>5. QED
    BY <2>2, <2>3, <2>4
<1>5. ASSUME Polarized
      PROVE  2 * a.sigma[2] =< a.sigma[1] + a.sigma[3] /\ -2 * a.sigma[2] =< a.sigma[1] + a.sigma[3]
  <2>1. DOMAIN in.sigma = 1..3
    BY <1>1, <1>5 DEF Point, Polarized
  <2>2. a.sigma[1] = outer(1) /\ a.sigma[2] = mixed /\ a.sigma[3] = outer(3)
    <3>. HIDE DEF outer, mixed
    <3>. QED
      BY <1>3, <2>1
  <2>3. outer(1) \in Nat /\ outer(3) \in Nat /\ in.sigma[2] \in Int
    <3>. DEFINE s1 == in.sigma[1]
                s3 == in.sigma[3]
    <3>1. s1 \in Int /\ s3 \in Int /\ in.sigma[2] \in Int /\ SigmaThreshold2 \in Nat
      BY <1>2, <2>1, PointAssumption
    <3>. HIDE DEF s1, s3
    <3>2. Larger(SigmaThreshold2, s1) \in Nat /\ Larger(SigmaThreshold2, s3) \in Nat
      BY <3>1 DEF Larger
    <3>. QED
      BY <3>1, <3>2 DEF s1, s3
  <2>4. average \in Nat /\ 2 * average =< outer(1) + outer(3)
    <3>. HIDE DEF outer
    <3>. QED
      BY <2>3
  <2>5. mixed \in Int /\ mixed =< average /\ -average =< mixed
    <3>. HIDE DEF average
    <3>. QED
      BY <2>3, <2>4 DEF Smaller, Larger
  <2>6. QED
    <3>. HIDE DEF average, mixed, outer
    <3>. QED
      BY <2>2, <2>3, <2>4, <2>5
<1>6. QED
  BY <1>4, <1>5 DEF Physical, a
-----------------------------------------------------------------------------
(* The loops start with buffers calloc cleared and outputs of the caller's. *)
LEMMA PointInit == Init => PointInv
<1>. SUFFICES ASSUME Init PROVE PointInv
  OBVIOUS
<1>. USE DEF Init
<1>1. NPoints \in Nat
  BY PointTypes
<1>2. GridInv
  BY <1>1 DEF GridInv
<1>3. WorkInv
  BY <1>1 DEF WorkInv
<1>4. StreamInv
  BY DEF StreamInv
<1>5. ContractInv
  BY <1>1 DEF ContractInv
<1>6. QED
  BY <1>2, <1>3, <1>4, <1>5 DEF PointInv

(* A point of the work function. *)
LEMMA WorkKeeps ==
  ASSUME PointInv, WorkPoint
  PROVE  PointInv'
<1>1. /\ grid' = grid /\ phase = "work" /\ phase' = "work" /\ point' = point + 1
      /\ point \in 1..NPoints /\ NPoints \in Nat
      /\ features' = features /\ contracted' = contracted /\ grid \in Grids
  BY PointTypes DEF WorkPoint, NextPoint, PointInv, GridInv
<1>2. GridInv'
  BY <1>1, SameGrid DEF PointInv, GridInv
<1>3. WorkInv'
  <2>1. zk = [p \in 1..NPoints |->
                [f \in Features |-> IF p < point THEN ZkCell(p, f) ELSE << >>]]
    BY <1>1 DEF PointInv, WorkInv
  <2>2. first = [p \in 1..NPoints |->
                   [d \in Partials |->
                      [f \in Features |-> IF p < point THEN FirstCell(p, d, f) ELSE << >>]]]
    BY <1>1 DEF PointInv, WorkInv
  <2>3. zk[point] = [f \in Features |-> << >>]
    BY <1>1, <2>1
  <2>4. first[point] = [d \in Partials |-> [f \in Features |-> << >>]]
    BY <1>1, <2>2
  <2>5. zk' = [zk EXCEPT ![point] = [f \in Features |-> ZkCell(point, f)]]
    <3>1. CASE Screened(point)
      <4>1. [f \in Features |-> ZkCell(point, f)] = zk[point]
        BY <2>3, <3>1 DEF ZkCell
      <4>2. zk' = zk
        BY <3>1 DEF WorkPoint
      <4>3. QED
        BY <2>1, <4>1, <4>2
    <3>2. CASE ~Screened(point)
      <4>1. zk' = [zk EXCEPT ![point] =
                     [f \in Features |->
                        Append(@[f], Value(<<"zk", 0>>, f, StackArguments(point)))]]
        BY <1>1, <3>2, SameArguments DEF WorkPoint
      <4>2. \A f \in Features :
              Append(zk[point][f], Value(<<"zk", 0>>, f, StackArguments(point)))
              = ZkCell(point, f)
        BY <2>3, <3>2 DEF ZkCell
      <4>3. QED
        BY <4>1, <4>2
    <3>3. QED
      BY <3>1, <3>2
  <2>6. first' = [first EXCEPT ![point] =
                    [d \in Partials |-> [f \in Features |-> FirstCell(point, d, f)]]]
    <3>1. CASE Screened(point)
      <4>1. [d \in Partials |-> [f \in Features |-> FirstCell(point, d, f)]] = first[point]
        BY <2>4, <3>1 DEF FirstCell
      <4>2. first' = first
        BY <3>1 DEF WorkPoint
      <4>3. QED
        BY <2>2, <4>1, <4>2
    <3>2. CASE ~Screened(point)
      <4>1. first' = [first EXCEPT ![point] =
                        [d \in Partials |->
                           [f \in Features |->
                              Append(@[d][f], Value(d, f, StackArguments(point)))]]]
        BY <1>1, <3>2, SameArguments DEF WorkPoint
      <4>2. \A d \in Partials, f \in Features :
              Append(first[point][d][f], Value(d, f, StackArguments(point)))
              = FirstCell(point, d, f)
        BY <2>4, <3>2 DEF FirstCell
      <4>3. QED
        BY <4>1, <4>2
    <3>3. QED
      BY <3>1, <3>2
  <2>7. zk' = [p \in 1..NPoints |->
                 [f \in Features |-> IF p < point + 1 THEN ZkCell(p, f) ELSE << >>]]
    <3>1. zk' = [p \in 1..NPoints |-> zk'[p]]
      BY <2>1, <2>5
    <3>2. ASSUME NEW p \in 1..NPoints
          PROVE  zk'[p] = [f \in Features |-> IF p < point + 1 THEN ZkCell(p, f) ELSE << >>]
      <4>1. CASE p = point
        BY <1>1, <2>1, <2>5, <4>1
      <4>2. CASE p # point
        <5>1. zk'[p] = zk[p] /\ (p < point <=> p < point + 1)
          BY <1>1, <2>1, <2>5, <4>2
        <5>2. QED
          BY <2>1, <5>1
      <4>3. QED
        BY <4>1, <4>2
    <3>3. QED
      BY <3>1, <3>2
  <2>8. first' = [p \in 1..NPoints |->
                    [d \in Partials |->
                       [f \in Features |->
                          IF p < point + 1 THEN FirstCell(p, d, f) ELSE << >>]]]
    <3>1. first' = [p \in 1..NPoints |-> first'[p]]
      BY <2>2, <2>6
    <3>2. ASSUME NEW p \in 1..NPoints
          PROVE  first'[p] = [d \in Partials |->
                                [f \in Features |->
                                   IF p < point + 1 THEN FirstCell(p, d, f) ELSE << >>]]
      <4>1. CASE p = point
        BY <1>1, <2>2, <2>6, <4>1
      <4>2. CASE p # point
        <5>1. first'[p] = first[p] /\ (p < point <=> p < point + 1)
          BY <1>1, <2>2, <2>6, <4>2
        <5>2. QED
          BY <2>2, <5>1
      <4>3. QED
        BY <4>1, <4>2
    <3>3. QED
      BY <3>1, <3>2
  <2>9. QED
    BY <1>1, <2>7, <2>8, SameGrid DEF WorkInv, Features
<1>4. StreamInv' /\ ContractInv'
  BY <1>1, SameGrid DEF PointInv, StreamInv, ContractInv, Features
<1>5. QED
  BY <1>2, <1>3, <1>4 DEF PointInv

(* The steps between the loops. *)
LEMMA EndsKeep ==
  ASSUME PointInv, EndWork \/ EndStream \/ EndContract
  PROVE  PointInv'
<1>1. /\ grid' = grid /\ NPoints \in Nat /\ zk' = zk /\ first' = first
      /\ contracted' = contracted /\ grid \in Grids /\ point = NPoints + 1
  BY PointTypes DEF EndWork, EndStream, EndContract, PointInv, GridInv
<1>2. GridInv'
  BY <1>1, SameGrid DEF PointInv, GridInv, EndWork, EndStream, EndContract
<1>3. WorkInv'
  <2>1. /\ zk = [p \in 1..NPoints |-> [f \in Features |-> ZkCell(p, f)]]
        /\ first = [p \in 1..NPoints |->
                      [d \in Partials |-> [f \in Features |-> FirstCell(p, d, f)]]]
    BY <1>1 DEF PointInv, WorkInv
  <2>2. phase' # "work"
    BY DEF EndWork, EndStream, EndContract
  <2>3. QED
    BY <1>1, <2>1, <2>2, SameGrid DEF WorkInv, Features
<1>4. StreamInv'
  <2>1. CASE EndWork
    <3>1. phase' = "stream" /\ point' = 1 /\ features' = [f \in Features |-> << >>]
      BY <2>1 DEF EndWork
    <3>2. \A f : Streamed(<< >>, f, 0)
      BY DEF Streamed
    <3>3. \A f \in Features : Streamed(features'[f], f, point' - 1)
      BY <3>1, <3>2
    <3>4. QED
      BY <1>1, <3>1, <3>3, SameGrid DEF StreamInv, Features
  <2>2. CASE EndStream \/ EndContract
    <3>1. features' = features /\ phase \in {"stream", "contract"}
          /\ phase' \in {"contract", "done"}
      BY <2>2 DEF EndStream, EndContract
    <3>2. \A f \in Features : Streamed(features[f], f, NPoints)
      BY <1>1, <3>1 DEF PointInv, StreamInv
    <3>3. QED
      BY <1>1, <3>1, <3>2, SameGrid DEF PointInv, StreamInv, Features
  <2>3. QED
    BY <2>1, <2>2
<1>5. ContractInv'
  <2>1. CASE EndWork \/ EndStream
    <3>1. contracted = [p \in 1..NPoints |-> [d \in Partials |-> Caller]]
      BY <2>1 DEF PointInv, ContractInv, EndWork, EndStream
    <3>2. phase' # "done" /\ point' = 1
      BY <2>1 DEF EndWork, EndStream
    <3>3. QED
      BY <1>1, <3>1, <3>2, SameGrid DEF ContractInv
  <2>2. CASE EndContract
    <3>1. contracted = [p \in 1..NPoints |-> [d \in Partials |-> ContractedCell(p, d)]]
      BY <1>1, <2>2 DEF PointInv, ContractInv, EndContract
    <3>2. phase' = "done"
      BY <2>2 DEF EndContract
    <3>3. QED
      BY <1>1, <3>1, <3>2, SameGrid DEF ContractInv
  <2>3. QED
    BY <2>1, <2>2
<1>6. QED
  BY <1>2, <1>3, <1>4, <1>5 DEF PointInv

(* A point is added behind those the sum has; a screened one is left out. *)
LEMMA SumGrows ==
  ASSUME NEW cell, NEW f, NEW n \in Nat, Streamed(cell, f, n),
         NEW term, term = Weighted(n + 1, Total(n + 1),
                                   Value(<<"zk", 0>>, f, StackArguments(n + 1)))
  PROVE  Streamed(IF Screened(n + 1) THEN cell ELSE Append(cell, term), f, n + 1)
<1>1. CASE Screened(n + 1)
  <2>1. \A p \in 1..n : p \in 1..n+1
    OBVIOUS
  <2>2. \A p \in 1..n+1 : ~Screened(p) => p \in 1..n
    <3>1. \A p \in 1..n+1 : p \in 1..n \/ p = n + 1
      OBVIOUS
    <3>2. QED
      BY <1>1, <3>1
  <2>3. Streamed(cell, f, n + 1)
    <3>1. \A i \in DOMAIN cell :
            \E p \in 1..n+1 :
              /\ ~Screened(p)
              /\ cell[i] = Weighted(p, Total(p), Value(<<"zk", 0>>, f, StackArguments(p)))
      BY <2>1 DEF Streamed
    <3>2. QED
      BY <2>2, <3>1 DEF Streamed
  <2>4. QED
    BY <1>1, <2>3
<1>2. CASE ~Screened(n + 1)
  <2>. DEFINE more == Append(cell, term)
              T == {cell[i] : i \in DOMAIN cell} \cup {term}
  <2>1. cell \in Seq(T) /\ term \in T
    <3>. DEFINE S == {cell[i] : i \in DOMAIN cell}
    <3>1. cell \in Seq(S) /\ S \subseteq T
      BY DEF Streamed
    <3>2. \A i \in DOMAIN cell : cell[i] \in T
      OBVIOUS
    <3>. HIDE DEF S, T
    <3>3. cell \in Seq(T)
      BY <3>1, SeqMonotonic
    <3>. QED
      BY <3>3 DEF T
  <2>2. /\ more \in Seq(T) /\ DOMAIN more = 1..Len(cell)+1 /\ Len(cell) \in Nat
        /\ DOMAIN cell = 1..Len(cell)
        /\ \A i \in 1..Len(cell) : more[i] = cell[i]
        /\ more[Len(cell) + 1] = term
    <3>. HIDE DEF T
    <3>1. /\ more \in Seq(T) /\ Len(more) = Len(cell) + 1
          /\ \A i \in 1..Len(cell) : more[i] = cell[i]
          /\ more[Len(cell) + 1] = term
      BY <2>1, AppendProperties
    <3>2. Len(cell) \in Nat /\ DOMAIN cell = 1..Len(cell)
      BY <2>1
    <3>. HIDE DEF more
    <3>3. DOMAIN more = 1..Len(more)
      BY <3>1
    <3>. QED
      BY <3>1, <3>2, <3>3
  <2>. HIDE DEF more
  <2>3. more \in Seq({more[i] : i \in DOMAIN more})
    BY <2>2
  <2>4. term.weight = n + 1
    BY DEF Weighted
  <2>5. \A i \in DOMAIN cell : cell[i].weight \in 1..n
    BY DEF Streamed, Weighted
  <2>6. \A i \in DOMAIN more :
          \E p \in 1..n+1 :
            /\ ~Screened(p)
            /\ more[i] = Weighted(p, Total(p), Value(<<"zk", 0>>, f, StackArguments(p)))
    <3>1. ASSUME NEW i \in 1..Len(cell)
          PROVE  \E p \in 1..n+1 :
                   /\ ~Screened(p)
                   /\ more[i] = Weighted(p, Total(p), Value(<<"zk", 0>>, f, StackArguments(p)))
      <4>1. PICK p \in 1..n :
              /\ ~Screened(p)
              /\ cell[i] = Weighted(p, Total(p), Value(<<"zk", 0>>, f, StackArguments(p)))
        BY <2>2 DEF Streamed
      <4>2. p \in 1..n+1 /\ more[i] = cell[i]
        BY <2>2
      <4>3. QED
        BY <4>1, <4>2
    <3>2. n + 1 \in 1..n+1
      OBVIOUS
    <3>3. QED
      BY <1>2, <2>2, <3>1, <3>2
  <2>7. \A i, j \in DOMAIN more : i < j => more[i].weight < more[j].weight
    <3>1. \A i, j \in 1..Len(cell) : i < j => more[i].weight < more[j].weight
      BY <2>2 DEF Streamed
    <3>2. \A i \in 1..Len(cell) : more[i].weight < more[Len(cell) + 1].weight
      <4>1. \A i \in 1..Len(cell) : more[i].weight \in 1..n
        BY <2>2, <2>5
      <4>2. QED
        BY <2>2, <2>4, <4>1
    <3>3. \A i \in DOMAIN more : i \in 1..Len(cell) \/ i = Len(cell) + 1
      BY <2>2
    <3>4. \A i \in DOMAIN more : ~(Len(cell) + 1 < i)
      BY <2>2
    <3>5. QED
      BY <3>1, <3>2, <3>3, <3>4
  <2>8. ASSUME NEW p \in 1..n+1, ~Screened(p)
        PROVE  \E i \in DOMAIN more : more[i].weight = p
    <3>1. CASE p = n + 1
      BY <2>2, <2>4, <3>1
    <3>2. CASE p # n + 1
      <4>1. PICK i \in DOMAIN cell : cell[i].weight = p
        BY <2>8, <3>2 DEF Streamed
      <4>2. i \in DOMAIN more /\ more[i] = cell[i]
        BY <2>2
      <4>3. QED
        BY <4>1, <4>2
    <3>3. QED
      BY <3>1, <3>2
  <2>9. Streamed(more, f, n + 1)
    BY <2>3, <2>6, <2>7, <2>8 DEF Streamed
  <2>10. QED
    BY <1>2, <2>9 DEF more
<1>3. QED
  BY <1>1, <1>2

(* A point of the streaming integral. *)
LEMMA StreamKeeps ==
  ASSUME PointInv, StreamPoint
  PROVE  PointInv'
<1>1. /\ grid' = grid /\ phase = "stream" /\ phase' = "stream" /\ point' = point + 1
      /\ point \in 1..NPoints /\ NPoints \in Nat
      /\ zk' = zk /\ first' = first /\ contracted' = contracted /\ grid \in Grids
  BY PointTypes DEF StreamPoint, NextPoint, PointInv, GridInv
<1>2. GridInv'
  BY <1>1, SameGrid DEF PointInv, GridInv
<1>3. WorkInv' /\ ContractInv'
  BY <1>1, SameGrid DEF PointInv, WorkInv, ContractInv, Features
<1>4. StreamInv'
  <2>. DEFINE term(f) == Weighted(point, Total(point),
                                  Value(<<"zk", 0>>, f, StackArguments(point)))
  <2>1. features = [f \in Features |-> features[f]]
    BY DEF PointInv, StreamInv
  <2>2. features' = [f \in Features |-> IF Screened(point) THEN features[f]
                                        ELSE Append(features[f], term(f))]
    BY <2>1 DEF StreamPoint
  <2>3. ASSUME NEW f \in Features
        PROVE  Streamed(features'[f], f, point)
    <3>1. Streamed(features[f], f, point - 1) /\ point - 1 \in Nat
          /\ (point - 1) + 1 = point
      BY <1>1 DEF PointInv, StreamInv
    <3>. DEFINE n == point - 1
    <3>2. Streamed(features[f], f, n) /\ n \in Nat /\ n + 1 = point
      BY <3>1
    <3>3. term(f) = Weighted(n + 1, Total(n + 1),
                             Value(<<"zk", 0>>, f, StackArguments(n + 1)))
      BY <3>2
    <3>4. Streamed(IF Screened(n + 1) THEN features[f]
                   ELSE Append(features[f], term(f)), f, n + 1)
      <4>. HIDE DEF n, term
      <4>. QED
        BY <3>2, <3>3, SumGrows
    <3>5. QED
      BY <2>2, <3>2, <3>4
  <2>4. point' - 1 = point
    BY <1>1
  <2>5. features' = [f \in Features |-> features'[f]]
    BY <2>2
  <2>6. QED
    BY <1>1, <2>3, <2>4, <2>5, SameGrid DEF StreamInv, Features
<1>5. QED
  BY <1>2, <1>3, <1>4 DEF PointInv

(* A point of the contraction. *)
LEMMA ContractKeeps ==
  ASSUME PointInv, ContractPoint
  PROVE  PointInv'
<1>1. /\ grid' = grid /\ phase = "contract" /\ phase' = "contract" /\ point' = point + 1
      /\ point \in 1..NPoints /\ NPoints \in Nat
      /\ zk' = zk /\ first' = first /\ features' = features /\ grid \in Grids
  BY PointTypes DEF ContractPoint, NextPoint, PointInv, GridInv
<1>2. GridInv'
  BY <1>1, SameGrid DEF PointInv, GridInv
<1>3. WorkInv' /\ StreamInv'
  BY <1>1, SameGrid DEF PointInv, WorkInv, StreamInv, Features
<1>4. ContractInv'
  <2>1. contracted = [p \in 1..NPoints |->
                        [d \in Partials |->
                           IF p < point THEN ContractedCell(p, d) ELSE Caller]]
    BY <1>1 DEF PointInv, ContractInv
  <2>2. contracted' = [contracted EXCEPT ![point] =
                         [d \in Partials |-> ContractedCell(point, d)]]
    BY DEF ContractPoint, ContractedCell
  <2>3. contracted' = [p \in 1..NPoints |->
                         [d \in Partials |->
                            IF p < point + 1 THEN ContractedCell(p, d) ELSE Caller]]
    <3>1. contracted' = [p \in 1..NPoints |-> contracted'[p]]
      BY <2>1, <2>2
    <3>2. ASSUME NEW p \in 1..NPoints
          PROVE  contracted'[p] =
                   [d \in Partials |-> IF p < point + 1 THEN ContractedCell(p, d) ELSE Caller]
      <4>1. CASE p = point
        BY <1>1, <2>1, <2>2, <4>1
      <4>2. CASE p # point
        <5>1. contracted'[p] = contracted[p] /\ (p < point <=> p < point + 1)
          BY <1>1, <2>1, <2>2, <4>2
        <5>2. QED
          BY <2>1, <5>1
      <4>3. QED
        BY <4>1, <4>2
    <3>3. QED
      BY <3>1, <3>2
  <2>4. QED
    BY <1>1, <2>3, SameGrid DEF ContractInv
<1>5. QED
  BY <1>2, <1>3, <1>4 DEF PointInv

(* What the three loops have computed at each of their turns. *)
THEOREM PointInvariant == Spec => []PointInv
<1>1. PointInv /\ [Next]_vars => PointInv'
  <2>. SUFFICES ASSUME PointInv, [Next]_vars PROVE PointInv'
    OBVIOUS
  <2>1. CASE UNCHANGED vars
    <3>1. /\ grid' = grid /\ phase' = phase /\ point' = point /\ zk' = zk
          /\ first' = first /\ features' = features /\ contracted' = contracted
      BY <2>1 DEF vars
    <3>2. GridInv'
      BY <3>1, SameGrid DEF PointInv, GridInv
    <3>3. WorkInv'
      BY <3>1, SameGrid DEF PointInv, WorkInv, Features
    <3>4. StreamInv' /\ ContractInv'
      BY <3>1, SameGrid DEF PointInv, StreamInv, ContractInv, Features
    <3>5. QED
      BY <3>2, <3>3, <3>4 DEF PointInv
  <2>2. QED
    BY <2>1, WorkKeeps, EndsKeep, StreamKeeps, ContractKeeps DEF Next
<1>2. QED
  BY PointInit, <1>1, PTL DEF Spec

(* For any grid, thresholds and number of features, the generated code is only
   given arguments it is defined for. *)
THEOREM ArgumentsArePhysical == Spec => []ArgumentsPhysical
<1>1. PointInv => ArgumentsPhysical
  <2>. SUFFICES ASSUME PointInv, NEW a \in Arguments
                PROVE  Physical(a)
    BY DEF ArgumentsPhysical, Physical
  <2>1. grid \in Grids /\ NPoints \in Nat
    BY PointTypes DEF PointInv, GridInv
  <2>2. ASSUME NEW p \in 1..NPoints, NEW f \in Features, NEW v \in TermsOf(zk[p][f])
        PROVE  v.args = StackArguments(p)
    BY DEF PointInv, WorkInv, TermsOf, ZkCell, Value
  <2>3. ASSUME NEW p \in 1..NPoints, NEW d \in Partials, NEW f \in Features,
               NEW v \in TermsOf(first[p][d][f])
        PROVE  v.args = StackArguments(p)
    BY DEF PointInv, WorkInv, TermsOf, FirstCell, Value
  <2>4. ASSUME NEW f \in Features, NEW v \in TermsOf(features[f])
        PROVE  \E p \in 1..NPoints : v.value.args = StackArguments(p)
    <3>1. features[f] # Caller
      BY DEF TermsOf, Caller
    <3>2. PICK n \in 0..NPoints : Streamed(features[f], f, n)
      BY <2>1, <3>1 DEF PointInv, StreamInv, GridInv
    <3>. PICK i \in DOMAIN features[f] : v = features[f][i]
      BY DEF TermsOf
    <3>3. PICK p \in 1..n :
            v = Weighted(p, Total(p), Value(<<"zk", 0>>, f, StackArguments(p)))
      BY <3>2 DEF Streamed
    <3>4. p \in 1..NPoints
      BY <2>1, <3>2
    <3>5. v.value.args = StackArguments(p)
      BY <3>3 DEF Weighted, Value
    <3>6. QED
      BY <3>4, <3>5
  <2>5. ASSUME NEW p \in 1..NPoints, NEW d \in Partials, NEW v \in TermsOf(contracted[p][d])
        PROVE  v.value.args = StackArguments(p)
    <3>1. contracted[p][d] \in {ContractedCell(p, d), Caller}
      BY DEF PointInv, ContractInv
    <3>2. contracted[p][d] # Caller
      BY DEF TermsOf, Caller
    <3>3. v \in TermsOf(ContractedCell(p, d))
      BY <3>1, <3>2
    <3>4. PICK i \in 1..NFeatures : v = Scaled(i - 1, Value(d, i - 1, StackArguments(p)))
      <4>1. PICK i \in DOMAIN ContractedCell(p, d) : v = ContractedCell(p, d)[i]
        BY <3>3 DEF TermsOf
      <4>2. CASE Screened(p)
        BY <4>1, <4>2 DEF ContractedCell
      <4>3. CASE ~Screened(p)
        BY <4>1, <4>3 DEF ContractedCell
      <4>4. QED
        BY <4>2, <4>3
    <3>5. QED
      BY <3>4 DEF Scaled, Value
  <2>6. \E p \in 1..NPoints : a = StackArguments(p)
    BY <2>2, <2>3, <2>4, <2>5 DEF Arguments
  <2>7. QED
    BY <2>1, <2>6, PreparedArePhysical
<1>2. QED
  BY PointInvariant, <1>1, PTL

(* For any grid, the streaming integral is the weighted sum over the grid of
   what the work function leaves in the private buffer. *)
THEOREM StreamingSums == Spec => []StreamingIsSum
<1>1. PointInv => StreamingIsSum
  <2>. SUFFICES ASSUME PointInv, phase \in {"contract", "done"}, NEW f \in Features
                PROVE  IsSumOver(features[f], f, NPoints)
    BY DEF StreamingIsSum
  <2>. DEFINE cell == features[f]
  <2>1. Streamed(cell, f, NPoints)
    BY DEF PointInv, StreamInv
  <2>2. \A p \in 1..NPoints : zk[p][f] = ZkCell(p, f)
    BY DEF PointInv, WorkInv
  <2>. HIDE DEF cell
  <2>3. \A p \in 1..NPoints : (zk[p][f] # << >> <=> ~Screened(p))
    <3>1. ASSUME NEW p \in 1..NPoints, Screened(p)
          PROVE  zk[p][f] = << >>
      BY <2>2, <3>1 DEF ZkCell
    <3>2. ASSUME NEW p \in 1..NPoints, ~Screened(p)
          PROVE  zk[p][f] # << >>
      <4>1. zk[p][f] = <<Value(<<"zk", 0>>, f, StackArguments(p))>>
        BY <2>2, <3>2 DEF ZkCell
      <4>2. QED
        BY <4>1
    <3>3. QED
      BY <3>1, <3>2
  <2>4. ASSUME NEW i \in DOMAIN cell
        PROVE  LET p == cell[i].weight
               IN  /\ p \in 1..NPoints /\ zk[p][f] # << >>
                   /\ cell[i] = Weighted(p, Total(p), zk[p][f][1])
    <3>1. PICK p \in 1..NPoints :
            /\ ~Screened(p)
            /\ cell[i] = Weighted(p, Total(p), Value(<<"zk", 0>>, f, StackArguments(p)))
      BY <2>1 DEF Streamed
    <3>2. cell[i].weight = p
      BY <3>1 DEF Weighted
    <3>3. zk[p][f][1] = Value(<<"zk", 0>>, f, StackArguments(p))
      <4>1. zk[p][f] = <<Value(<<"zk", 0>>, f, StackArguments(p))>>
        BY <2>2, <3>1 DEF ZkCell
      <4>2. QED
        BY <4>1
    <3>4. QED
      BY <2>3, <3>1, <3>2, <3>3
  <2>5. /\ \A i, j \in DOMAIN cell : i < j => cell[i].weight < cell[j].weight
        /\ \A p \in 1..NPoints : zk[p][f] # << >> => \E i \in DOMAIN cell : cell[i].weight = p
    BY <2>1, <2>3 DEF Streamed
  <2>6. IsSumOver(cell, f, NPoints)
    BY <2>4, <2>5 DEF IsSumOver
  <2>7. QED
    BY <2>6 DEF cell
<1>2. QED
  BY PointInvariant, <1>1, PTL

(* For any grid and number of features, the contraction stores at every point
   the sum of coefficient times derivative, and zeros where the work function
   leaves zeros. *)
THEOREM ContractionSums == Spec => []ContractionIsSum
<1>1. PointInv => ContractionIsSum
  <2>. SUFFICES ASSUME PointInv, phase = "done", NEW p \in 1..NPoints, NEW d \in Partials
                PROVE  contracted[p][d] =
                         IF \A f \in Features : first[p][d][f] = << >> THEN << >>
                         ELSE [i \in 1..NFeatures |-> Scaled(i - 1, first[p][d][i - 1][1])]
    BY DEF ContractionIsSum
  <2>1. contracted[p][d] = ContractedCell(p, d)
    BY DEF PointInv, ContractInv
  <2>2. \A f \in Features : first[p][d][f] = FirstCell(p, d, f)
    BY DEF PointInv, WorkInv
  <2>3. 0 \in Features /\ \A i \in 1..NFeatures : i - 1 \in Features
    BY PointAssumption DEF Features
  <2>4. CASE Screened(p)
    BY <2>1, <2>2, <2>4 DEF ContractedCell, FirstCell
  <2>5. CASE ~Screened(p)
    <3>1. \A f \in Features : first[p][d][f] = <<Value(d, f, StackArguments(p))>>
      BY <2>2, <2>5 DEF FirstCell
    <3>2. first[p][d][0] # << >>
      BY <2>3, <3>1
    <3>3. \A i \in 1..NFeatures : first[p][d][i - 1][1] = Value(d, i - 1, StackArguments(p))
      BY <2>3, <3>1
    <3>4. ContractedCell(p, d) =
            [i \in 1..NFeatures |-> Scaled(i - 1, Value(d, i - 1, StackArguments(p)))]
      BY <2>5 DEF ContractedCell
    <3>5. @ = [i \in 1..NFeatures |-> Scaled(i - 1, first[p][d][i - 1][1])]
      BY <3>3
    <3>6. QED
      BY <2>1, <2>3, <3>2, <3>4, <3>5
  <2>6. QED
    BY <2>4, <2>5
<1>2. QED
  BY PointInvariant, <1>1, PTL
=============================================================================
