---------------------------- MODULE SensorsProofs ----------------------------
(***************************************************************************)
(* Proofs about the sensors and the counter, for any number of chips, any  *)
(* conversion times the assumptions allow, any faults and any commands.    *)
(***************************************************************************)
EXTENDS Sensors, TLAPS

USE SizesAssumption

Adcs == [Kind -> [Chip -> Adc]]
Table == [Kind -> [Chip -> [Mux -> [lo : Word, hi : Word]]]]
Registers == [chip : Chip, mux : Mux, reading : Reading, type : Type]

-----------------------------------------------------------------------------
(* Lemmas about the tables of chips and of readings.                       *)

LEMMA FullCount == Millisecond \in 1 .. Millisecond
OBVIOUS

LEMMA NoReadingType == NoReading \in Reading /\ 0 \in Chip
BY DEF NoReading, Reading, Chip

LEMMA AfterType ==
  ASSUME NEW n \in Nat, NEW a \in Adc
  PROVE  After(n, a) \in Adc
<1>1. CASE a.input = None
  BY <1>1 DEF After
<1>2. CASE a.input # None /\ a.remaining > n
  BY <1>2 DEF After, Adc
<1>3. CASE a.input # None /\ ~(a.remaining > n)
  <2>1. [mux |-> a.input, fresh |-> TRUE, doubt |-> FALSE] \in Reading
    BY DEF Adc, Reading
  <2> QED
    BY <1>3, <2>1 DEF After, Adc
<1> QED
  BY <1>1, <1>2, <1>3

LEMMA ConvertedType ==
  ASSUME NEW n \in Nat, NEW adcs \in Adcs
  PROVE  /\ Converted(n, adcs) \in Adcs
         /\ \A k \in Kind, c \in Chip : Converted(n, adcs)[k][c] = After(n, adcs[k][c])
<1>1. \A k \in Kind, c \in Chip : adcs[k][c] \in Adc
  BY DEF Adcs
<1>2. \A k \in Kind, c \in Chip : After(n, adcs[k][c]) \in Adc
  BY <1>1, AfterType
<1> QED
  BY <1>2 DEF Converted, Adcs

(* One chip of a table of them changes.                                    *)
LEMMA UpdateType ==
  ASSUME NEW adcs \in Adcs, NEW k \in Kind, NEW c \in Chip, NEW a \in Adc
  PROVE  /\ [adcs EXCEPT ![k][c] = a] \in Adcs
         /\ \A j \in Kind, d \in Chip :
              [adcs EXCEPT ![k][c] = a][j][d] = IF j = k /\ d = c THEN a ELSE adcs[j][d]
BY DEF Adcs

LEMMA DoubtType ==
  ASSUME NEW f \in [Kind -> [Chip -> BOOLEAN]], NEW k \in Kind, NEW c \in Chip,
         NEW b \in BOOLEAN
  PROVE  /\ [f EXCEPT ![k][c] = b] \in [Kind -> [Chip -> BOOLEAN]]
         /\ \A j \in Kind, d \in Chip :
              [f EXCEPT ![k][c] = b][j][d] = IF j = k /\ d = c THEN b ELSE f[j][d]
OBVIOUS

LEMMA ConvertingType ==
  ASSUME NEW a \in Adc, NEW m \in Mux, NEW time \in Nat
  PROVE  Converting(a, m, time) \in Adc
BY DEF Converting, Adc

LEMMA ReadOutType ==
  ASSUME NEW a \in Adc
  PROVE  /\ ReadOut(a) \in Adc
         /\ ReadOut(a).input = a.input /\ ReadOut(a).remaining = a.remaining
<1>1. [a.result EXCEPT !.fresh = FALSE] \in Reading
  BY DEF Adc, Reading
<1>2. ReadOut(a) = [a EXCEPT !.result = [a.result EXCEPT !.fresh = FALSE]]
  BY DEF ReadOut, Adc
<1> QED
  BY <1>1, <1>2 DEF Adc

(* A word of a table of readings changes.                                  *)
LowStored(t, k, c, m, w) == [t EXCEPT ![k][c][m].lo = w]
HighStored(t, k, c, m, w) == [t EXCEPT ![k][c][m].hi = w]

LEMMA TableType ==
  ASSUME NEW t \in Table, NEW k \in Kind, NEW c \in Chip, NEW m \in Mux, NEW w \in Word
  PROVE  /\ LowStored(t, k, c, m, w) \in Table
         /\ HighStored(t, k, c, m, w) \in Table
         /\ \A j \in Kind, d \in Chip, i \in Mux :
              /\ LowStored(t, k, c, m, w)[j][d][i].lo =
                   IF j = k /\ d = c /\ i = m THEN w ELSE t[j][d][i].lo
              /\ LowStored(t, k, c, m, w)[j][d][i].hi = t[j][d][i].hi
              /\ HighStored(t, k, c, m, w)[j][d][i].lo = t[j][d][i].lo
              /\ HighStored(t, k, c, m, w)[j][d][i].hi =
                   IF j = k /\ d = c /\ i = m THEN w ELSE t[j][d][i].hi
<1> DEFINE Cell == [lo : Word, hi : Word]
           low == [t EXCEPT ![k][c][m].lo = w]
           high == [t EXCEPT ![k][c][m].hi = w]
<1>1. t[k][c][m] \in Cell
  BY DEF Table
<1>2. /\ [t[k][c][m] EXCEPT !.lo = w] = [lo |-> w, hi |-> t[k][c][m].hi]
      /\ [t[k][c][m] EXCEPT !.hi = w] = [lo |-> t[k][c][m].lo, hi |-> w]
      /\ [lo |-> w, hi |-> t[k][c][m].hi] \in Cell
      /\ [lo |-> t[k][c][m].lo, hi |-> w] \in Cell
  BY <1>1
<1>3. /\ low = [t EXCEPT ![k] = [t[k] EXCEPT ![c] = [t[k][c] EXCEPT ![m] = [t[k][c][m] EXCEPT !.lo = w]]]]
      /\ high = [t EXCEPT ![k] = [t[k] EXCEPT ![c] = [t[k][c] EXCEPT ![m] = [t[k][c][m] EXCEPT !.hi = w]]]]
  BY DEF Table
<1>4. ASSUME NEW x \in Cell
      PROVE  /\ [t EXCEPT ![k] = [t[k] EXCEPT ![c] = [t[k][c] EXCEPT ![m] = x]]] \in Table
             /\ \A j \in Kind, d \in Chip, i \in Mux :
                  [t EXCEPT ![k] = [t[k] EXCEPT ![c] = [t[k][c] EXCEPT ![m] = x]]][j][d][i] =
                    IF j = k /\ d = c /\ i = m THEN x ELSE t[j][d][i]
  <2> HIDE DEF Cell
  <2>1. t \in [Kind -> [Chip -> [Mux -> Cell]]]
    BY DEF Table, Cell
  <2>2. [t[k][c] EXCEPT ![m] = x] \in [Mux -> Cell]
    BY <2>1
  <2>3. [t[k] EXCEPT ![c] = [t[k][c] EXCEPT ![m] = x]] \in [Chip -> [Mux -> Cell]]
    BY <2>1, <2>2
  <2> QED
    BY <2>1, <2>2, <2>3 DEF Table, Cell
<1> DEFINE put(x) == [t EXCEPT ![k] = [t[k] EXCEPT ![c] = [t[k][c] EXCEPT ![m] = x]]]
           x1 == [lo |-> w, hi |-> t[k][c][m].hi]
           x2 == [lo |-> t[k][c][m].lo, hi |-> w]
<1>5. low = put(x1) /\ high = put(x2)
  BY <1>2, <1>3, Zenon
<1>6. x1 \in Cell /\ x2 \in Cell
  BY <1>2
<1>7. \A x \in Cell : put(x) \in Table /\ \A j \in Kind, d \in Chip, i \in Mux :
        put(x)[j][d][i] = IF j = k /\ d = c /\ i = m THEN x ELSE t[j][d][i]
  BY <1>4, Zenon
<1> HIDE DEF Cell, low, high, put, x1, x2
<1>8. /\ low \in Table /\ high \in Table
      /\ \A j \in Kind, d \in Chip, i \in Mux :
           /\ low[j][d][i] = IF j = k /\ d = c /\ i = m THEN x1 ELSE t[j][d][i]
           /\ high[j][d][i] = IF j = k /\ d = c /\ i = m THEN x2 ELSE t[j][d][i]
  BY <1>5, <1>6, <1>7
<1>9. /\ x1.lo = w /\ x1.hi = t[k][c][m].hi
      /\ x2.lo = t[k][c][m].lo /\ x2.hi = w
  BY DEF x1, x2
<1>10. \A j \in Kind, d \in Chip, i \in Mux :
         /\ low[j][d][i].lo = IF j = k /\ d = c /\ i = m THEN w ELSE t[j][d][i].lo
         /\ low[j][d][i].hi = t[j][d][i].hi
         /\ high[j][d][i].lo = t[j][d][i].lo
         /\ high[j][d][i].hi = IF j = k /\ d = c /\ i = m THEN w ELSE t[j][d][i].hi
  BY <1>8, <1>9
<1> QED
  BY <1>8, <1>10, Zenon DEF low, high, LowStored, HighStored

LEMMA WordType ==
  ASSUME NEW r \in Reading, NEW t \in Type
  PROVE  [from |-> r, type |-> t] \in Word
BY DEF Word

(* What the counter does to clock and history.                             *)
LEMMA CountType ==
  ASSUME TypeOK, NEW n \in 1 .. Millisecond, Count(n)
  PROVE  /\ systick' \in 1 .. Millisecond /\ flag' \in BOOLEAN /\ msec' \in {0, 1}
         /\ past' \in Past
         /\ past'.quiet = past.quiet /\ past'.retyped = past.retyped
<1>1. /\ past \in Past /\ systick \in 1 .. Millisecond /\ flag \in BOOLEAN
      /\ msec \in {0, 1} /\ delay \in 0 .. 2
  BY DEF TypeOK
<1>2. systick' \in 1 .. Millisecond /\ flag' \in BOOLEAN /\ msec' \in {0, 1}
  BY <1>1 DEF Count
<1>3. \A i, j \in Nat : AtMost(i, j) \in 0 .. j
  BY DEF AtMost
<1>4. /\ past.slept \in 0 .. 2 * Millisecond /\ past.since \in 0 .. Millisecond
      /\ past.ticks \in 0 .. 3
  BY <1>1 DEF Past
<1>5. 2 * Millisecond \in Nat /\ Millisecond \in Nat /\ 3 \in Nat
  OBVIOUS
<1>6. past.slept + n \in Nat /\ past.since + n \in Nat /\ past.ticks + 1 \in Nat
  BY <1>4
<1>7. /\ AtMost(past.slept + n, 2 * Millisecond) \in 0 .. 2 * Millisecond
      /\ AtMost(past.since + n, Millisecond) \in 0 .. Millisecond
      /\ AtMost(past.ticks + 1, 3) \in 0 .. 3
  BY <1>3, <1>5, <1>6
<1>8. n >= systick => n - systick \in 0 .. Millisecond
  BY <1>1
<1> DEFINE slept == IF delay = 0 THEN 0 ELSE AtMost(past.slept + n, 2 * Millisecond)
           since == IF n >= systick THEN n - systick ELSE AtMost(past.since + n, Millisecond)
           ticks == IF n >= systick THEN AtMost(past.ticks + 1, 3) ELSE past.ticks
<1>9. slept \in 0 .. 2 * Millisecond /\ since \in 0 .. Millisecond /\ ticks \in 0 .. 3
  BY <1>4, <1>7, <1>8
<1>10. past' = [past EXCEPT !.slept = slept, !.since = since, !.ticks = ticks]
  BY DEF Count
<1> HIDE DEF slept, since, ticks
<1> QED
  BY <1>1, <1>2, <1>9, <1>10 DEF Past

-----------------------------------------------------------------------------
(* Types.                                                                  *)

LEMMA InitType == Init => TypeOK
<1> SUFFICES ASSUME Init PROVE TypeOK
  OBVIOUS
<1>1. adc \in [Kind -> [Chip -> Adc]]
  BY NoReadingType DEF Init, Adc
<1>2. [from |-> NoReading, type |-> 0] \in Word
  BY NoReadingType DEF Word, Type
<1>3. table \in [Kind -> [Chip -> [Mux -> [lo : Word, hi : Word]]]]
  BY <1>2 DEF Init
<1>4. reg \in [chip : Chip, mux : Mux, reading : Reading, type : Type]
  BY NoReadingType DEF Init, Mux, Type
<1>5. past \in Past
  BY DEF Init, Past
<1>6. /\ doubt \in [Kind -> [Chip -> BOOLEAN]] /\ types \in [Kind -> Type]
      /\ cell \in BOOLEAN /\ pc \in Label
  BY DEF Init, Type, Label
<1>7. /\ systick \in 1 .. Millisecond /\ flag \in BOOLEAN /\ msec \in {0, 1}
      /\ delay \in 0 .. 2 /\ ~(delay > 0)
  <2>1. systick = Millisecond /\ flag = FALSE /\ msec = 0 /\ delay = 0
    BY Zenon DEF Init
  <2>2. flag \in BOOLEAN
    BY <2>1, Zenon
  <2>3. systick \in 1 .. Millisecond /\ msec \in {0, 1} /\ delay \in 0 .. 2 /\ ~(delay > 0)
    BY <2>1, FullCount
  <2> QED
    BY <2>2, <2>3
<1>8. left \in [faults : 0 .. MaxFaults, commands : 0 .. MaxCommands]
  <2>1. left = [faults |-> MaxFaults, commands |-> MaxCommands]
    BY Zenon DEF Init
  <2>2. MaxFaults \in 0 .. MaxFaults /\ MaxCommands \in 0 .. MaxCommands
    OBVIOUS
  <2> QED
    BY <2>1, <2>2
<1> QED
  BY <1>1, <1>3, <1>4, <1>5, <1>6, <1>7, <1>8 DEF TypeOK

LEMMA TypeStep == TypeOK /\ [Next]_vars => TypeOK'
<1> SUFFICES ASSUME TypeOK, [Next]_vars PROVE TypeOK'
  OBVIOUS
<1>a. /\ adc \in Adcs /\ table \in Table /\ reg \in Registers
      /\ reg.chip \in Chip /\ reg.mux \in Mux /\ reg.reading \in Reading /\ reg.type \in Type
  BY DEF TypeOK, Adcs, Table, Registers
<1>h. delay \in 0 .. 2 /\ (delay > 0 => pc \in {"103", "37"}) /\ pc \in Label
  BY DEF TypeOK
<1>i. systick \in 1 .. Millisecond /\ flag \in BOOLEAN /\ msec \in {0, 1}
  BY DEF TypeOK
<1>j. /\ left \in [faults : 0 .. MaxFaults, commands : 0 .. MaxCommands]
      /\ past \in Past
  BY DEF TypeOK
<1>k. /\ doubt \in [Kind -> [Chip -> BOOLEAN]] /\ types \in [Kind -> Type]
      /\ cell \in BOOLEAN
  BY DEF TypeOK
<1>l. ASSUME /\ adc' \in Adcs /\ table' \in Table /\ reg' \in Registers
             /\ delay' \in 0 .. 2 /\ (delay' > 0 => pc' \in {"103", "37"})
             /\ pc' \in Label
             /\ systick' \in 1 .. Millisecond /\ flag' \in BOOLEAN /\ msec' \in {0, 1}
             /\ left' \in [faults : 0 .. MaxFaults, commands : 0 .. MaxCommands]
             /\ past' \in Past
             /\ doubt' \in [Kind -> [Chip -> BOOLEAN]] /\ types' \in [Kind -> Type]
             /\ cell' \in BOOLEAN
      PROVE  TypeOK'
  BY <1>l DEF TypeOK, Adcs, Table, Registers
<1>m. ASSUME UNCHANGED clock
      PROVE  systick' \in 1 .. Millisecond /\ flag' \in BOOLEAN /\ msec' \in {0, 1}
  BY <1>m, <1>i DEF clock
<1>c. NextMux(reg.mux) \in Mux
  BY <1>a DEF NextMux, Mux
<1>d. \A k \in Kind, c \in Chip : adc[k][c] \in Adc /\ adc[k][c].result \in Reading
  BY <1>a DEF Adcs, Adc
<1>e. \A k \in Kind, c \in Chip : doubt[k][c] \in BOOLEAN
  BY <1>k
<1>f. "temperature" \in Kind /\ "pressure" \in Kind
  BY DEF Kind
<1>g. TemperatureTime \in Nat /\ PressureTime \in Nat
  BY TimingAssumption
<1>b. ASSUME NEW r \in Reading, NEW b \in BOOLEAN PROVE [r EXCEPT !.doubt = b] \in Reading
  BY DEF Reading
<1>1. CASE ReadTemperature
  <2> DEFINE c == reg.chip
             adcs == [adc EXCEPT !["temperature"][c] = ReadOut(@)]
             mid == Converted(SpiTime, adcs)
  <2>1. adcs \in Adcs
    BY <1>a, <1>d, <1>f, ReadOutType, UpdateType
  <2>2. mid \in Adcs
    <3> HIDE DEF adcs
    <3> QED
      BY <2>1, ConvertedType
  <2>3. adc' = [mid EXCEPT !["temperature"][c] = Converting(@, NextMux(reg.mux), TemperatureTime)]
    BY <1>1 DEF ReadTemperature
  <2>4. adc' \in Adcs
    <3> HIDE DEF mid
    <3>1. mid["temperature"][c] \in Adc
      BY <1>a, <1>f, <2>2 DEF Adcs
    <3>2. Converting(mid["temperature"][c], NextMux(reg.mux), TemperatureTime) \in Adc
      BY <1>c, <1>g, <3>1, ConvertingType
    <3> QED
      BY <1>a, <1>f, <2>2, <2>3, <3>2, UpdateType
  <2>5. doubt' \in [Kind -> [Chip -> BOOLEAN]]
    BY <1>1, <1>a, <1>f, <1>k, DoubtType DEF ReadTemperature
  <2>6. reg' \in Registers
    <3>1. [adc["temperature"][c].result EXCEPT !.doubt = doubt["temperature"][c]] \in Reading
      BY <1>a, <1>b, <1>d, <1>e, <1>f
    <3> QED
      BY <1>1, <1>a, <3>1 DEF ReadTemperature, Registers
  <2>7. Count(SpiTime) /\ SpiTime \in 1 .. Millisecond
    BY <1>1 DEF ReadTemperature
  <2> QED
    BY <1>1, <1>a, <1>h, <1>j, <1>k, <1>l, <2>4, <2>5, <2>6, <2>7, CountType
       DEF ReadTemperature, From, To, Label, data
<1>2. ASSUME NEW k \in Kind, StoreLow(k)
      PROVE  /\ table' \in Table /\ reg' \in Registers
             /\ reg'.chip = reg.chip /\ reg'.mux = reg.mux
             /\ UNCHANGED <<chips, types, cell, clock, delay, left, past>>
  <2>1. types[k] \in Type
    BY <1>k
  <2>2. [from |-> reg.reading, type |-> types[k]] \in Word
    BY <1>a, <2>1, WordType
  <2>3. table' \in Table
    <3>1. table' = LowStored(table, k, reg.chip, reg.mux, [from |-> reg.reading, type |-> types[k]])
      BY <1>2, Zenon DEF StoreLow, LowStored
    <3> QED
      BY <1>a, <2>2, <3>1, TableType
  <2>4. reg' \in Registers /\ reg'.chip = reg.chip /\ reg'.mux = reg.mux
    BY <1>a, <1>2, <2>1 DEF StoreLow, Registers
  <2> QED
    BY <1>2, <2>3, <2>4 DEF StoreLow
<1>3. ASSUME NEW k \in Kind, StoreHigh(k)
      PROVE  /\ table' \in Table /\ reg' \in Registers
             /\ UNCHANGED <<chips, types, cell, clock, delay, left, past>>
  <2>1. [from |-> reg.reading, type |-> reg.type] \in Word
    BY <1>a, WordType
  <2>2. table' \in Table
    <3>1. table' = HighStored(table, k, reg.chip, reg.mux, [from |-> reg.reading, type |-> reg.type])
      BY <1>3, Zenon DEF StoreHigh, HighStored
    <3> QED
      BY <1>a, <2>1, <3>1, TableType
  <2>3. reg' \in Registers
    BY <1>a, <1>3, NoReadingType DEF StoreHigh, Registers, Type
  <2> QED
    BY <1>3, <2>2, <2>3 DEF StoreHigh
<1>4. CASE StoreTemperature \/ StorePressure
  <2>1. PICK k \in Kind : StoreLow(k) \/ StoreHigh(k)
    BY <1>4, <1>f DEF StoreTemperature, StorePressure
  <2>2. /\ table' \in Table /\ reg' \in Registers
        /\ UNCHANGED <<chips, types, cell, clock, delay, left, past>>
    BY <2>1, <1>2, <1>3, Zenon
  <2>3. pc' \in Label /\ ~(delay > 0)
    BY <1>4, <1>h DEF StoreTemperature, StorePressure, From, To, Label
  <2> QED
    BY <2>2, <2>3, <1>a, <1>h, <1>i, <1>j, <1>k, <1>l DEF chips, clock
<1>5. ASSUME Fails
      PROVE  left' \in [faults : 0 .. MaxFaults, commands : 0 .. MaxCommands] /\ past' \in Past
  <2>1. left' \in [faults : 0 .. MaxFaults, commands : 0 .. MaxCommands]
    BY <1>5, <1>j DEF Fails
  <2>2. past' = [past EXCEPT !.quiet = 0] /\ 0 \in 0 .. 2
    BY <1>5 DEF Fails
  <2> QED
    BY <1>j, <2>1, <2>2 DEF Past
<1>6. ASSUME Succeeds
      PROVE  left' \in [faults : 0 .. MaxFaults, commands : 0 .. MaxCommands] /\ past' \in Past
  BY <1>6, <1>j DEF Succeeds
<1>7. ASSUME NEW p \in {"conversion", "config"}, NEW a \in Adc
      PROVE  [a EXCEPT !.pointer = p] \in Adc
  BY DEF Adc
<1> DEFINE c == reg.chip
           a == adc["pressure"][c]
<1>8. /\ a \in Adc /\ a.pointer \in {"conversion", "config"}
      /\ \A p \in {"conversion", "config"} :
           /\ [a EXCEPT !.pointer = p] \in Adc
           /\ [adc EXCEPT !["pressure"][c].pointer = p] =
                [adc EXCEPT !["pressure"][c] = [a EXCEPT !.pointer = p]]
  <2>1. a \in Adc /\ a.pointer \in {"conversion", "config"}
    BY <1>a, <1>d, <1>f DEF Adc
  <2>2. \A p \in {"conversion", "config"} : [a EXCEPT !.pointer = p] \in Adc
    BY <2>1, <1>7
  <2>3. \A p \in {"conversion", "config"} :
           [adc EXCEPT !["pressure"][c].pointer = p] =
                [adc EXCEPT !["pressure"][c] = [a EXCEPT !.pointer = p]]
    BY Zenon
  <2> QED
    BY <2>1, <2>2, <2>3
<1>9. \A v \in Adc : [adc EXCEPT !["pressure"][c] = v] \in Adcs
  BY <1>a, <1>f, UpdateType, Zenon
<1>10. \A b \in BOOLEAN : [doubt EXCEPT !["pressure"][c] = b] \in [Kind -> [Chip -> BOOLEAN]]
  BY <1>a, <1>f, <1>k, DoubtType, Zenon
<1>11. ASSUME \E v \in Adc : adc' = adc \/ adc' = [adc EXCEPT !["pressure"][c] = v],
              \E b \in BOOLEAN : doubt' = doubt \/ doubt' = [doubt EXCEPT !["pressure"][c] = b]
       PROVE  adc' \in Adcs /\ doubt' \in [Kind -> [Chip -> BOOLEAN]]
  <2> HIDE DEF c
  <2> QED
    BY <1>11, <1>a, <1>k, <1>9, <1>10
<1>12. CASE PointToResult
  <2>1. \E v \in Adc : adc' = adc \/ adc' = [adc EXCEPT !["pressure"][c] = v]
    BY <1>12, <1>8 DEF PointToResult
  <2>2. \E b \in BOOLEAN : doubt' = doubt \/ doubt' = [doubt EXCEPT !["pressure"][c] = b]
    BY <1>12 DEF PointToResult
  <2>3. /\ Succeeds \/ Fails
        /\ pc' \in Label /\ ~(delay > 0)
        /\ UNCHANGED <<data, cell, reg, clock, delay>>
    BY <1>12, <1>h DEF PointToResult, From, To, Label
  <2>4. adc' \in Adcs /\ doubt' \in [Kind -> [Chip -> BOOLEAN]]
    BY <2>1, <2>2, <1>11
  <2> QED
    BY <2>3, <2>4, <1>5, <1>6, <1>a, <1>h, <1>k, <1>l, <1>m DEF data
<1>13. CASE ReadPressure
  <2>1. ReadOut(a) \in Adc
    BY <1>8, ReadOutType
  <2>2. \E v \in Adc : adc' = adc \/ adc' = [adc EXCEPT !["pressure"][c] = v]
    <3>1. \/ adc' = [adc EXCEPT !["pressure"][c] = ReadOut(a)]
          \/ adc' = [adc EXCEPT !["pressure"][c] = a]
          \/ adc' = adc
      BY <1>13 DEF ReadPressure
    <3> HIDE DEF a, c
    <3> QED
      BY <2>1, <3>1, <1>8
  <2>3. \E b \in BOOLEAN : doubt' = doubt \/ doubt' = [doubt EXCEPT !["pressure"][c] = b]
    BY <1>13 DEF ReadPressure
  <2>4. /\ [a.result EXCEPT !.doubt = doubt["pressure"][c]] \in Reading
        /\ [NoReading EXCEPT !.doubt = doubt["pressure"][c]] \in Reading
    BY <1>a, <1>b, <1>d, <1>e, <1>f, NoReadingType
  <2>5. reg' \in Registers
    BY <1>13, <1>a, <2>4, NoReadingType DEF ReadPressure, Registers
  <2>6. /\ Succeeds \/ Fails
        /\ pc' \in Label /\ ~(delay > 0)
        /\ UNCHANGED <<data, cell, clock, delay>>
    BY <1>13, <1>h DEF ReadPressure, From, To, Label
  <2>7. adc' \in Adcs /\ doubt' \in [Kind -> [Chip -> BOOLEAN]]
    BY <2>2, <2>3, <1>11
  <2> QED
    BY <2>5, <2>6, <2>7, <1>5, <1>6, <1>a, <1>h, <1>k, <1>l, <1>m DEF data
<1>14. CASE StartPressure
  <2> DEFINE b == Converting(a, NextMux(reg.mux), PressureTime)
  <2>1. b \in Adc
    BY <1>c, <1>g, <1>8, ConvertingType
  <2>2. [b EXCEPT !.pointer = "config"] \in Adc
    <3> HIDE DEF b
    <3> QED
      BY <2>1, <1>7
  <2>3. \E v \in Adc : adc' = adc \/ adc' = [adc EXCEPT !["pressure"][c] = v]
    <3>1. \/ adc' = [adc EXCEPT !["pressure"][c] = [b EXCEPT !.pointer = "config"]]
          \/ \E p \in {"conversion", "config"} :
               adc' = [adc EXCEPT !["pressure"][c] = [a EXCEPT !.pointer = p]]
      BY <1>14, <1>8 DEF StartPressure
    <3> HIDE DEF a, b, c
    <3> QED
      BY <2>2, <3>1, <1>8
  <2>4. \E d \in BOOLEAN : doubt' = doubt \/ doubt' = [doubt EXCEPT !["pressure"][c] = d]
    BY <1>14 DEF StartPressure
  <2>5. reg' \in Registers
    <3>1. (c + 1) % NChips \in Chip
      BY <1>a DEF Chip
    <3> QED
      BY <1>14, <1>a, <3>1, NoReadingType DEF StartPressure, NextChip, Registers
  <2>6. /\ Succeeds \/ Fails
        /\ ~(delay > 0)
        /\ UNCHANGED <<data, cell, clock, delay>>
    BY <1>14, <1>h DEF StartPressure, From
  <2>7. pc' \in Label
    BY <1>14 DEF StartPressure, NextChip, To, Label
  <2>8. adc' \in Adcs /\ doubt' \in [Kind -> [Chip -> BOOLEAN]]
    BY <2>3, <2>4, <1>11
  <2> QED
    BY <2>5, <2>6, <2>7, <2>8, <1>5, <1>6, <1>a, <1>h, <1>k, <1>l, <1>m DEF data
<1>15. CASE ReadCell
  BY <1>15, <1>a, <1>h, <1>j, <1>k, <1>l, <1>m DEF ReadCell, From, To, Label, chips, data
<1>16. ASSUME Restart PROVE systick' \in 1 .. Millisecond /\ flag' \in BOOLEAN /\ msec' \in {0, 1}
  BY <1>16, <1>i, FullCount DEF Restart
<1>17. CASE PushServos
  <2>1. pc' \in Label /\ ~(delay > 0) /\ UNCHANGED <<chips, data, cell, reg, delay, left, past>>
    BY <1>17, <1>h DEF PushServos, From, To, Label
  <2> QED
    BY <2>1, <1>17, <1>16, <1>a, <1>h, <1>j, <1>k, <1>l DEF PushServos, chips, data
<1>18. CASE BeginDelay
  BY <1>18, <1>16, <1>a, <1>h, <1>j, <1>k, <1>l DEF BeginDelay, Blocks, chips, data
<1>19. CASE NextBlock
  BY <1>19, <1>16, <1>a, <1>h, <1>j, <1>k, <1>l DEF NextBlock, chips, data
<1>20. CASE EndDelay
  <2>1. past' \in Past
    <3>1. 0 \in 0 .. 2 * Millisecond /\ 0 \in 0 .. 3 /\ AtMost(past.quiet + 1, 2) \in 0 .. 2
      BY <1>j DEF AtMost, Past
    <3>2. \/ past' = [past EXCEPT !.slept = 0]
          \/ past' = [past EXCEPT !.slept = 0, !.ticks = 0, !.quiet = AtMost(past.quiet + 1, 2),
                         !.retyped = FALSE]
      BY <1>20 DEF EndDelay
    <3> QED
      BY <1>j, <3>1, <3>2 DEF Past
  <2>2. reg' \in Registers
    <3>1. 1 - reg.mux \in Mux
      BY <1>a DEF Mux
    <3> QED
      BY <1>20, <1>a, <3>1 DEF EndDelay, Registers
  <2>3. delay' \in 0 .. 2 /\ ~(delay' > 0) /\ pc' \in Label /\ flag' \in BOOLEAN
    <3>1. delay' = 0 /\ flag' = FALSE /\ pc' = "98"
      BY <1>20, Zenon DEF EndDelay, To
    <3>2. flag' \in BOOLEAN
      BY <3>1, Zenon
    <3>3. delay' \in 0 .. 2 /\ ~(delay' > 0) /\ pc' \in Label
      BY <3>1 DEF Label
    <3> QED
      BY <3>2, <3>3
  <2>4. UNCHANGED <<chips, data, cell, systick, msec, left>>
    BY <1>20 DEF EndDelay
  <2> QED
    BY <2>1, <2>2, <2>3, <2>4, <1>a, <1>i, <1>j, <1>k, <1>l DEF chips, data
<1>21. CASE Tick
  <2>1. adc' \in Adcs
    BY <1>21, <1>a, ConvertedType DEF Tick
  <2>2. Count(1) /\ 1 \in 1 .. Millisecond
    BY <1>21 DEF Tick
  <2> QED
    BY <1>21, <2>1, <2>2, <1>a, <1>h, <1>j, <1>k, <1>l, CountType DEF Tick, data
<1>22. ASSUME Command PROVE left' \in [faults : 0 .. MaxFaults, commands : 0 .. MaxCommands]
  BY <1>22, <1>j DEF Command
<1>23. CASE GetMsec
  BY <1>23, <1>16, <1>22, <1>a, <1>h, <1>j, <1>k, <1>l DEF GetMsec, chips, data
<1>24. ASSUME NEW k \in Kind, NEW t \in Type, SetTypes(k, t)
       PROVE  TypeOK'
  <2>1. past' \in Past /\ types' \in [Kind -> Type]
    BY <1>24, <1>j, <1>k DEF SetTypes, Past
  <2>2. Command /\ UNCHANGED <<chips, table, cell, pc, reg, clock, delay>>
    BY <1>24 DEF SetTypes
  <2> QED
    BY <2>1, <2>2, <1>22, <1>a, <1>h, <1>k, <1>l, <1>m DEF chips
<1>25. CASE CellConverts
  BY <1>25, <1>a, <1>h, <1>j, <1>k, <1>l, <1>m DEF CellConverts, chips, data
<1>26. CASE UNCHANGED vars
  BY <1>26, <1>a, <1>h, <1>i, <1>j, <1>k, <1>l DEF vars
<1> QED
  BY <1>1, <1>4, <1>12, <1>13, <1>14, <1>15, <1>17, <1>18, <1>19, <1>20, <1>21, <1>23,
     <1>24, <1>25, <1>26 DEF Next, Main

(* Types: whatever is read, converted or stored, and wherever main is.     *)
THEOREM TypeCorrect == Spec => []TypeOK
BY InitType, TypeStep, PTL DEF Spec

-----------------------------------------------------------------------------
(* Where main is.  Outside of the two loops it is at their first chip, and *)
(* the millisecond between them is one block.                              *)
Outside == {"103", "110", "161", "37"}

Places ==
  /\ pc \in Outside => reg.chip = 0
  /\ pc = "103" => reg.mux = 0 /\ delay <= 1
  /\ pc \in {"110", "161", "37"} => reg.mux = 1

(* Only the value that is being stored can be made of two.                 *)
OneTorn ==
  /\ \A k \in Kind, c \in Chip, m \in Mux :
       table[k][c][m].lo # table[k][c][m].hi =>
         /\ c = reg.chip /\ m = reg.mux
         /\ \/ pc = "98 high" /\ k = "temperature"
            \/ pc = "99 high" /\ k = "pressure"
  /\ pc = "98 high" => table["temperature"][reg.chip][reg.mux].lo
                          = [from |-> reg.reading, type |-> reg.type]
  /\ pc = "99 high" => table["pressure"][reg.chip][reg.mux].lo
                          = [from |-> reg.reading, type |-> reg.type]

(* The counter and what it is to have counted: what main has waited of a   *)
(* delay, and the milliseconds since the turn began.                       *)
Waited ==
  delay > 0 => past.slept >= (IF delay = 1 /\ pc = "37" THEN Millisecond ELSE 0)
                             + (IF flag THEN Millisecond ELSE Millisecond - systick)

Counted ==
  /\ past.since + systick >= Millisecond
  /\ reg.mux = 1 => past.ticks >= 1
  /\ pc = "103" /\ delay > 0 /\ flag => past.ticks >= 1
  /\ pc = "37" /\ delay = 2 /\ flag => past.ticks >= 2
  /\ pc = "37" /\ delay = 1 => past.ticks >= 2 /\ (flag => past.ticks >= 3)

TimeInv == Waited /\ Counted

(* A chip's conversions.  Begun: its next one has been started in this     *)
(* half of the turn, so that it is read in the other half, for the other   *)
(* input.                                                                  *)
Begun(p, chip, k, c) ==
  p \in Outside \/ c < chip \/ (k = "temperature" /\ c = chip /\ p # "98")

(* The transfers on the SPI there will be before main reads chip c.        *)
Transfers(p, chip, c) ==
  IF p \in Outside THEN c
  ELSE IF Begun(p, chip, "temperature", c)
       THEN NChips - 1 - chip + (IF p = "98" THEN 1 ELSE 0) + c
       ELSE c - chip - (IF p = "98" THEN 0 ELSE 1)

(* The last millisecond main waits in this half, or what is left of it.    *)
LastBlock == IF delay = 1 THEN IF flag THEN 0 ELSE systick ELSE Millisecond

(* The time that passes at least before main reads chip c.                 *)
Left(p, chip, block, k, c) ==
  (IF k = "temperature" THEN Transfers(p, chip, c) * SpiTime ELSE 0)
  + (IF Begun(p, chip, k, c) THEN block ELSE 0)

TimeLeft(k, c) == Left(pc, reg.chip, LastBlock, k, c)

NextRead(k, c) == IF Begun(pc, reg.chip, k, c) THEN 1 - reg.mux ELSE reg.mux

InTime(k, c) ==
  adc[k][c].input # None => adc[k][c].remaining \in 1 .. TimeLeft(k, c)

(* What main will read, unless a transfer has failed: the conversion under *)
(* way, or the result nobody has read yet.  Main is between reading a      *)
(* pressure chip and starting it again at lines 99 and 100.                *)
BetweenReadAndStart(k, c) ==
  k = "pressure" /\ c = reg.chip /\ pc \in {"99 low", "99 high", "100"}

Converts(k, c) ==
  ~doubt[k][c] /\ ~BetweenReadAndStart(k, c) =>
    \/ adc[k][c].input = NextRead(k, c)
    \/ /\ adc[k][c].input = None
       /\ adc[k][c].result.mux = NextRead(k, c) /\ adc[k][c].result.fresh

Pointed ==
  pc = "133" /\ ~doubt["pressure"][reg.chip] =>
    adc["pressure"][reg.chip].pointer = "conversion"

ChipsInv ==
  /\ \A k \in Kind, c \in Chip : InTime(k, c) /\ Converts(k, c)
  /\ Pointed

(* What main holds is the reading of the input it is at.                   *)
OwnReading(r, m) == r.doubt \/ (r.mux = m /\ r.fresh)

ReadingInv ==
  /\ pc \in {"98 low", "98 high", "99 low", "99 high"} => OwnReading(reg.reading, reg.mux)
  /\ \A k \in Kind, c \in Chip, m \in Mux :
       /\ OwnReading(table[k][c][m].lo.from, m)
       /\ OwnReading(table[k][c][m].hi.from, m)

-----------------------------------------------------------------------------
(* Places.                                                                 *)

LEMMA RegType ==
  ASSUME TypeOK
  PROVE  /\ reg \in Registers /\ reg.chip \in Chip /\ reg.mux \in Mux
         /\ delay \in 0 .. 2 /\ (delay > 0 => pc \in {"103", "37"}) /\ pc \in Label
BY DEF TypeOK, Registers

(* Where the steps of main lead.  Within a chip ...                        *)
Steps ==
  {<<"98", "98 low">>, <<"98 low", "98 high">>, <<"98 high", "131">>, <<"131", "133">>,
   <<"133", "99 low">>, <<"99 low", "99 high">>, <<"99 high", "100">>, <<"110", "161">>,
   <<"161", "37">>}

Within ==
  ReadTemperature \/ StoreTemperature \/ PointToResult \/ ReadPressure \/ StorePressure
  \/ ReadCell \/ PushServos

LEMMA WithinMoves ==
  ASSUME TypeOK, Within
  PROVE  /\ <<pc, pc'>> \in Steps
         /\ reg'.chip = reg.chip /\ reg'.mux = reg.mux
         /\ delay = 0 /\ delay' = 0
<1>1. <<pc, pc'>> \in Steps
  BY DEF Within, ReadTemperature, StoreTemperature, PointToResult, ReadPressure,
         StorePressure, ReadCell, PushServos, From, To, Steps
<1>2. delay' = delay
  BY DEF Within, ReadTemperature, StoreTemperature, PointToResult, ReadPressure,
         StorePressure, ReadCell, PushServos, StoreLow, StoreHigh
<1>3. reg'.chip = reg.chip /\ reg'.mux = reg.mux
  BY RegType DEF Registers, Within, ReadTemperature, StoreTemperature, PointToResult, ReadPressure,
         StorePressure, ReadCell, PushServos, StoreLow, StoreHigh
<1>4. pc \notin {"103", "37"}
  BY <1>1 DEF Steps
<1>5. delay = 0
  BY <1>4, RegType
<1> QED
  BY <1>1, <1>2, <1>3, <1>5

(* ... to the next chip ...                                                *)
LEMMA StartMoves ==
  ASSUME TypeOK, StartPressure
  PROVE  /\ pc = "100" /\ reg'.mux = reg.mux /\ delay = 0 /\ delay' = 0
         /\ \/ reg.chip + 1 < NChips /\ pc' = "98" /\ reg'.chip = reg.chip + 1
            \/ reg.chip + 1 = NChips /\ reg'.chip = 0 /\ reg.mux = 0 /\ pc' = "103"
            \/ reg.chip + 1 = NChips /\ reg'.chip = 0 /\ reg.mux = 1 /\ pc' = "110"
<1>1. pc = "100" /\ delay' = delay /\ NextChip
  BY DEF StartPressure, From
<1>2. reg'.chip = (reg.chip + 1) % NChips /\ reg'.mux = reg.mux
  BY <1>1, RegType DEF NextChip, Registers
<1>3. \/ reg.chip + 1 < NChips /\ (reg.chip + 1) % NChips = reg.chip + 1
      \/ reg.chip + 1 = NChips /\ (reg.chip + 1) % NChips = 0
  BY RegType DEF Chip
<1>4. pc' = IF reg.chip + 1 < NChips THEN "98" ELSE IF reg.mux = 0 THEN "103" ELSE "110"
  BY <1>1 DEF NextChip, To
<1>5. reg.mux = 0 \/ reg.mux = 1
  BY RegType DEF Mux
<1> QED
  BY <1>1, <1>2, <1>3, <1>4, <1>5, RegType DEF Chip

(* ... and to the other half.                                              *)
LEMMA EndMoves ==
  ASSUME TypeOK, Places, EndDelay
  PROVE  /\ pc \in {"103", "37"} /\ pc' = "98" /\ delay = 1 /\ delay' = 0
         /\ flag /\ ~flag' /\ systick' = systick
         /\ reg.chip = 0 /\ reg'.chip = 0 /\ reg'.mux = 1 - reg.mux
         /\ reg'.reading = reg.reading
         /\ reg.mux = (IF pc = "103" THEN 0 ELSE 1)
         /\ past'.since = past.since /\ msec' = msec
         /\ past'.ticks = IF pc = "103" THEN past.ticks ELSE 0
<1>1. /\ delay = 1 /\ delay' = 0 /\ pc' = "98" /\ flag /\ ~flag'
      /\ systick' = systick /\ msec' = msec
      /\ reg' = [reg EXCEPT !.mux = 1 - @]
  BY Zenon DEF EndDelay, To, TypeOK
<1>2. pc \in {"103", "37"}
  BY <1>1, RegType
<1>3. reg'.chip = reg.chip /\ reg'.mux = 1 - reg.mux /\ reg'.reading = reg.reading
  BY <1>1, RegType DEF Registers
<1>4. reg.chip = 0 /\ reg.mux = (IF pc = "103" THEN 0 ELSE 1)
  BY <1>2 DEF Places, Outside
<1>5. past'.since = past.since /\ past'.ticks = IF pc = "103" THEN past.ticks ELSE 0
  BY DEF EndDelay, TypeOK, Past
<1> QED
  BY <1>1, <1>2, <1>3, <1>4, <1>5

LEMMA BeginMoves ==
  ASSUME TypeOK, BeginDelay
  PROVE  /\ pc \in {"103", "37"} /\ pc' = pc /\ reg' = reg /\ delay = 0
         /\ delay' = IF pc = "103" THEN 1 ELSE 2
         /\ past' = past
BY DEF BeginDelay, Blocks

LEMMA NextBlockMoves ==
  ASSUME TypeOK, Places, NextBlock
  PROVE  /\ pc = "37" /\ pc' = pc /\ reg' = reg /\ delay = 2 /\ delay' = 1 /\ flag
         /\ past' = past
BY DEF NextBlock, TypeOK, Places

(* What is not main leaves it where it is.                                 *)
Others == Tick \/ GetMsec \/ (\E k \in Kind, t \in Type : SetTypes(k, t)) \/ CellConverts

LEMMA OthersStay ==
  ASSUME Others \/ UNCHANGED vars
  PROVE  UNCHANGED <<pc, reg, delay, table>>
BY DEF Others, Tick, GetMsec, SetTypes, CellConverts, vars, data

LEMMA NextCases ==
  ASSUME [Next]_vars
  PROVE  \/ Within \/ StartPressure \/ EndDelay \/ BeginDelay \/ NextBlock \/ Others
         \/ UNCHANGED vars
BY Zenon DEF Next, Main, Within, Others

LEMMA PlacesStep == TypeOK /\ Places /\ [Next]_vars => Places'
<1> SUFFICES ASSUME TypeOK, Places, [Next]_vars PROVE Places'
  OBVIOUS
<1>1. CASE Within
  BY <1>1, WithinMoves DEF Places, Outside, Steps
<1>2. CASE StartPressure
  BY <1>2, StartMoves DEF Places, Outside
<1>3. CASE EndDelay
  BY <1>3, EndMoves DEF Places, Outside
<1>4. CASE BeginDelay
  BY <1>4, BeginMoves DEF Places, Outside
<1>5. CASE NextBlock
  BY <1>5, NextBlockMoves DEF Places, Outside
<1>6. CASE Others \/ UNCHANGED vars
  BY <1>6, OthersStay DEF Places, Outside
<1> QED
  BY <1>1, <1>2, <1>3, <1>4, <1>5, <1>6, NextCases

-----------------------------------------------------------------------------
(* Time.                                                                   *)

LEMMA ClockType ==
  ASSUME TypeOK
  PROVE  /\ systick \in 1 .. Millisecond /\ flag \in BOOLEAN /\ msec \in {0, 1}
         /\ past.slept \in 0 .. 2 * Millisecond /\ past.since \in 0 .. Millisecond
         /\ past.ticks \in 0 .. 3
BY DEF TypeOK, Past

(* What a count of n units does.                                           *)
LEMMA CountMoves ==
  ASSUME TypeOK, NEW n \in 1 .. Millisecond, Count(n)
  PROVE  \/ /\ n >= systick
            /\ systick' = systick - n + Millisecond /\ flag'
            /\ past'.since = n - systick
            /\ past'.ticks >= past.ticks /\ (past'.ticks > past.ticks \/ past'.ticks = 3)
            /\ delay > 0 => past'.slept = 2 * Millisecond \/ past'.slept = past.slept + n
         \/ /\ n < systick
            /\ systick' = systick - n /\ (flag' <=> flag) /\ msec' = msec
            /\ past'.since = Millisecond \/ past'.since = past.since + n
            /\ past'.ticks = past.ticks
            /\ delay > 0 => past'.slept = 2 * Millisecond \/ past'.slept = past.slept + n
<1>1. past \in Past
  BY DEF TypeOK
<1> DEFINE slept == IF delay = 0 THEN 0 ELSE AtMost(past.slept + n, 2 * Millisecond)
           since == IF n >= systick THEN n - systick ELSE AtMost(past.since + n, Millisecond)
           ticks == IF n >= systick THEN AtMost(past.ticks + 1, 3) ELSE past.ticks
<1>2. past' = [past EXCEPT !.slept = slept, !.since = since, !.ticks = ticks]
  BY DEF Count
<1>3. past'.slept = slept /\ past'.since = since /\ past'.ticks = ticks
  <2> HIDE DEF slept, since, ticks
  <2> QED
    BY <1>1, <1>2 DEF Past
<1>4. delay > 0 => slept = 2 * Millisecond \/ slept = past.slept + n
  BY RegType DEF AtMost
<1>5. n >= systick => /\ since = n - systick
                      /\ ticks >= past.ticks /\ (ticks > past.ticks \/ ticks = 3)
  BY ClockType DEF AtMost
<1>6. ~(n >= systick) => /\ since = Millisecond \/ since = past.since + n
                         /\ ticks = past.ticks
  BY ClockType DEF AtMost
<1>7. CASE n >= systick
  <2>1. systick' = systick - n + Millisecond
    BY <1>7 DEF Count
  <2>2. flag'
    BY <1>7, Zenon DEF Count
  <2> QED
    BY <1>3, <1>4, <1>5, <1>7, <2>1, <2>2
<1>8. CASE ~(n >= systick)
  <2>1. systick' = systick - n /\ msec' = msec
    BY <1>8 DEF Count
  <2>2. flag' <=> flag
    BY <1>8, ClockType, Zenon DEF Count
  <2>3. n < systick
    BY <1>8, ClockType
  <2> QED
    BY <1>3, <1>4, <1>6, <1>8, <2>1, <2>2, <2>3
<1> QED
  BY <1>7, <1>8

(* The history of time, which no transfer and no command changes.          *)
Timed == <<past.slept, past.since, past.ticks>>

Restarted == systick' = Millisecond /\ ~flag' /\ msec' = msec

LEMMA FaultsUntimed ==
  ASSUME TypeOK, Succeeds \/ Fails
  PROVE  Timed' = Timed
BY DEF TypeOK, Past, Succeeds, Fails, Timed

LEMMA WithinClock ==
  ASSUME TypeOK, Within
  PROVE  \/ pc = "98" /\ Count(SpiTime)
         \/ pc = "161" /\ Restarted /\ Timed' = Timed
         \/ pc \notin {"98", "161"} /\ UNCHANGED clock /\ Timed' = Timed
<1>1. CASE ReadTemperature
  BY <1>1, Zenon DEF ReadTemperature, From
<1>2. CASE PushServos
  BY <1>2, Zenon DEF PushServos, From, Restart, Restarted, Timed
<1>3. CASE StoreTemperature \/ StorePressure \/ ReadCell
  <2>1. pc \notin {"98", "161"}
    BY <1>3 DEF StoreTemperature, StorePressure, ReadCell, From
  <2>2. UNCHANGED clock /\ past' = past
    BY <1>3, Zenon DEF StoreTemperature, StorePressure, ReadCell, StoreLow, StoreHigh
  <2> QED
    BY <2>1, <2>2 DEF Timed
<1>4. CASE PointToResult \/ ReadPressure
  <2>1. pc \notin {"98", "161"}
    BY <1>4 DEF PointToResult, ReadPressure, From
  <2>2. UNCHANGED clock /\ (Succeeds \/ Fails)
    BY <1>4, Zenon DEF PointToResult, ReadPressure
  <2> QED
    BY <2>1, <2>2, FaultsUntimed
<1> QED
  BY <1>1, <1>2, <1>3, <1>4 DEF Within

LEMMA OthersClock ==
  ASSUME TypeOK, Others \/ UNCHANGED vars
  PROVE  \/ Tick /\ Count(1)
         \/ Restarted /\ Timed' = Timed
         \/ UNCHANGED clock /\ Timed' = Timed
<1>1. CASE Tick
  BY <1>1, Zenon DEF Tick
<1>2. CASE GetMsec
  BY <1>2, Zenon DEF GetMsec, Restart, Restarted, Timed
<1>3. ASSUME NEW k \in Kind, NEW t \in Type, SetTypes(k, t)
      PROVE  UNCHANGED clock /\ Timed' = Timed
  BY <1>3 DEF SetTypes, TypeOK, Past, Timed, clock
<1>4. CASE CellConverts \/ UNCHANGED vars
  BY <1>4, Zenon DEF CellConverts, vars, clock, Timed
<1> QED
  BY <1>1, <1>2, <1>3, <1>4, Zenon DEF Others

LEMMA TicksType ==
  ASSUME TypeOK, [Next]_vars
  PROVE  past'.ticks \in Nat /\ past.ticks \in Nat
<1>1. TypeOK'
  BY TypeStep
<1> QED
  BY <1>1 DEF TypeOK, Past

LEMMA InitTime == Init => TimeInv
<1> SUFFICES ASSUME Init PROVE TimeInv
  OBVIOUS
<1>1. systick = Millisecond /\ delay = 0 /\ pc = "98"
  BY Zenon DEF Init
<1>2. reg.mux = 0
  BY DEF Init
<1>3. past.since = 0
  BY DEF Init
<1> QED
  BY <1>1, <1>2, <1>3 DEF TimeInv, Waited, Counted

LEMMA TimeStep == TypeOK /\ Places /\ TimeInv /\ [Next]_vars => TimeInv'
<1> SUFFICES ASSUME TypeOK, Places, TimeInv, [Next]_vars PROVE TimeInv'
  OBVIOUS
<1> USE DEF TimeInv, Waited, Counted
<1>a. /\ SpiTime \in 1 .. Millisecond /\ 1 \in 1 .. Millisecond
      /\ Millisecond \in Nat \ {0}
      /\ TypeOK
  OBVIOUS
<1>1. ASSUME UNCHANGED <<pc, reg, delay>>, UNCHANGED clock, Timed' = Timed
      PROVE  TimeInv'
  BY <1>1, ClockType DEF clock, Timed
<1>2. ASSUME UNCHANGED <<pc, reg, delay>>, Restarted, Timed' = Timed
      PROVE  TimeInv'
  BY <1>2, ClockType DEF Restarted, Timed
<1>3. ASSUME UNCHANGED <<pc, reg, delay>>, Count(1)
      PROVE  TimeInv'
  <2>1. CASE /\ 1 >= systick
             /\ systick' = systick - 1 + Millisecond /\ flag'
             /\ past'.since = 1 - systick
             /\ past'.ticks >= past.ticks /\ (past'.ticks > past.ticks \/ past'.ticks = 3)
             /\ delay > 0 => past'.slept = 2 * Millisecond \/ past'.slept = past.slept + 1
    <3>1. past.ticks \in 0 .. 3 /\ systick = 1 /\ (pc = "37" => reg.mux = 1)
      BY <2>1, ClockType DEF Places
    <3>2. past'.since + systick' >= Millisecond
      BY <2>1, <3>1
    <3>3. Waited'
      BY <1>3, <2>1, <3>1, ClockType, RegType
    <3>4. past'.ticks >= past.ticks /\ (past'.ticks >= past.ticks + 1 \/ past'.ticks = 3)
      <4>1. past'.ticks > past.ticks => past'.ticks >= past.ticks + 1
        BY <3>1, TicksType
      <4> QED
        BY <2>1, <4>1
    <3> QED
      BY <1>3, <3>1, <3>2, <3>3, <3>4, TicksType, RegType
  <2>2. CASE /\ 1 < systick
             /\ systick' = systick - 1 /\ (flag' <=> flag) /\ msec' = msec
             /\ past'.since = Millisecond \/ past'.since = past.since + 1
             /\ past'.ticks = past.ticks
             /\ delay > 0 => past'.slept = 2 * Millisecond \/ past'.slept = past.slept + 1
    BY <1>3, <2>2, ClockType, RegType
  <2> QED
    BY <1>3, <1>a, <2>1, <2>2, CountMoves
<1>4. CASE Others \/ UNCHANGED vars
  BY <1>1, <1>2, <1>3, <1>4, OthersStay, OthersClock, Zenon
<1>5. CASE Within
  <2>1. /\ delay' = 0 /\ reg'.mux = reg.mux
        /\ pc' \notin {"103"} /\ (pc' = "37" => pc = "161")
    BY <1>5, WithinMoves DEF Steps
  <2>2. past'.since + systick' >= Millisecond /\ past'.ticks >= past.ticks /\ past.ticks \in 0 .. 3
    <3>1. CASE Count(SpiTime)
      BY <3>1, <1>a, CountMoves, ClockType
    <3>2. CASE Restarted /\ Timed' = Timed
      BY <3>2, ClockType DEF Timed, Restarted
    <3>3. CASE UNCHANGED clock /\ Timed' = Timed
      BY <3>3, ClockType DEF Timed, clock
    <3> QED
      BY <1>5, <3>1, <3>2, <3>3, WithinClock
  <2> QED
    BY <2>1, <2>2, TicksType, RegType
<1>6. CASE StartPressure
  BY <1>6, StartMoves, FaultsUntimed, ClockType DEF StartPressure, clock, Timed
<1>7. CASE EndDelay
  BY <1>7, EndMoves, ClockType
<1>8. CASE BeginDelay
  <2>1. systick' = Millisecond /\ ~flag'
    BY <1>8, Zenon DEF BeginDelay, Restart
  <2> QED
    BY <1>8, <2>1, BeginMoves, ClockType DEF Places
<1>9. CASE NextBlock
  BY <1>9, NextBlockMoves, ClockType DEF NextBlock, Restart
<1> QED
  BY <1>4, <1>5, <1>6, <1>7, <1>8, <1>9, NextCases

(* A turn counts three milliseconds, no delay is short, no millisecond is  *)
(* counted too soon: get_msec and delay_ms may restart the counter when    *)
(* they like (devices.c:265, delay.h).                                     *)
LEMMA TimeKeptStep ==
  ASSUME TypeOK, Places, TimeInv, [Next]_vars
  PROVE  /\ pc # pc' /\ delay > 0 => past.slept >= Blocks * Millisecond
         /\ pc = "37" /\ pc' # "37" => past.ticks >= 3
         /\ msec' # msec => past.since + systick >= Millisecond
<1>1. past.since + systick >= Millisecond
  BY DEF TimeInv, Counted
<1>2. CASE EndDelay
  <2>1. delay = 1 /\ flag /\ pc \in {"103", "37"}
    BY <1>2, EndMoves
  <2>2. past.slept >= (IF pc = "37" THEN Millisecond ELSE 0) + Millisecond
    BY <2>1 DEF TimeInv, Waited
  <2>3. Blocks * Millisecond = (IF pc = "37" THEN Millisecond ELSE 0) + Millisecond
    BY <2>1 DEF Blocks
  <2>4. pc = "37" => past.ticks >= 3
    BY <2>1 DEF TimeInv, Counted
  <2> QED
    BY <1>1, <2>2, <2>3, <2>4
<1>3. CASE Within
  <2>1. delay = 0
    BY <1>3, WithinMoves
  <2>2. pc # "37"
    BY <1>3, WithinMoves DEF Steps
  <2> QED
    BY <1>1, <2>1, <2>2
<1>4. CASE StartPressure
  BY <1>1, <1>4, StartMoves
<1>5. CASE BeginDelay \/ NextBlock \/ Others \/ UNCHANGED vars
  BY <1>1, <1>5, BeginMoves, NextBlockMoves, OthersStay
<1> QED
  BY <1>2, <1>3, <1>4, <1>5, NextCases

-----------------------------------------------------------------------------
(* The tables of readings.                                                 *)

(* The two stores, of a word each.                                         *)
LEMMA StoreLowMoves ==
  ASSUME TypeOK, NEW k \in Kind, StoreLow(k)
  PROVE  /\ table'[k][reg.chip][reg.mux].lo = [from |-> reg.reading, type |-> types[k]]
         /\ \A j \in Kind, d \in Chip, i \in Mux :
              /\ ~(j = k /\ d = reg.chip /\ i = reg.mux) =>
                   table'[j][d][i].lo = table[j][d][i].lo
              /\ table'[j][d][i].hi = table[j][d][i].hi
         /\ reg'.reading = reg.reading /\ reg'.type = types[k]
         /\ reg'.chip = reg.chip /\ reg'.mux = reg.mux
<1> DEFINE w == [from |-> reg.reading, type |-> types[k]]
<1>1. types[k] \in Type /\ table \in Table /\ reg.reading \in Reading
  BY DEF TypeOK, Table
<1>2. w \in Word
  BY <1>1, WordType
<1>3. table' = LowStored(table, k, reg.chip, reg.mux, w)
  BY Zenon DEF StoreLow, LowStored
<1>4. reg' = [reg EXCEPT !.type = types[k]]
  BY DEF StoreLow
<1>5. /\ reg'.reading = reg.reading /\ reg'.type = types[k]
      /\ reg'.chip = reg.chip /\ reg'.mux = reg.mux
  BY <1>4, RegType DEF Registers
<1> HIDE DEF w
<1>6. /\ table'[k][reg.chip][reg.mux].lo = w
      /\ \A j \in Kind, d \in Chip, i \in Mux :
           /\ ~(j = k /\ d = reg.chip /\ i = reg.mux) =>
                table'[j][d][i].lo = table[j][d][i].lo
           /\ table'[j][d][i].hi = table[j][d][i].hi
  BY <1>1, <1>2, <1>3, RegType, TableType
<1> QED
  BY <1>5, <1>6, Zenon DEF w

LEMMA StoreHighMoves ==
  ASSUME TypeOK, NEW k \in Kind, StoreHigh(k)
  PROVE  /\ table'[k][reg.chip][reg.mux].hi = [from |-> reg.reading, type |-> reg.type]
         /\ \A j \in Kind, d \in Chip, i \in Mux :
              /\ ~(j = k /\ d = reg.chip /\ i = reg.mux) =>
                   table'[j][d][i].hi = table[j][d][i].hi
              /\ table'[j][d][i].lo = table[j][d][i].lo
<1> DEFINE w == [from |-> reg.reading, type |-> reg.type]
<1>1. reg.type \in Type /\ table \in Table /\ reg.reading \in Reading
  BY DEF TypeOK, Table
<1>2. w \in Word
  BY <1>1, WordType
<1>3. table' = HighStored(table, k, reg.chip, reg.mux, w)
  BY Zenon DEF StoreHigh, HighStored
<1> HIDE DEF w
<1>4. /\ table'[k][reg.chip][reg.mux].hi = w
      /\ \A j \in Kind, d \in Chip, i \in Mux :
           /\ ~(j = k /\ d = reg.chip /\ i = reg.mux) =>
                table'[j][d][i].hi = table[j][d][i].hi
           /\ table'[j][d][i].lo = table[j][d][i].lo
  BY <1>1, <1>2, <1>3, RegType, TableType
<1> QED
  BY <1>4, Zenon DEF w

(* From between the two, main goes on to store.                            *)
LEMMA WithinLeaves ==
  ASSUME Within, pc \in {"98 high", "99 high"}
  PROVE  StoreTemperature \/ StorePressure
BY DEF Within, ReadTemperature, StoreTemperature, PointToResult, ReadPressure, StorePressure,
       ReadCell, PushServos, From

(* Nothing else stores, or leaves main between the two.                    *)
LEMMA TableStays ==
  ASSUME TypeOK, Places, [Next]_vars, ~StoreTemperature, ~StorePressure
  PROVE  /\ table' = table
         /\ \/ pc' \notin {"98 high", "99 high"}
            \/ pc' = pc /\ reg' = reg
<1>1. CASE ReadTemperature \/ PointToResult \/ ReadPressure \/ ReadCell \/ PushServos
  BY <1>1 DEF ReadTemperature, PointToResult, ReadPressure, ReadCell, PushServos, To, data
<1>2. CASE StartPressure
  <2>1. table' = table
    BY <1>2 DEF StartPressure, data
  <2> QED
    BY <1>2, <2>1, StartMoves
<1>3. CASE EndDelay
  <2>1. table' = table /\ pc' = "98"
    BY <1>3, Zenon DEF EndDelay, To, data
  <2> QED
    BY <2>1
<1>4. CASE BeginDelay \/ NextBlock
  BY <1>4, Zenon DEF BeginDelay, NextBlock, data
<1>5. CASE Others \/ UNCHANGED vars
  BY <1>5, OthersStay
<1> QED
  BY <1>1, <1>2, <1>3, <1>4, <1>5, NextCases DEF Within

LEMMA InitTorn == Init => OneTorn
<1> SUFFICES ASSUME Init PROVE OneTorn
  OBVIOUS
<1>1. \A k \in Kind, c \in Chip, m \in Mux : table[k][c][m].lo = table[k][c][m].hi
  BY DEF Init
<1>2. pc = "98"
  BY DEF Init
<1> QED
  BY <1>1, <1>2 DEF OneTorn

LEMMA TornStep == TypeOK /\ Places /\ OneTorn /\ [Next]_vars => OneTorn'
<1> SUFFICES ASSUME TypeOK, Places, OneTorn, [Next]_vars PROVE OneTorn'
  OBVIOUS
<1>0. /\ "temperature" \in Kind /\ "pressure" \in Kind /\ "temperature" # "pressure"
      /\ reg.chip \in Chip /\ reg.mux \in Mux
  BY RegType DEF Kind
<1>1. ASSUME NEW k \in Kind, StoreLow(k),
             \/ pc = "98 low" /\ pc' = "98 high" /\ k = "temperature"
             \/ pc = "99 low" /\ pc' = "99 high" /\ k = "pressure"
      PROVE  OneTorn'
  <2>1. \A j \in Kind, d \in Chip, i \in Mux : table[j][d][i].lo = table[j][d][i].hi
    BY <1>1 DEF OneTorn
  <2>a. \A j \in Kind, d \in Chip, i \in Mux :
          /\ ~(j = k /\ d = reg.chip /\ i = reg.mux) => table'[j][d][i].lo = table[j][d][i].lo
          /\ table'[j][d][i].hi = table[j][d][i].hi
    BY <1>1, StoreLowMoves, Zenon
  <2>2. ASSUME NEW j \in Kind, NEW d \in Chip, NEW i \in Mux,
               table'[j][d][i].lo # table'[j][d][i].hi
        PROVE  j = k /\ d = reg.chip /\ i = reg.mux
    <3>1. ~(j = k /\ d = reg.chip /\ i = reg.mux) =>
            table'[j][d][i].lo = table[j][d][i].lo /\ table'[j][d][i].hi = table[j][d][i].hi
      BY <2>a
    <3> QED
      BY <2>1, <2>2, <3>1
  <2>3. table'[k][reg.chip][reg.mux].lo = [from |-> reg.reading, type |-> types[k]]
    BY <1>0, <1>1, StoreLowMoves
  <2>4. /\ reg'.reading = reg.reading /\ reg'.type = types[k]
        /\ reg'.chip = reg.chip /\ reg'.mux = reg.mux
    BY <1>0, <1>1, StoreLowMoves
  <2> QED
    BY <1>0, <1>1, <2>2, <2>3, <2>4 DEF OneTorn
<1>2. ASSUME NEW k \in Kind, StoreHigh(k),
             \/ pc = "98 high" /\ pc' = "131" /\ k = "temperature"
             \/ pc = "99 high" /\ pc' = "100" /\ k = "pressure"
      PROVE  OneTorn'
  <2>1. table[k][reg.chip][reg.mux].lo = [from |-> reg.reading, type |-> reg.type]
    BY <1>2 DEF OneTorn
  <2>2. ASSUME NEW j \in Kind, NEW d \in Chip, NEW i \in Mux
        PROVE  table'[j][d][i].lo = table'[j][d][i].hi
    <3>1. CASE j = k /\ d = reg.chip /\ i = reg.mux
      BY <1>2, <2>1, <3>1, StoreHighMoves
    <3>2. CASE ~(j = k /\ d = reg.chip /\ i = reg.mux)
      <4>1. table[j][d][i].lo = table[j][d][i].hi
        BY <1>2, <3>2 DEF OneTorn
      <4> QED
        <5>1. table'[j][d][i].lo = table[j][d][i].lo /\ table'[j][d][i].hi = table[j][d][i].hi
          <6>1. StoreHigh(k)
            BY <1>2
          <6> QED
            BY <6>1, <3>2, StoreHighMoves
        <5> QED
          BY <4>1, <5>1
    <3> QED
      BY <3>1, <3>2
  <2> QED
    BY <1>2, <2>2 DEF OneTorn
<1>3. CASE StoreTemperature \/ StorePressure
  BY <1>0, <1>1, <1>2, <1>3 DEF StoreTemperature, StorePressure, From, To
<1>4. CASE ~StoreTemperature /\ ~StorePressure
  <2>1. table' = table /\ (pc' \notin {"98 high", "99 high"} \/ (pc' = pc /\ reg' = reg))
    BY <1>4, TableStays
  <2>2. CASE pc' = pc /\ reg' = reg
    BY <2>1, <2>2 DEF OneTorn
  <2>3. CASE pc' \notin {"98 high", "99 high"}
    <3>1. pc \notin {"98 high", "99 high"} \/ (pc' = pc /\ reg' = reg)
      BY <1>4, NextCases, WithinLeaves, StartMoves, EndMoves, BeginMoves, NextBlockMoves, OthersStay
    <3> QED
      BY <2>1, <2>2, <2>3, <3>1 DEF OneTorn
  <2> QED
    BY <2>1, <2>2, <2>3
<1> QED
  BY <1>3, <1>4

-----------------------------------------------------------------------------
LEMMA InitPlaces == Init => Places
BY DEF Init, Places, Outside

(* The delays are long enough, and milliseconds are counted, three in each *)
(* turn and none too soon, whoever restarts the counter (devices.c:265,    *)
(* main.c:37).                                                             *)
THEOREM TimeIsKept == Spec => TimeKept
<1>1. TypeOK /\ Places /\ TimeInv /\ [Next]_vars =>
        [/\ pc # pc' /\ delay > 0 => past.slept >= Blocks * Millisecond
         /\ pc = "37" /\ pc' # "37" => past.ticks >= 3
         /\ msec' # msec => past.since + systick >= Millisecond]_vars
  BY TimeKeptStep
<1> QED
  BY <1>1, InitType, TypeStep, InitPlaces, PlacesStep, InitTime, TimeStep, PTL
     DEF Spec, TimeKept

(* Whenever a host asks for a table, at most one of its values is made of  *)
(* two (devices.c:225).                                                    *)
THEOREM AtMostOneIsTorn == Spec => []AtMostOneTorn
<1>1. TypeOK /\ OneTorn => AtMostOneTorn
  <2> SUFFICES ASSUME TypeOK, OneTorn, NEW d \in Torn, NEW e \in Torn
               PROVE  d = e
    BY DEF AtMostOneTorn
  <2>1. /\ d \in Kind \X Chip \X Mux /\ table[d[1]][d[2]][d[3]].lo # table[d[1]][d[2]][d[3]].hi
        /\ e \in Kind \X Chip \X Mux /\ table[e[1]][e[2]][e[3]].lo # table[e[1]][e[2]][e[3]].hi
    BY Zenon DEF Torn, Entries, Entry
  <2>2. \A k \in Kind, c \in Chip, m \in Mux : table[k][c][m].lo # table[k][c][m].hi =>
          /\ c = reg.chip /\ m = reg.mux
          /\ k = (IF pc = "98 high" THEN "temperature" ELSE "pressure")
    BY DEF OneTorn
  <2>3. /\ d[1] \in Kind /\ d[2] \in Chip /\ d[3] \in Mux
        /\ e[1] \in Kind /\ e[2] \in Chip /\ e[3] \in Mux
    BY <2>1
  <2> DEFINE stored == IF pc = "98 high" THEN "temperature" ELSE "pressure"
  <2> HIDE DEF stored
  <2>4. \A k \in Kind, c \in Chip, m \in Mux : table[k][c][m].lo # table[k][c][m].hi =>
          k = stored /\ c = reg.chip /\ m = reg.mux
    BY <2>2 DEF stored
  <2>5. d[1] = stored /\ d[2] = reg.chip /\ d[3] = reg.mux
    BY <2>1, <2>3, <2>4, Zenon
  <2>6. e[1] = stored /\ e[2] = reg.chip /\ e[3] = reg.mux
    BY <2>1, <2>3, <2>4, Zenon
  <2> QED
    BY <2>1, <2>5, <2>6
<1> QED
  BY <1>1, InitType, TypeStep, InitPlaces, PlacesStep, InitTorn, TornStep, PTL DEF Spec

-----------------------------------------------------------------------------
(* The time left until main reads a chip.                                  *)

LEMMA TransfersType ==
  ASSUME NEW p \in Label, NEW chip \in Chip, NEW c \in Chip
  PROVE  Transfers(p, chip, c) \in Int
BY DEF Transfers, Chip

LEMMA LeftType ==
  ASSUME NEW p \in Label, NEW chip \in Chip, NEW block \in 0 .. Millisecond,
         NEW k \in Kind, NEW c \in Chip
  PROVE  Left(p, chip, block, k, c) \in Int
BY TransfersType DEF Left

LEMMA LeftLess ==
  ASSUME NEW p \in Label, NEW chip \in Chip, NEW n \in Nat, NEW k \in Kind, NEW c \in Chip,
         NEW b1 \in 0 .. Millisecond, NEW b2 \in 0 .. Millisecond, b2 >= b1 - n
  PROVE  Left(p, chip, b2, k, c) >= Left(p, chip, b1, k, c) - n
<1> DEFINE s == IF k = "temperature" THEN Transfers(p, chip, c) * SpiTime ELSE 0
<1>1. s \in Int
  BY TransfersType
<1> HIDE DEF s
<1>2. /\ Left(p, chip, b1, k, c) = s + (IF Begun(p, chip, k, c) THEN b1 ELSE 0)
      /\ Left(p, chip, b2, k, c) = s + (IF Begun(p, chip, k, c) THEN b2 ELSE 0)
  BY Zenon DEF Left, s
<1> QED
  BY <1>1, <1>2

(* Within a chip only the transfer of line 98 brings main nearer.          *)
LEMMA LeftWithin ==
  ASSUME NEW p, NEW q, <<p, q>> \in Steps, p # "98",
         NEW chip \in Chip, NEW block, NEW k \in Kind, NEW c \in Chip
  PROVE  /\ (Begun(q, chip, k, c) <=> Begun(p, chip, k, c))
         /\ Left(q, chip, block, k, c) = Left(p, chip, block, k, c)
<1>1. /\ q # "98" /\ (p \in Outside <=> q \in Outside)
  BY DEF Steps, Outside
<1>2. \A j \in Kind : (Begun(q, chip, j, c) <=> Begun(p, chip, j, c))
  BY <1>1, Zenon DEF Begun
<1>3. Transfers(q, chip, c) = Transfers(p, chip, c)
  <2>1. "temperature" \in Kind
    BY DEF Kind
  <2>2. (Begun(q, chip, "temperature", c) <=> Begun(p, chip, "temperature", c))
    BY <1>2, <2>1
  <2> QED
    BY <1>1, <2>2 DEF Transfers
<1> QED
  BY <1>2, <1>3 DEF Left

LEMMA LeftRead ==
  ASSUME NEW chip \in Chip, NEW block \in 0 .. Millisecond, NEW k \in Kind, NEW c \in Chip,
         ~(k = "temperature" /\ c = chip)
  PROVE  /\ (Begun("98 low", chip, k, c) <=> Begun("98", chip, k, c))
         /\ Left("98 low", chip, block, k, c) >= Left("98", chip, block, k, c) - SpiTime
<1>1. (Begun("98 low", chip, k, c) <=> Begun("98", chip, k, c))
  BY DEF Begun, Outside
<1> DEFINE now == Left("98", chip, block, k, c)
           next == Left("98 low", chip, block, k, c)
<1>2. k = "pressure" => next >= now - SpiTime
  <2> SUFFICES ASSUME k = "pressure" PROVE next >= now - SpiTime
    OBVIOUS
  <2>1. next = now
    BY <1>1 DEF Left
  <2>2. now \in Int
    BY LeftType DEF Label
  <2> HIDE DEF now, next
  <2> QED
    BY <2>1, <2>2
<1>3. k = "temperature" => next >= now - SpiTime
  <2> SUFFICES ASSUME k = "temperature" PROVE next >= now - SpiTime
    OBVIOUS
  <2> DEFINE t1 == Transfers("98", chip, c)
             t2 == Transfers("98 low", chip, c)
             b == IF Begun("98", chip, k, c) THEN block ELSE 0
  <2>1. t1 \in Int /\ t2 = t1 - 1
    BY DEF Transfers, Begun, Outside, Chip
  <2>2. b \in Int
    OBVIOUS
  <2> HIDE DEF t1, t2, b
  <2>3. now = t1 * SpiTime + b
    BY DEF Left, t1, b
  <2>4. next = t2 * SpiTime + b
    BY <1>1 DEF Left, t2, b
  <2> HIDE DEF now, next
  <2>5. t2 * SpiTime = t1 * SpiTime - SpiTime
    BY <2>1
  <2>6. t1 * SpiTime \in Int
    BY <2>1
  <2> QED
    BY <2>2, <2>3, <2>4, <2>5, <2>6
<1>4. next >= now - SpiTime
  BY <1>2, <1>3 DEF Kind
<1> QED
  BY <1>1, <1>4

LEMMA LeftStart ==
  ASSUME NEW chip \in Chip, NEW block \in 0 .. Millisecond, NEW k \in Kind, NEW c \in Chip,
         NEW q, NEW next,
         \/ chip + 1 < NChips /\ q = "98" /\ next = chip + 1
         \/ chip + 1 = NChips /\ q \in Outside /\ next = 0
  PROVE  /\ ~(k = "pressure" /\ c = chip) =>
              /\ (Begun(q, next, k, c) <=> Begun("100", chip, k, c))
              /\ Left(q, next, block, k, c) = Left("100", chip, block, k, c)
         /\ Begun(q, next, "pressure", chip) /\ Left(q, next, block, "pressure", chip) = block
<1>1. ~(k = "pressure" /\ c = chip) => (Begun(q, next, k, c) <=> Begun("100", chip, k, c))
  BY DEF Begun, Outside, Chip, Kind
<1>2. Transfers(q, next, c) = Transfers("100", chip, c)
  BY DEF Transfers, Begun, Outside, Chip
<1>3. Begun(q, next, "pressure", chip)
  BY DEF Begun, Outside, Chip
<1>4. Left(q, next, block, "pressure", chip) = block
  BY <1>3 DEF Left
<1>5. ~(k = "pressure" /\ c = chip) =>
        Left(q, next, block, k, c) = Left("100", chip, block, k, c)
  BY <1>1, <1>2 DEF Left
<1> QED
  BY <1>1, <1>3, <1>4, <1>5

LEMMA LeftEnd ==
  ASSUME NEW p \in Outside, NEW block \in 0 .. Millisecond, NEW k \in Kind, NEW c \in Chip
  PROVE  /\ Begun(p, 0, k, c) /\ ~Begun("98", 0, k, c)
         /\ Left("98", 0, block, k, c) = Left(p, 0, 0, k, c)
<1>1. Begun(p, 0, k, c) /\ ~Begun("98", 0, k, c) /\ ~Begun("98", 0, "temperature", c)
  BY DEF Begun, Outside, Chip
<1>2. Transfers("98", 0, c) = c /\ Transfers(p, 0, c) = c
  BY <1>1 DEF Transfers, Outside, Chip
<1> QED
  BY <1>1, <1>2 DEF Left

LEMMA TimeLeftType ==
  ASSUME TypeOK, [Next]_vars, NEW k \in Kind, NEW c \in Chip
  PROVE  /\ LastBlock \in 0 .. Millisecond /\ LastBlock' \in 0 .. Millisecond
         /\ TimeLeft(k, c) \in Int /\ TimeLeft(k, c)' \in Int
<1>1. TypeOK'
  BY TypeStep
<1>2. LastBlock \in 0 .. Millisecond
  BY ClockType DEF LastBlock
<1>3. systick' \in 1 .. Millisecond
  BY <1>1 DEF TypeOK
<1>4. LastBlock' \in 0 .. Millisecond
  BY <1>3 DEF LastBlock
<1>5. /\ pc \in Label /\ reg.chip \in Chip /\ pc' \in Label /\ reg'.chip \in Chip
  BY <1>1 DEF TypeOK
<1>6. TimeLeft(k, c) \in Int
  BY <1>2, <1>5, LeftType DEF TimeLeft
<1>7. TimeLeft(k, c)' \in Int
  BY <1>4, <1>5, LeftType DEF TimeLeft
<1> QED
  BY <1>2, <1>4, <1>6, <1>7

-----------------------------------------------------------------------------
(* A conversion that goes on, or ends, is in time and the one main will    *)
(* read.                                                                   *)
LEMMA AfterMoves ==
  ASSUME NEW n \in Nat, NEW a \in Adc, NEW b, b = After(n, a)
  PROVE  /\ b.pointer = a.pointer
         /\ \/ a.input = None /\ b = a
            \/ /\ a.input # None /\ a.remaining > n
               /\ b.input = a.input /\ b.remaining = a.remaining - n
            \/ /\ a.input # None /\ b.input = None
               /\ b.result.mux = a.input /\ b.result.fresh
<1>1. CASE a.input = None
  BY <1>1 DEF After
<1>2. CASE a.input # None /\ a.remaining > n
  BY <1>2 DEF After, Adc
<1>3. CASE a.input # None /\ ~(a.remaining > n)
  <2> DEFINE r == [mux |-> a.input, fresh |-> TRUE, doubt |-> FALSE]
  <2>1. b = [a EXCEPT !.input = None, !.remaining = 0, !.result = r]
    BY <1>3 DEF After
  <2>2. r.mux = a.input /\ r.fresh
    OBVIOUS
  <2> HIDE DEF r
  <2>3. b.input = None /\ b.result = r /\ b.pointer = a.pointer
    BY <2>1 DEF Adc
  <2> QED
    BY <1>3, <2>2, <2>3
<1> QED
  BY <1>1, <1>2, <1>3

LEMMA ConvertsOn ==
  ASSUME TypeOK, [Next]_vars, NEW k \in Kind, NEW c \in Chip, NEW n \in Nat,
         InTime(k, c), Converts(k, c),
         \/ adc'[k][c] = After(n, adc[k][c])
         \/ /\ n = 0
            /\ adc'[k][c].input = adc[k][c].input /\ adc'[k][c].remaining = adc[k][c].remaining
            /\ adc'[k][c].result = adc[k][c].result \/ BetweenReadAndStart(k, c)',
         TimeLeft(k, c)' >= TimeLeft(k, c) - n,
         NextRead(k, c)' = NextRead(k, c),
         doubt[k][c] => doubt'[k][c],
         BetweenReadAndStart(k, c) => BetweenReadAndStart(k, c)'
  PROVE  InTime(k, c)' /\ Converts(k, c)'
<1>1. adc[k][c] \in Adc /\ TimeLeft(k, c) \in Int /\ TimeLeft(k, c)' \in Int
  BY TimeLeftType DEF TypeOK
<1> DEFINE a == adc[k][c]
           b == adc'[k][c]
           t == TimeLeft(k, c)
           u == TimeLeft(k, c)'
<1>2. /\ a.input # None => a.remaining \in 1 .. t
      /\ ~doubt[k][c] /\ ~BetweenReadAndStart(k, c) =>
           \/ a.input = NextRead(k, c)
           \/ a.input = None /\ a.result.mux = NextRead(k, c) /\ a.result.fresh
  BY Zenon DEF InTime, Converts
<1>3. ASSUME /\ b.input # None => b.remaining \in 1 .. u
             /\ ~doubt'[k][c] /\ ~BetweenReadAndStart(k, c)' =>
                  \/ b.input = NextRead(k, c)
                  \/ b.input = None /\ b.result.mux = NextRead(k, c) /\ b.result.fresh
      PROVE  InTime(k, c)' /\ Converts(k, c)'
  BY <1>3, Zenon DEF InTime, Converts
<1>4. CASE b = After(n, a)
  BY <1>1, <1>2, <1>3, <1>4, AfterMoves
<1>5. CASE /\ n = 0
           /\ b.input = a.input /\ b.remaining = a.remaining
           /\ b.result = a.result \/ BetweenReadAndStart(k, c)'
  BY <1>1, <1>2, <1>3, <1>5
<1> QED
  BY <1>4, <1>5

(* Main stays where it is.                                                 *)
LEMMA ChipsStill ==
  ASSUME TypeOK, ChipsInv, [Next]_vars, UNCHANGED <<pc, reg, doubt>>,
         \/ adc' = Converted(1, adc) /\ LastBlock' >= LastBlock - 1
         \/ adc' = adc /\ LastBlock' >= LastBlock
  PROVE  ChipsInv'
<1>0. adc \in Adcs /\ \A k \in Kind, c \in Chip : adc[k][c] \in Adc
  BY DEF TypeOK, Adcs
<1>1. ASSUME NEW k \in Kind, NEW c \in Chip
      PROVE  InTime(k, c)' /\ Converts(k, c)'
  <2>0. InTime(k, c) /\ Converts(k, c)
    BY DEF ChipsInv
  <2>1. PICK n \in {0, 1} : /\ LastBlock' >= LastBlock - n
                            /\ \/ adc'[k][c] = After(n, adc[k][c])
                               \/ n = 0 /\ adc'[k][c] = adc[k][c]
    <3>1. CASE adc' = Converted(1, adc) /\ LastBlock' >= LastBlock - 1
      BY <3>1, <1>0, ConvertedType
    <3>2. CASE adc' = adc /\ LastBlock' >= LastBlock
      <4>1. LastBlock' >= LastBlock - 0
        BY <3>2, TimeLeftType
      <4> QED
        BY <3>2, <4>1
    <3> QED
      BY <3>1, <3>2
  <2>2. TimeLeft(k, c)' >= TimeLeft(k, c) - n
    <3>1. TimeLeft(k, c) = Left(pc, reg.chip, LastBlock, k, c)
      BY DEF TimeLeft
    <3>2. TimeLeft(k, c)' = Left(pc, reg.chip, LastBlock', k, c)
      BY DEF TimeLeft
    <3> QED
      BY <2>1, <3>1, <3>2, TimeLeftType, RegType, LeftLess
  <2>3. NextRead(k, c)' = NextRead(k, c)
    BY DEF NextRead
  <2>4. BetweenReadAndStart(k, c) => BetweenReadAndStart(k, c)'
    BY DEF BetweenReadAndStart
  <2> QED
    BY <2>0, <2>1, <2>2, <2>3, <2>4, ConvertsOn
<1>2. Pointed'
  <2>1. reg.chip \in Chip /\ "pressure" \in Kind
    BY RegType DEF Kind
  <2>2. adc'["pressure"][reg.chip].pointer = adc["pressure"][reg.chip].pointer
    BY <1>0, <2>1, ConvertedType, AfterMoves
  <2> QED
    BY <2>2 DEF ChipsInv, Pointed
<1> QED
  BY <1>1, <1>2 DEF ChipsInv

(* One chip of a table of them changes.                                    *)
Put(f, k, c, v) == [f EXCEPT ![k][c] = v]

LEMMA PutAdc ==
  ASSUME NEW f \in Adcs, NEW k \in Kind, NEW c \in Chip, NEW v \in Adc
  PROVE  /\ Put(f, k, c, v) \in Adcs
         /\ Put(f, k, c, v)[k][c] = v
         /\ \A j \in Kind, d \in Chip :
              ~(j = k /\ d = c) => Put(f, k, c, v)[j][d] = f[j][d]
BY DEF Put, Adcs

Doubts == [Kind -> [Chip -> BOOLEAN]]

LEMMA PutDoubt ==
  ASSUME NEW f \in Doubts, NEW k \in Kind, NEW c \in Chip, NEW v \in BOOLEAN
  PROVE  /\ (Put(f, k, c, v)[k][c] <=> v)
         /\ \A j \in Kind, d \in Chip :
              ~(j = k /\ d = c) => (Put(f, k, c, v)[j][d] <=> f[j][d])
BY DEF Put, Doubts

LEMMA PutFalse ==
  ASSUME NEW f \in Doubts, NEW k \in Kind, NEW c \in Chip
  PROVE  /\ ~Put(f, k, c, FALSE)[k][c]
         /\ \A j \in Kind, d \in Chip :
              ~(j = k /\ d = c) => (Put(f, k, c, FALSE)[j][d] <=> f[j][d])
BY DEF Put, Doubts

LEMMA PointerType ==
  ASSUME NEW a \in Adc, NEW p \in {"conversion", "config"}
  PROVE  LET b == [a EXCEPT !.pointer = p]
         IN  /\ b \in Adc /\ b.pointer = p
             /\ b.input = a.input /\ b.remaining = a.remaining /\ b.result = a.result
BY DEF Adc

(* What happens to the pressure chip at which main is, and to no other.    *)
LEMMA PointMoves ==
  ASSUME TypeOK, PointToResult
  PROVE  LET a == adc["pressure"][reg.chip]
             b == adc'["pressure"][reg.chip]
         IN  /\ b.input = a.input /\ b.remaining = a.remaining /\ b.result = a.result
             /\ doubt["pressure"][reg.chip] => doubt'["pressure"][reg.chip]
             /\ ~doubt'["pressure"][reg.chip] => b.pointer = "conversion"
             /\ \A k \in Kind, c \in Chip : ~(k = "pressure" /\ c = reg.chip) =>
                  adc'[k][c] = adc[k][c] /\ (doubt'[k][c] <=> doubt[k][c])
<1> DEFINE c == reg.chip
           a == adc["pressure"][c]
           b == [a EXCEPT !.pointer = "conversion"]
<1>1. /\ adc \in Adcs /\ doubt \in Doubts
      /\ c \in Chip /\ "pressure" \in Kind /\ a \in Adc
  BY RegType DEF TypeOK, Kind, Adcs, Doubts
<1>2. \/ adc' = Put(adc, "pressure", c, b) /\ doubt' = doubt
      \/ adc' = adc /\ doubt' = Put(doubt, "pressure", c, TRUE)
  BY Zenon DEF PointToResult, Put
<1>3. /\ b \in Adc /\ b.pointer = "conversion"
      /\ b.input = a.input /\ b.remaining = a.remaining /\ b.result = a.result
  BY <1>1, PointerType
<1> HIDE DEF a, b, c
<1>4. CASE adc' = Put(adc, "pressure", c, b) /\ doubt' = doubt
  <2>1. adc'["pressure"][c] = b
    BY <1>1, <1>3, <1>4, PutAdc
  <2>2. \A k \in Kind, d \in Chip : ~(k = "pressure" /\ d = c) => adc'[k][d] = adc[k][d]
    BY <1>1, <1>3, <1>4, PutAdc
  <2> QED
    BY <1>3, <1>4, <2>1, <2>2, Zenon DEF a, c
<1>5. CASE adc' = adc /\ doubt' = Put(doubt, "pressure", c, TRUE)
  <2>1. doubt'["pressure"][c]
    BY <1>1, <1>5, PutDoubt
  <2>2. \A k \in Kind, d \in Chip : ~(k = "pressure" /\ d = c) => (doubt'[k][d] <=> doubt[k][d])
    BY <1>1, <1>5, PutDoubt
  <2> QED
    BY <1>5, <2>1, <2>2, Zenon DEF a, c
<1> QED
  BY <1>2, <1>4, <1>5

LEMMA DoubtReading ==
  ASSUME NEW r \in Reading, NEW b \in BOOLEAN
  PROVE  LET s == [r EXCEPT !.doubt = b]
         IN  (s.doubt <=> b) /\ s.mux = r.mux /\ (s.fresh <=> r.fresh)
BY DEF Reading

LEMMA ReadMoves ==
  ASSUME TypeOK, ReadPressure
  PROVE  LET a == adc["pressure"][reg.chip]
             b == adc'["pressure"][reg.chip]
         IN  /\ b.input = a.input /\ b.remaining = a.remaining
             /\ doubt["pressure"][reg.chip] => doubt'["pressure"][reg.chip]
             /\ \/ reg'.reading.doubt
                \/ /\ ~doubt["pressure"][reg.chip]
                   /\ a.pointer = "conversion" =>
                        reg'.reading.mux = a.result.mux /\ (reg'.reading.fresh <=> a.result.fresh)
             /\ \A k \in Kind, c \in Chip : ~(k = "pressure" /\ c = reg.chip) =>
                  adc'[k][c] = adc[k][c] /\ (doubt'[k][c] <=> doubt[k][c])
<1> DEFINE c == reg.chip
           a == adc["pressure"][c]
           was == doubt["pressure"][c]
           b == IF a.pointer = "conversion" THEN ReadOut(a) ELSE a
           r == [(IF a.pointer = "conversion" THEN a.result ELSE NoReading) EXCEPT !.doubt = was]
<1>1. /\ adc \in Adcs /\ doubt \in Doubts
      /\ c \in Chip /\ "pressure" \in Kind /\ a \in Adc
  BY RegType DEF TypeOK, Kind, Adcs, Doubts
<1>2. \/ /\ reg' = [reg EXCEPT !.reading = r]
         /\ adc' = Put(adc, "pressure", c, b) /\ doubt' = doubt
      \/ /\ reg' = [reg EXCEPT !.reading = NoReading]
         /\ adc' = adc /\ doubt' = Put(doubt, "pressure", c, TRUE)
  BY Zenon DEF ReadPressure, Put
<1>3. b \in Adc /\ b.input = a.input /\ b.remaining = a.remaining
  BY <1>1, ReadOutType
<1>4. was \in BOOLEAN
  BY <1>1 DEF Doubts
<1>5. r.doubt \/ (~was /\ (a.pointer = "conversion" =>
                              r.mux = a.result.mux /\ (r.fresh <=> a.result.fresh)))
  <2>1. a.result \in Reading
    BY <1>1 DEF Adc
  <2>2. CASE a.pointer = "conversion"
    <3>1. r = [a.result EXCEPT !.doubt = was]
      BY <2>2, Zenon
    <3> HIDE DEF r, a, was
    <3> QED
      BY <1>4, <2>1, <3>1, DoubtReading
  <2>3. CASE a.pointer # "conversion"
    <3>1. r = [NoReading EXCEPT !.doubt = was]
      BY <2>3, Zenon
    <3> HIDE DEF r, a, was
    <3> QED
      BY <1>4, <2>3, <3>1, NoReadingType, DoubtReading
  <2> QED
    BY <2>2, <2>3
<1> HIDE DEF a, b, c, r, was
<1>6. CASE /\ reg' = [reg EXCEPT !.reading = r]
           /\ adc' = Put(adc, "pressure", c, b) /\ doubt' = doubt
  <2>1. adc'["pressure"][c] = b
    BY <1>1, <1>3, <1>6, PutAdc
  <2>2. \A k \in Kind, d \in Chip : ~(k = "pressure" /\ d = c) => adc'[k][d] = adc[k][d]
    BY <1>1, <1>3, <1>6, PutAdc
  <2>3. reg'.reading = r
    BY <1>6, RegType DEF Registers
  <2> QED
    BY <1>3, <1>5, <1>6, <2>1, <2>2, <2>3, Zenon DEF a, c, was
<1>7. CASE /\ reg' = [reg EXCEPT !.reading = NoReading]
           /\ adc' = adc /\ doubt' = Put(doubt, "pressure", c, TRUE)
  <2>1. doubt'["pressure"][c]
    BY <1>1, <1>7, PutDoubt
  <2>2. \A k \in Kind, d \in Chip : ~(k = "pressure" /\ d = c) => (doubt'[k][d] <=> doubt[k][d])
    BY <1>1, <1>7, PutDoubt
  <2>3. reg'.reading.doubt
    BY <1>7, RegType DEF Registers, NoReading
  <2> QED
    BY <1>7, <2>1, <2>2, <2>3, Zenon DEF a, c
<1> QED
  BY <1>2, <1>6, <1>7

LEMMA StartChipMoves ==
  ASSUME TypeOK, StartPressure
  PROVE  LET a == adc["pressure"][reg.chip]
             b == adc'["pressure"][reg.chip]
         IN  /\ \/ a.input = None => b.input = 1 - reg.mux /\ b.remaining = PressureTime
                \/ /\ doubt'["pressure"][reg.chip]
                   /\ b.input = a.input /\ b.remaining = a.remaining
             /\ \A k \in Kind, c \in Chip : ~(k = "pressure" /\ c = reg.chip) =>
                  adc'[k][c] = adc[k][c] /\ (doubt'[k][c] <=> doubt[k][c])
<1> DEFINE c == reg.chip
           a == adc["pressure"][c]
           started == Converting(a, NextMux(reg.mux), PressureTime)
           b == [started EXCEPT !.pointer = "config"]
           pointed(p) == [a EXCEPT !.pointer = p]
<1>0. doubt \in Doubts /\ c \in Chip /\ "pressure" \in Kind
  BY RegType DEF TypeOK, Kind, Doubts
<1>1. /\ adc \in Adcs /\ doubt \in Doubts
      /\ c \in Chip /\ "pressure" \in Kind /\ a \in Adc /\ reg.mux \in Mux
      /\ a.pointer \in {"conversion", "config"}
  BY RegType DEF TypeOK, Kind, Adcs, Adc, Doubts
<1>2. \/ adc' = Put(adc, "pressure", c, b) /\ doubt' = Put(doubt, "pressure", c, FALSE)
      \/ /\ \E p \in {a.pointer, "config"} : adc' = Put(adc, "pressure", c, pointed(p))
         /\ doubt' = Put(doubt, "pressure", c, TRUE)
  BY Zenon DEF StartPressure, Put
<1>3. started \in Adc
  <2>1. NextMux(reg.mux) \in Mux /\ PressureTime \in Nat
    BY <1>1, TimingAssumption DEF NextMux, Mux
  <2> HIDE DEF a
  <2> QED
    BY <1>1, <2>1, ConvertingType
<1>4. a.input = None => started.input = 1 - reg.mux /\ started.remaining = PressureTime
  BY <1>1 DEF Converting, NextMux, Adc
<1>5. b \in Adc /\ b.input = started.input /\ b.remaining = started.remaining
  <2> HIDE DEF started
  <2> QED
    BY <1>3, PointerType
<1> HIDE DEF a, b, c, started, pointed
<1>6. CASE adc' = Put(adc, "pressure", c, b) /\ doubt' = Put(doubt, "pressure", c, FALSE)
  <2>1. adc'["pressure"][c] = b
    BY <1>1, <1>5, <1>6, PutAdc
  <2>2. \A k \in Kind, d \in Chip : ~(k = "pressure" /\ d = c) =>
          adc'[k][d] = adc[k][d] /\ (doubt'[k][d] <=> doubt[k][d])
    <3>1. \A k \in Kind, d \in Chip : ~(k = "pressure" /\ d = c) => adc'[k][d] = adc[k][d]
      BY <1>1, <1>5, <1>6, PutAdc
    <3>2. \A k \in Kind, d \in Chip : ~(k = "pressure" /\ d = c) =>
            (doubt'[k][d] <=> doubt[k][d])
      <4>1. doubt' = Put(doubt, "pressure", c, FALSE)
        BY <1>6
      <4> QED
        BY <1>0, <4>1, PutDoubt
    <3> QED
      BY <3>1, <3>2
  <2>3. a.input = None => b.input = 1 - reg.mux /\ b.remaining = PressureTime
    BY <1>4, <1>5
  <2> QED
    BY <2>1, <2>2, <2>3, Zenon DEF a, c
<1>7. ASSUME NEW p \in {a.pointer, "config"}, adc' = Put(adc, "pressure", c, pointed(p)),
             doubt' = Put(doubt, "pressure", c, TRUE)
      PROVE  /\ doubt'["pressure"][c]
             /\ adc'["pressure"][c].input = a.input
             /\ adc'["pressure"][c].remaining = a.remaining
             /\ \A k \in Kind, d \in Chip : ~(k = "pressure" /\ d = c) =>
                  adc'[k][d] = adc[k][d] /\ (doubt'[k][d] <=> doubt[k][d])
  <2>1. p \in {"conversion", "config"}
    BY <1>1
  <2>2. /\ pointed(p) \in Adc /\ pointed(p).input = a.input
        /\ pointed(p).remaining = a.remaining
    BY <1>1, <2>1, PointerType DEF pointed
  <2> DEFINE v == pointed(p)
  <2>3. /\ v \in Adc /\ v.input = a.input /\ v.remaining = a.remaining
        /\ adc' = Put(adc, "pressure", c, v)
    BY <1>7, <2>2
  <2> HIDE DEF v
  <2>4. adc'["pressure"][c] = v
    BY <1>1, <2>3, PutAdc
  <2>5. \A k \in Kind, d \in Chip : ~(k = "pressure" /\ d = c) => adc'[k][d] = adc[k][d]
    BY <1>1, <2>3, PutAdc
  <2>6. doubt'["pressure"][c]
    BY <1>1, <1>7, PutDoubt
  <2>7. \A k \in Kind, d \in Chip : ~(k = "pressure" /\ d = c) =>
          (doubt'[k][d] <=> doubt[k][d])
    <3>1. doubt' = Put(doubt, "pressure", c, TRUE)
      BY <1>7
    <3> QED
      BY <1>0, <3>1, PutDoubt
  <2> QED
    BY <2>3, <2>4, <2>5, <2>6, <2>7
<1> QED
  BY <1>2, <1>6, <1>7, Zenon DEF a, c

(* The temperature chip that is read is started again, while the others go *)
(* on converting.                                                          *)
LEMMA TransferMoves ==
  ASSUME TypeOK, ReadTemperature
  PROVE  LET a == adc["temperature"][reg.chip]
             b == adc'["temperature"][reg.chip]
         IN  /\ a.input = None => b.input = 1 - reg.mux /\ b.remaining = TemperatureTime
             /\ (reg'.reading.doubt <=> doubt["temperature"][reg.chip])
             /\ reg'.reading.mux = a.result.mux /\ (reg'.reading.fresh <=> a.result.fresh)
             /\ \A k \in Kind, c \in Chip : ~(k = "temperature" /\ c = reg.chip) =>
                  adc'[k][c] = After(SpiTime, adc[k][c]) /\ (doubt'[k][c] <=> doubt[k][c])
<1> DEFINE c == reg.chip
           a == adc["temperature"][c]
           was == doubt["temperature"][c]
           read == Put(adc, "temperature", c, ReadOut(a))
           mid == Converted(SpiTime, read)
           m == mid["temperature"][c]
           b == Converting(m, NextMux(reg.mux), TemperatureTime)
           r == [a.result EXCEPT !.doubt = was]
<1>1. /\ adc \in Adcs /\ doubt \in Doubts
      /\ c \in Chip /\ "temperature" \in Kind /\ a \in Adc /\ reg.mux \in Mux
      /\ a.result \in Reading /\ was \in BOOLEAN
  BY RegType DEF TypeOK, Kind, Adcs, Adc, Doubts
<1>2. /\ reg' = [reg EXCEPT !.reading = r]
      /\ adc' = Put(mid, "temperature", c, b)
      /\ doubt' = Put(doubt, "temperature", c, FALSE)
  BY Zenon DEF ReadTemperature, Put
<1>3. (r.doubt <=> was) /\ r.mux = a.result.mux /\ (r.fresh <=> a.result.fresh)
  <2> HIDE DEF a, was
  <2> QED
    BY <1>1, DoubtReading
<1>4. ReadOut(a) \in Adc /\ ReadOut(a).input = a.input
  BY <1>1, ReadOutType
<1> DEFINE ro == ReadOut(a)
<1> HIDE DEF a, c, r, was, m, mid, read, b, ro
<1>5. /\ read \in Adcs /\ read["temperature"][c] = ro
      /\ \A k \in Kind, d \in Chip : ~(k = "temperature" /\ d = c) => read[k][d] = adc[k][d]
  BY <1>1, <1>4, PutAdc DEF read, ro
<1>6. /\ mid \in Adcs
      /\ \A k \in Kind, d \in Chip : mid[k][d] = After(SpiTime, read[k][d])
  BY <1>5, ConvertedType DEF mid
<1>7. m \in Adc /\ m = After(SpiTime, ro)
  BY <1>1, <1>5, <1>6 DEF m, Adcs
<1>8. a.input = None => m.input = None
  BY <1>4, <1>7 DEF After, ro
<1>9. b \in Adc
  <2>1. NextMux(reg.mux) \in Mux /\ TemperatureTime \in Nat
    BY <1>1, TimingAssumption DEF NextMux, Mux
  <2> QED
    BY <1>7, <2>1, ConvertingType DEF b
<1>10. m.input = None => b.input = 1 - reg.mux /\ b.remaining = TemperatureTime
  BY <1>7 DEF b, Converting, NextMux, Adc
<1>11. adc'["temperature"][c] = b
  BY <1>1, <1>2, <1>6, <1>9, PutAdc
<1>12. ASSUME NEW k \in Kind, NEW d \in Chip, ~(k = "temperature" /\ d = c)
       PROVE  adc'[k][d] = After(SpiTime, adc[k][d])
  <2>1. adc'[k][d] = mid[k][d]
    BY <1>1, <1>2, <1>6, <1>9, <1>12, PutAdc
  <2> QED
    BY <1>5, <1>6, <1>12, <2>1
<1>13. \A k \in Kind, d \in Chip : ~(k = "temperature" /\ d = c) => (doubt'[k][d] <=> doubt[k][d])
  BY <1>1, <1>2, PutDoubt
<1>14. reg'.reading = r
  BY <1>2, RegType DEF Registers
<1> QED
  BY <1>3, <1>8, <1>10, <1>11, <1>12, <1>13, <1>14 DEF a, c, was

-----------------------------------------------------------------------------
(* The steps of main.                                                      *)

LEMMA WithinLeft ==
  ASSUME TypeOK, Within, NEW k \in Kind, NEW c \in Chip
  PROVE  /\ LastBlock' = LastBlock
         /\ pc # "98" => TimeLeft(k, c)' = TimeLeft(k, c) /\ NextRead(k, c)' = NextRead(k, c)
         /\ BetweenReadAndStart(k, c) => BetweenReadAndStart(k, c)'
<1>1. /\ <<pc, pc'>> \in Steps /\ reg'.chip = reg.chip /\ reg'.mux = reg.mux
      /\ delay = 0 /\ delay' = 0 /\ reg.chip \in Chip
  BY WithinMoves, RegType
<1>2. LastBlock' = LastBlock /\ LastBlock = Millisecond
  BY <1>1 DEF LastBlock
<1>3. BetweenReadAndStart(k, c) => BetweenReadAndStart(k, c)'
  BY <1>1 DEF BetweenReadAndStart, Steps
<1>4. CASE pc # "98"
  <2>1. /\ (Begun(pc', reg.chip, k, c) <=> Begun(pc, reg.chip, k, c))
        /\ Left(pc', reg.chip, LastBlock, k, c) = Left(pc, reg.chip, LastBlock, k, c)
    BY <1>1, <1>4, LeftWithin
  <2>2. TimeLeft(k, c)' = Left(pc', reg.chip, LastBlock, k, c)
    BY <1>1, <1>2 DEF TimeLeft
  <2>3. NextRead(k, c)' = NextRead(k, c)
    BY <1>1, <2>1 DEF NextRead
  <2> QED
    BY <1>2, <1>3, <2>1, <2>2, <2>3 DEF TimeLeft
<1> QED
  BY <1>2, <1>3, <1>4

(* Line 98 of the loops.                                                   *)
LEMMA ChipsTransfer == TypeOK /\ ChipsInv /\ ReadTemperature /\ [Next]_vars => ChipsInv'
<1> SUFFICES ASSUME TypeOK, ChipsInv, ReadTemperature, [Next]_vars PROVE ChipsInv'
  OBVIOUS
<1>a. Within
  BY DEF Within
<1>1. /\ pc = "98" /\ pc' = "98 low" /\ reg'.chip = reg.chip /\ reg'.mux = reg.mux
      /\ reg.chip \in Chip /\ delay = 0 /\ delay' = 0
  BY <1>a, WithinMoves, RegType DEF ReadTemperature, From, To
<1>b. LastBlock = Millisecond /\ LastBlock' = Millisecond
  <2>1. delay = 0 => LastBlock = Millisecond
    BY DEF LastBlock
  <2>2. delay' = 0 => LastBlock' = Millisecond
    BY DEF LastBlock
  <2> QED
    BY <1>1, <2>1, <2>2
<1>2. ASSUME NEW k \in Kind, NEW c \in Chip, ~(k = "temperature" /\ c = reg.chip)
      PROVE  InTime(k, c)' /\ Converts(k, c)'
  <2>1. InTime(k, c) /\ Converts(k, c)
    BY DEF ChipsInv
  <2>2. /\ adc'[k][c] = After(SpiTime, adc[k][c])
        /\ (doubt'[k][c] <=> doubt[k][c])
    BY <1>2, TransferMoves
  <2>3. /\ (Begun("98 low", reg.chip, k, c) <=> Begun("98", reg.chip, k, c))
        /\ Left("98 low", reg.chip, Millisecond, k, c)
             >= Left("98", reg.chip, Millisecond, k, c) - SpiTime
    <3>1. Millisecond \in 0 .. Millisecond
      OBVIOUS
    <3> QED
      BY <1>1, <1>2, <3>1, LeftRead
  <2>4. /\ TimeLeft(k, c)' = Left("98 low", reg.chip, Millisecond, k, c)
        /\ TimeLeft(k, c) = Left("98", reg.chip, Millisecond, k, c)
    BY <1>1, <1>b DEF TimeLeft
  <2>5. TimeLeft(k, c)' >= TimeLeft(k, c) - SpiTime
    BY <2>3, <2>4
  <2>6. NextRead(k, c)' = NextRead(k, c)
    BY <1>1, <2>3 DEF NextRead
  <2>7. BetweenReadAndStart(k, c) => BetweenReadAndStart(k, c)'
    BY <1>a, WithinLeft
  <2>8. SpiTime \in Nat
    OBVIOUS
  <2> QED
    BY <2>1, <2>2, <2>5, <2>6, <2>7, <2>8, ConvertsOn
<1>3. ASSUME NEW k \in Kind, NEW c \in Chip, k = "temperature", c = reg.chip
      PROVE  InTime(k, c)' /\ Converts(k, c)'
  <2>1. TimeLeft(k, c) = 0
    <3>1. ~Begun("98", c, k, c) /\ Transfers("98", c, c) = 0
      BY <1>3 DEF Transfers, Begun, Outside, Chip
    <3>2. TimeLeft(k, c) = Left("98", c, LastBlock, k, c)
      BY <1>1, <1>3 DEF TimeLeft
    <3> QED
      BY <1>3, <3>1, <3>2 DEF Left
  <2>2. adc[k][c].input = None
    BY <2>1 DEF ChipsInv, InTime
  <2>3. adc'[k][c].input = 1 - reg.mux /\ adc'[k][c].remaining = TemperatureTime
    BY <1>3, <2>2, TransferMoves
  <2>4. NextRead(k, c)' = 1 - reg.mux
    BY <1>1, <1>3 DEF NextRead, Begun
  <2>5. TimeLeft(k, c)' = (NChips - 1) * SpiTime + Millisecond
    <3>1. Begun("98 low", c, k, c) /\ Transfers("98 low", c, c) = NChips - 1
      BY <1>3 DEF Transfers, Begun, Outside, Chip
    <3>2. TimeLeft(k, c)' = Left("98 low", c, Millisecond, k, c)
      BY <1>1, <1>3, <1>b DEF TimeLeft
    <3> QED
      BY <1>3, <3>1, <3>2 DEF Left
  <2>6. TemperatureTime \in 1 .. TimeLeft(k, c)'
    <3>1. (NChips - 1) * SpiTime \in Int
      OBVIOUS
    <3> QED
      BY <2>5, <3>1, TimingAssumption
  <2> QED
    BY <2>3, <2>4, <2>6 DEF InTime, Converts
<1>4. Pointed'
  BY <1>1 DEF Pointed
<1> QED
  BY <1>2, <1>3, <1>4 DEF ChipsInv

(* The steps of main within a chip that do not start a conversion.         *)
LEMMA ChipsWithin ==
  ASSUME TypeOK, ChipsInv, [Next]_vars, Within, ~ReadTemperature
  PROVE  ChipsInv'
<1>1. /\ pc # "98" /\ reg'.chip = reg.chip /\ reg.chip \in Chip /\ "pressure" \in Kind
      /\ <<pc, pc'>> \in Steps
  <2>1. pc # "98"
    BY DEF Within, StoreTemperature, PointToResult, ReadPressure, StorePressure, ReadCell,
           PushServos, From
  <2> QED
    BY <2>1, WithinMoves, RegType DEF Kind
<1>2. ASSUME NEW k \in Kind, NEW c \in Chip,
             /\ adc'[k][c].input = adc[k][c].input /\ adc'[k][c].remaining = adc[k][c].remaining
             /\ adc'[k][c].result = adc[k][c].result \/ BetweenReadAndStart(k, c)',
             doubt[k][c] => doubt'[k][c]
      PROVE  InTime(k, c)' /\ Converts(k, c)'
  <2>1. InTime(k, c) /\ Converts(k, c)
    BY DEF ChipsInv
  <2>2. /\ TimeLeft(k, c)' = TimeLeft(k, c) /\ NextRead(k, c)' = NextRead(k, c)
        /\ BetweenReadAndStart(k, c) => BetweenReadAndStart(k, c)'
    BY <1>1, WithinLeft
  <2>3. TimeLeft(k, c)' >= TimeLeft(k, c) - 0 /\ 0 \in Nat
    BY <2>2, TimeLeftType
  <2> QED
    BY <1>2, <2>1, <2>2, <2>3, ConvertsOn
<1>3. CASE StoreTemperature \/ StorePressure \/ ReadCell \/ PushServos
  <2>1. adc' = adc /\ doubt' = doubt
    BY <1>3, Zenon DEF StoreTemperature, StorePressure, StoreLow, StoreHigh, ReadCell, PushServos,
                       chips
  <2>2. pc' # "133"
    BY <1>3 DEF StoreTemperature, StorePressure, ReadCell, PushServos, To
  <2>3. \A k \in Kind, c \in Chip : InTime(k, c)' /\ Converts(k, c)'
    BY <1>2, <2>1
  <2> QED
    BY <2>2, <2>3 DEF ChipsInv, Pointed
<1>4. CASE PointToResult
  <2>1. \A k \in Kind, c \in Chip :
          /\ adc'[k][c].input = adc[k][c].input /\ adc'[k][c].remaining = adc[k][c].remaining
          /\ adc'[k][c].result = adc[k][c].result
          /\ doubt[k][c] => doubt'[k][c]
    BY <1>4, PointMoves
  <2>2. \A k \in Kind, c \in Chip : InTime(k, c)' /\ Converts(k, c)'
    BY <1>2, <2>1
  <2>3. Pointed'
    BY <1>1, <1>4, PointMoves DEF Pointed
  <2> QED
    BY <2>2, <2>3 DEF ChipsInv
<1>5. CASE ReadPressure
  <2>1. pc' = "99 low"
    BY <1>5 DEF ReadPressure, To
  <2>2. \A k \in Kind, c \in Chip :
          /\ adc'[k][c].input = adc[k][c].input /\ adc'[k][c].remaining = adc[k][c].remaining
          /\ adc'[k][c].result = adc[k][c].result \/ (k = "pressure" /\ c = reg.chip)
          /\ doubt[k][c] => doubt'[k][c]
    BY <1>5, ReadMoves
  <2>3. \A k \in Kind, c \in Chip :
          k = "pressure" /\ c = reg.chip => BetweenReadAndStart(k, c)'
    BY <1>1, <2>1 DEF BetweenReadAndStart
  <2>4. \A k \in Kind, c \in Chip : InTime(k, c)' /\ Converts(k, c)'
    BY <1>2, <2>2, <2>3
  <2> QED
    BY <2>1, <2>4 DEF ChipsInv, Pointed
<1> QED
  BY <1>3, <1>4, <1>5 DEF Within

(* Lines 100 and 108 start the pressure chip for the other half.           *)
LEMMA ChipsStart ==
  ASSUME TypeOK, ChipsInv, [Next]_vars, StartPressure
  PROVE  ChipsInv'
<1>a. delay = 0 /\ delay' = 0
  BY StartMoves
<1>1. /\ pc = "100" /\ reg'.mux = reg.mux /\ reg.chip \in Chip
      /\ pc' # "133" /\ pc' \notin {"99 low", "99 high", "100"}
      /\ \/ reg.chip + 1 < NChips /\ pc' = "98" /\ reg'.chip = reg.chip + 1
         \/ reg.chip + 1 = NChips /\ pc' \in Outside /\ reg'.chip = 0
  BY StartMoves, RegType DEF Outside
<1>2. LastBlock = Millisecond /\ LastBlock' = Millisecond /\ Millisecond \in 0 .. Millisecond
  <2>1. delay = 0 => LastBlock = Millisecond
    BY DEF LastBlock
  <2>2. delay' = 0 => LastBlock' = Millisecond
    BY DEF LastBlock
  <2> QED
    BY <1>a, <2>1, <2>2
<1>3. ASSUME NEW k \in Kind, NEW c \in Chip
      PROVE  /\ ~(k = "pressure" /\ c = reg.chip) =>
                  /\ TimeLeft(k, c)' = TimeLeft(k, c) /\ NextRead(k, c)' = NextRead(k, c)
             /\ k = "pressure" /\ c = reg.chip =>
                  /\ TimeLeft(k, c)' = Millisecond /\ NextRead(k, c)' = 1 - reg.mux
  <2> DEFINE q == pc'
             next == reg'.chip
  <2>1. /\ ~(k = "pressure" /\ c = reg.chip) =>
             /\ (Begun(q, next, k, c) <=> Begun("100", reg.chip, k, c))
             /\ Left(q, next, Millisecond, k, c) = Left("100", reg.chip, Millisecond, k, c)
        /\ Begun(q, next, "pressure", reg.chip)
        /\ Left(q, next, Millisecond, "pressure", reg.chip) = Millisecond
    <3>1. /\ reg.chip \in Chip
          /\ \/ reg.chip + 1 < NChips /\ q = "98" /\ next = reg.chip + 1
             \/ reg.chip + 1 = NChips /\ q \in Outside /\ next = 0
      BY <1>1, Zenon
    <3>2. Millisecond \in 0 .. Millisecond
      OBVIOUS
    <3> HIDE DEF q, next
    <3> QED
      BY <3>1, <3>2, LeftStart
  <2>2. /\ TimeLeft(k, c)' = Left(q, next, Millisecond, k, c)
        /\ TimeLeft(k, c) = Left("100", reg.chip, Millisecond, k, c)
    BY <1>1, <1>2 DEF TimeLeft
  <2>3. /\ NextRead(k, c)' = IF Begun(q, next, k, c) THEN 1 - reg.mux ELSE reg.mux
        /\ NextRead(k, c) = IF Begun("100", reg.chip, k, c) THEN 1 - reg.mux ELSE reg.mux
    BY <1>1 DEF NextRead
  <2> QED
    BY <2>1, <2>2, <2>3
<1>4. ASSUME NEW k \in Kind, NEW c \in Chip, ~(k = "pressure" /\ c = reg.chip)
      PROVE  InTime(k, c)' /\ Converts(k, c)'
  <2>1. InTime(k, c) /\ Converts(k, c)
    BY DEF ChipsInv
  <2>2. adc'[k][c] = adc[k][c] /\ (doubt'[k][c] <=> doubt[k][c])
    BY <1>4, StartChipMoves
  <2>3. TimeLeft(k, c)' >= TimeLeft(k, c) - 0 /\ 0 \in Nat
    BY <1>3, <1>4, TimeLeftType
  <2>4. NextRead(k, c)' = NextRead(k, c)
    BY <1>3, <1>4
  <2>5. ~BetweenReadAndStart(k, c)
    BY <1>4 DEF BetweenReadAndStart
  <2> QED
    BY <2>1, <2>2, <2>3, <2>4, <2>5, ConvertsOn
<1>5. ASSUME NEW k \in Kind, NEW c \in Chip, k = "pressure", c = reg.chip
      PROVE  InTime(k, c)' /\ Converts(k, c)'
  <2>1. TimeLeft(k, c) = 0
    <3>1. ~Begun("100", c, k, c)
      BY <1>5 DEF Begun, Outside, Chip
    <3>2. TimeLeft(k, c) = Left("100", c, LastBlock, k, c)
      BY <1>1, <1>5 DEF TimeLeft
    <3> QED
      BY <1>5, <3>1, <3>2 DEF Left
  <2>2. adc[k][c].input = None
    BY <2>1 DEF ChipsInv, InTime
  <2>3. TimeLeft(k, c)' = Millisecond /\ NextRead(k, c)' = 1 - reg.mux
    BY <1>3, <1>5
  <2>4. \/ adc'[k][c].input = 1 - reg.mux /\ adc'[k][c].remaining = PressureTime
        \/ doubt'[k][c] /\ adc'[k][c].input = None
    BY <1>5, <2>2, StartChipMoves
  <2>5. PressureTime \in 1 .. Millisecond
    BY TimingAssumption
  <2> QED
    BY <2>3, <2>4, <2>5 DEF InTime, Converts
<1>6. Pointed'
  BY <1>1 DEF Pointed
<1> QED
  BY <1>4, <1>5, <1>6 DEF ChipsInv

(* The other half begins when the last block is over.                      *)
LEMMA ChipsEnd ==
  ASSUME TypeOK, Places, ChipsInv, [Next]_vars, EndDelay
  PROVE  ChipsInv'
<1>a. adc' = adc /\ doubt' = doubt
  BY Zenon DEF EndDelay, chips
<1>1. /\ pc \in Outside /\ pc' = "98" /\ reg.chip = 0 /\ reg'.chip = 0
      /\ reg'.mux = 1 - reg.mux /\ reg.mux \in {0, 1}
  BY EndMoves, RegType DEF Outside, Mux
<1>2. LastBlock = 0
  <2>1. delay = 1 /\ flag
    BY EndMoves
  <2> QED
    BY <2>1 DEF LastBlock
<1>3. ASSUME NEW k \in Kind, NEW c \in Chip
      PROVE  InTime(k, c)' /\ Converts(k, c)'
  <2>1. InTime(k, c) /\ Converts(k, c)
    BY DEF ChipsInv
  <2>2. LastBlock' \in 0 .. Millisecond /\ TimeLeft(k, c) \in Int
    BY TimeLeftType
  <2> DEFINE p == pc
             block == LastBlock'
  <2>3. /\ Begun(p, 0, k, c) /\ ~Begun("98", 0, k, c)
        /\ Left("98", 0, block, k, c) = Left(p, 0, 0, k, c)
    <3>1. p \in Outside /\ block \in 0 .. Millisecond
      BY <1>1, <2>2
    <3> HIDE DEF p, block
    <3> QED
      BY <3>1, LeftEnd
  <2>4. /\ TimeLeft(k, c)' = Left("98", 0, block, k, c)
        /\ TimeLeft(k, c) = Left(p, 0, 0, k, c)
    BY <1>1, <1>2 DEF TimeLeft
  <2>5. TimeLeft(k, c)' >= TimeLeft(k, c) - 0 /\ 0 \in Nat
    BY <2>2, <2>3, <2>4
  <2>6. NextRead(k, c)' = 1 - reg.mux /\ NextRead(k, c) = 1 - reg.mux
    BY <1>1, <2>3 DEF NextRead
  <2>7. ~BetweenReadAndStart(k, c)
    BY <1>1 DEF BetweenReadAndStart, Outside
  <2> QED
    BY <1>a, <2>1, <2>5, <2>6, <2>7, ConvertsOn
<1>4. Pointed'
  BY <1>1 DEF Pointed
<1> QED
  BY <1>3, <1>4 DEF ChipsInv

LEMMA ChipsOthers ==
  ASSUME TypeOK, Places, ChipsInv, [Next]_vars,
         Others \/ BeginDelay \/ NextBlock \/ UNCHANGED vars
  PROVE  ChipsInv'
<1>1. UNCHANGED <<pc, reg>>
  BY OthersStay, BeginMoves, NextBlockMoves
<1>2. doubt' = doubt
  BY Zenon DEF Others, Tick, GetMsec, SetTypes, CellConverts, BeginDelay, NextBlock, chips, vars
<1>3. systick \in 1 .. Millisecond /\ LastBlock \in 0 .. Millisecond
  BY ClockType DEF LastBlock
<1>4. CASE Tick
  <2>1. adc' = Converted(1, adc) /\ delay' = delay /\ Count(1)
    BY <1>4, Zenon DEF Tick
  <2>2. LastBlock' >= LastBlock - 1
    <3>1. \/ 1 >= systick /\ flag'
          \/ 1 < systick /\ systick' = systick - 1 /\ (flag' <=> flag)
      <4>1. 1 \in 1 .. Millisecond
        OBVIOUS
      <4> QED
        BY <2>1, <4>1, CountMoves
    <3>2. CASE delay = 1
      <4>1. (flag => LastBlock = 0) /\ (~flag => LastBlock = systick)
        BY <3>2 DEF LastBlock
      <4>2. (flag' => LastBlock' = 0) /\ (~flag' => LastBlock' = systick')
        BY <2>1, <3>2 DEF LastBlock
      <4>3. CASE flag'
        BY <1>3, <3>1, <4>1, <4>2, <4>3
      <4>4. CASE ~flag'
        BY <1>3, <3>1, <4>1, <4>2, <4>4
      <4> QED
        BY <4>3, <4>4
    <3>3. CASE delay # 1
      <4>1. LastBlock = Millisecond /\ LastBlock' = Millisecond
        BY <2>1, <3>3 DEF LastBlock
      <4> QED
        BY <4>1
    <3> QED
      BY <3>2, <3>3
  <2> QED
    BY <1>1, <1>2, <2>1, <2>2, ChipsStill
<1>5. ASSUME Restart PROVE LastBlock' = Millisecond
  <2>1. systick' = Millisecond /\ ~flag'
    BY <1>5, Zenon DEF Restart
  <2> QED
    BY <2>1 DEF LastBlock
<1>6. CASE GetMsec \/ BeginDelay \/ NextBlock
  <2>1. adc' = adc /\ Restart
    BY <1>6, Zenon DEF GetMsec, BeginDelay, NextBlock, chips
  <2>2. LastBlock' >= LastBlock
    BY <1>3, <1>5, <2>1
  <2> QED
    BY <1>1, <1>2, <2>1, <2>2, ChipsStill
<1>7. CASE (\E k \in Kind, t \in Type : SetTypes(k, t)) \/ CellConverts \/ UNCHANGED vars
  <2>1. UNCHANGED <<adc, delay, flag, systick>>
    BY <1>7, Zenon DEF SetTypes, CellConverts, chips, clock, vars
  <2>2. LastBlock' = LastBlock
    BY <2>1 DEF LastBlock
  <2>3. LastBlock' >= LastBlock
    BY <1>3, <2>2
  <2> QED
    BY <1>1, <1>2, <2>1, <2>3, ChipsStill
<1> QED
  BY <1>4, <1>6, <1>7 DEF Others

LEMMA InitChips == Init => ChipsInv
<1> SUFFICES ASSUME Init PROVE ChipsInv
  OBVIOUS
<1>1. pc = "98"
  BY DEF Init
<1>2. ASSUME NEW k \in Kind, NEW c \in Chip PROVE adc[k][c].input = None /\ doubt[k][c]
  <2>1. adc[k][c].input = None
    BY DEF Init
  <2>2. doubt[k][c] = TRUE
    BY DEF Init
  <2> QED
    BY <2>1, <2>2
<1> QED
  BY <1>1, <1>2 DEF ChipsInv, InTime, Converts, Pointed

LEMMA ChipsStep == TypeOK /\ Places /\ ChipsInv /\ [Next]_vars => ChipsInv'
<1> SUFFICES ASSUME TypeOK, Places, ChipsInv, [Next]_vars PROVE ChipsInv'
  OBVIOUS
<1>1. CASE ReadTemperature
  BY <1>1, ChipsTransfer
<1> QED
  BY <1>1, ChipsWithin, ChipsStart, ChipsEnd, ChipsOthers, NextCases

-----------------------------------------------------------------------------
(* The readings.                                                           *)

(* What main reads is what it means to read.                               *)
LEMMA ReadNow ==
  ASSUME TypeOK, ChipsInv, NEW k \in Kind,
         \/ k = "temperature" /\ pc = "98"
         \/ k = "pressure" /\ pc = "133"
  PROVE  \/ doubt[k][reg.chip]
         \/ adc[k][reg.chip].result.mux = reg.mux /\ adc[k][reg.chip].result.fresh
<1> DEFINE c == reg.chip
<1>1. c \in Chip
  BY RegType
<1>2. ~Begun(pc, c, k, c) /\ (k = "temperature" => Transfers(pc, c, c) = 0)
  BY <1>1 DEF Begun, Transfers, Outside, Chip
<1>3. TimeLeft(k, c) = 0
  BY <1>2 DEF TimeLeft, Left
<1>4. NextRead(k, c) = reg.mux
  BY <1>2 DEF NextRead
<1>5. ~BetweenReadAndStart(k, c)
  BY DEF BetweenReadAndStart
<1>6. InTime(k, c) /\ Converts(k, c)
  BY <1>1 DEF ChipsInv
<1>7. adc[k][c].input = None
  BY <1>3, <1>6 DEF InTime
<1>8. reg.mux # None
  BY RegType DEF Mux, None
<1> QED
  BY <1>4, <1>5, <1>6, <1>7, <1>8 DEF Converts

Held == {"98 low", "98 high", "99 low", "99 high"}

LEMMA ReadingStored ==
  ASSUME TypeOK, ReadingInv, NEW k \in Kind, pc \in Held,
         \/ StoreLow(k) /\ pc' \in {"98 high", "99 high"}
         \/ StoreHigh(k) /\ pc' \notin Held
  PROVE  ReadingInv'
<1>1. OwnReading(reg.reading, reg.mux)
  BY DEF ReadingInv, Held
<1>2. \A j \in Kind, c \in Chip, m \in Mux :
        /\ OwnReading(table[j][c][m].lo.from, m)
        /\ OwnReading(table[j][c][m].hi.from, m)
  BY DEF ReadingInv
<1>3. CASE StoreLow(k) /\ pc' \in {"98 high", "99 high"}
  <2>1. /\ table'[k][reg.chip][reg.mux].lo = [from |-> reg.reading, type |-> types[k]]
        /\ \A j \in Kind, d \in Chip, i \in Mux :
             /\ ~(j = k /\ d = reg.chip /\ i = reg.mux) =>
                  table'[j][d][i].lo = table[j][d][i].lo
             /\ table'[j][d][i].hi = table[j][d][i].hi
        /\ reg'.reading = reg.reading /\ reg'.mux = reg.mux
    BY <1>3, StoreLowMoves, Zenon
  <2>2. table'[k][reg.chip][reg.mux].lo.from = reg.reading
    <3> DEFINE w == [from |-> reg.reading, type |-> types[k]]
    <3>1. w.from = reg.reading
      OBVIOUS
    <3> HIDE DEF w
    <3>2. table'[k][reg.chip][reg.mux].lo = w
      BY <2>1, Zenon DEF w
    <3> QED
      BY <3>1, <3>2
  <2>3. ASSUME NEW j \in Kind, NEW c \in Chip, NEW m \in Mux
        PROVE  /\ OwnReading(table'[j][c][m].lo.from, m)
               /\ OwnReading(table'[j][c][m].hi.from, m)
    <3>1. CASE j = k /\ c = reg.chip /\ m = reg.mux
      <4>1. OwnReading(table'[j][c][m].lo.from, m)
        BY <1>1, <2>2, <3>1
      <4>2. table'[j][c][m].hi = table[j][c][m].hi
        BY <2>1, Zenon
      <4> QED
        BY <1>2, <4>1, <4>2
    <3>2. CASE ~(j = k /\ c = reg.chip /\ m = reg.mux)
      BY <1>2, <2>1, <3>2
    <3> QED
      BY <3>1, <3>2
  <2> QED
    BY <1>1, <2>1, <2>3 DEF ReadingInv
<1>4. CASE StoreHigh(k) /\ pc' \notin Held
  <2>1. /\ table'[k][reg.chip][reg.mux].hi = [from |-> reg.reading, type |-> reg.type]
        /\ \A j \in Kind, d \in Chip, i \in Mux :
             /\ ~(j = k /\ d = reg.chip /\ i = reg.mux) =>
                  table'[j][d][i].hi = table[j][d][i].hi
             /\ table'[j][d][i].lo = table[j][d][i].lo
    BY <1>4, StoreHighMoves, Zenon
  <2>2. table'[k][reg.chip][reg.mux].hi.from = reg.reading
    <3> DEFINE w == [from |-> reg.reading, type |-> reg.type]
    <3>1. w.from = reg.reading
      OBVIOUS
    <3> HIDE DEF w
    <3>2. table'[k][reg.chip][reg.mux].hi = w
      BY <2>1, Zenon DEF w
    <3> QED
      BY <3>1, <3>2
  <2>3. ASSUME NEW j \in Kind, NEW c \in Chip, NEW m \in Mux
        PROVE  /\ OwnReading(table'[j][c][m].lo.from, m)
               /\ OwnReading(table'[j][c][m].hi.from, m)
    <3>1. CASE j = k /\ c = reg.chip /\ m = reg.mux
      <4>1. OwnReading(table'[j][c][m].hi.from, m)
        BY <1>1, <2>2, <3>1
      <4>2. table'[j][c][m].lo = table[j][c][m].lo
        BY <2>1, Zenon
      <4> QED
        BY <1>2, <4>1, <4>2
    <3>2. CASE ~(j = k /\ c = reg.chip /\ m = reg.mux)
      BY <1>2, <2>1, <3>2
    <3> QED
      BY <3>1, <3>2
  <2> QED
    BY <1>4, <2>3 DEF ReadingInv, Held
<1> QED
  BY <1>3, <1>4

LEMMA ReadingStep ==
  TypeOK /\ Places /\ ChipsInv /\ ReadingInv /\ [Next]_vars => ReadingInv'
<1> SUFFICES ASSUME TypeOK, Places, ChipsInv, ReadingInv, [Next]_vars PROVE ReadingInv'
  OBVIOUS
<1>0. "temperature" \in Kind /\ "pressure" \in Kind /\ reg.chip \in Chip
  BY RegType DEF Kind
<1>1. CASE StoreTemperature \/ StorePressure
  <2>1. PICK k \in Kind : /\ pc \in Held
                          /\ \/ StoreLow(k) /\ pc' \in {"98 high", "99 high"}
                             \/ StoreHigh(k) /\ pc' \notin Held
    BY <1>0, <1>1 DEF StoreTemperature, StorePressure, From, To, Held
  <2> QED
    BY <2>1, ReadingStored
<1>2. CASE ~StoreTemperature /\ ~StorePressure
  <2>1. table' = table
    BY <1>2, TableStays
  <2>2. pc' \in Held => OwnReading(reg'.reading, reg'.mux)
    <3>1. CASE ReadTemperature
      <4>1. pc = "98" /\ reg'.mux = reg.mux
        BY <3>1, WithinMoves DEF ReadTemperature, From, Within
      <4>2. \/ doubt["temperature"][reg.chip]
            \/ /\ adc["temperature"][reg.chip].result.mux = reg.mux
               /\ adc["temperature"][reg.chip].result.fresh
        BY <1>0, <4>1, ReadNow
      <4> QED
        BY <3>1, <4>1, <4>2, TransferMoves DEF OwnReading
    <3>2. CASE ReadPressure
      <4>1. pc = "133" /\ reg'.mux = reg.mux
        BY <3>2, WithinMoves DEF ReadPressure, From, Within
      <4>2. \/ doubt["pressure"][reg.chip]
            \/ /\ adc["pressure"][reg.chip].result.mux = reg.mux
               /\ adc["pressure"][reg.chip].result.fresh
        BY <1>0, <4>1, ReadNow
      <4>3. doubt["pressure"][reg.chip] \/ adc["pressure"][reg.chip].pointer = "conversion"
        BY <4>1 DEF ChipsInv, Pointed
      <4> QED
        BY <3>2, <4>1, <4>2, <4>3, ReadMoves DEF OwnReading
    <3>3. CASE PointToResult \/ ReadCell \/ PushServos
      BY <3>3 DEF PointToResult, ReadCell, PushServos, To, Held
    <3>4. CASE StartPressure \/ EndDelay
      BY <3>4, StartMoves, EndMoves DEF Held
    <3>5. CASE BeginDelay \/ NextBlock \/ Others \/ UNCHANGED vars
      <4>1. pc' = pc /\ reg' = reg
        BY <3>5, BeginMoves, NextBlockMoves, OthersStay
      <4> QED
        BY <4>1 DEF ReadingInv, Held
    <3> QED
      BY <1>2, <3>1, <3>2, <3>3, <3>4, <3>5, NextCases DEF Within
  <2> QED
    BY <2>1, <2>2 DEF ReadingInv, Held
<1> QED
  BY <1>1, <1>2

LEMMA InitReading == Init => ReadingInv
<1> SUFFICES ASSUME Init PROVE ReadingInv
  OBVIOUS
<1>1. pc = "98"
  BY DEF Init
<1>2. \A k \in Kind, c \in Chip, m \in Mux :
        table[k][c][m].lo.from = NoReading /\ table[k][c][m].hi.from = NoReading
  BY DEF Init
<1>3. NoReading.doubt
  BY DEF NoReading
<1> QED
  BY <1>1, <1>2, <1>3 DEF ReadingInv, OwnReading

(* Every value in the tables was measured on the channel it is stored for, *)
(* and since the value before it, or depends on a transfer that failed:    *)
(* for any number of chips, any times of conversion TimingAssumption       *)
(* allows, and any commands that restart the counter (devices.c:95-112).   *)
THEOREM ReadingsAreOwn == Spec => []OwnReadings
<1>1. ReadingInv => OwnReadings
  <2> SUFFICES ASSUME ReadingInv, NEW e \in Entries, NEW word \in {Entry(e).lo, Entry(e).hi}
               PROVE  word.from.doubt \/ Own(word, e)
    BY DEF OwnReadings
  <2>1. e[1] \in Kind /\ e[2] \in Chip /\ e[3] \in Mux
    BY DEF Entries
  <2>2. word = table[e[1]][e[2]][e[3]].lo \/ word = table[e[1]][e[2]][e[3]].hi
    BY DEF Entry
  <2>3. OwnReading(word.from, e[3])
    BY <2>1, <2>2 DEF ReadingInv
  <2> QED
    BY <2>3 DEF OwnReading, Own
<1> QED
  BY <1>1, InitType, TypeStep, InitPlaces, PlacesStep, InitChips, ChipsStep, InitReading,
     ReadingStep, PTL DEF Spec
-----------------------------------------------------------------------------
(* How a fault and a type that is set go away.  Main stores the value of a *)
(* chip at each of its two inputs once in a turn.                          *)
Stored(p, chip, k, c) ==
  \/ p \in Outside \/ c < chip
  \/ c = chip /\ (p = "100" \/ (k = "temperature" /\ p \in {"131", "133", "99 low", "99 high"}))

(* It has stored the value of chip c at input m in this turn.              *)
Renewed(k, c, m) == m < reg.mux \/ (m = reg.mux /\ Stored(pc, reg.chip, k, c))

(* Since the end of the first half of the turn after a fault nothing of it *)
(* is left in the chips: each has been started again.                      *)
Clean == past.quiet >= 2 \/ (past.quiet = 1 /\ reg.mux = 1)

ChipsHealed == \A k \in Kind, c \in Chip :
  past.quiet >= 1 /\ (Clean \/ Begun(pc, reg.chip, k, c)) => ~doubt[k][c]

(* What is read, and stored, from then on does not depend on it.           *)
ReadingHealed == Clean /\ pc \in Held => ~reg.reading.doubt

TableHealed == \A k \in Kind, c \in Chip, m \in Mux :
  /\ past.quiet >= 2 /\ (m = 1 \/ Renewed(k, c, m)) => ~table[k][c][m].hi.from.doubt
  /\ past.quiet = 1 /\ m = 1 /\ Renewed(k, c, m) => ~table[k][c][m].hi.from.doubt

HealInv == ChipsHealed /\ ReadingHealed /\ TableHealed

(* What has been stored in this turn is of the types that are set.         *)
TypesInv == ~past.retyped =>
  /\ pc = "98 high" => reg.type = types["temperature"]
  /\ pc = "99 high" => reg.type = types["pressure"]
  /\ \A k \in Kind, c \in Chip, m \in Mux :
       Renewed(k, c, m) => table[k][c][m].hi.type = types[k]

(* A turn without a fault counts; a fault starts anew.                     *)
LEMMA QuietMoves ==
  ASSUME TypeOK, [Next]_vars, ~EndDelay
  PROVE  /\ past'.quiet = 0 \/ past'.quiet = past.quiet
         /\ ~past'.retyped => ~past.retyped /\ types' = types
<1>1. past \in Past /\ TypeOK
  BY DEF TypeOK
<1>2. ASSUME NEW n \in 1 .. Millisecond, Count(n)
      PROVE  past'.quiet = past.quiet /\ past'.retyped = past.retyped
  BY <1>1, <1>2, CountType
<1>3. ASSUME Succeeds \/ Fails
      PROVE  (past'.quiet = 0 \/ past'.quiet = past.quiet) /\ past'.retyped = past.retyped
  BY <1>1, <1>3 DEF Succeeds, Fails, Past
<1>4. SpiTime \in 1 .. Millisecond /\ 1 \in 1 .. Millisecond
  OBVIOUS
<1>5. CASE ReadTemperature \/ Tick
  <2>1. types' = types /\ (Count(SpiTime) \/ Count(1))
    BY <1>5, Zenon DEF ReadTemperature, Tick, data
  <2> QED
    BY <1>2, <1>4, <2>1
<1>6. CASE PointToResult \/ ReadPressure \/ StartPressure
  <2>1. types' = types /\ (Succeeds \/ Fails)
    BY <1>6, Zenon DEF PointToResult, ReadPressure, StartPressure, data
  <2> QED
    BY <1>3, <2>1
<1>7. CASE StoreTemperature \/ StorePressure \/ ReadCell \/ PushServos
  <2>1. types' = types /\ past' = past
    BY <1>7, Zenon DEF StoreTemperature, StorePressure, StoreLow, StoreHigh, ReadCell,
                       PushServos, data
  <2> QED
    BY <2>1
<1>8. CASE BeginDelay \/ NextBlock \/ GetMsec \/ CellConverts \/ UNCHANGED vars
  <2>1. types' = types /\ past' = past
    BY <1>8, Zenon DEF BeginDelay, NextBlock, GetMsec, CellConverts, vars, data
  <2> QED
    BY <2>1
<1>9. ASSUME NEW k \in Kind, NEW t \in Type, SetTypes(k, t)
      PROVE  past'.quiet = past.quiet /\ past'.retyped
  BY <1>1, <1>9 DEF SetTypes, Past
<1> QED
  BY <1>5, <1>6, <1>7, <1>8, <1>9, Zenon DEF Next, Main

(* Where no transfer fails, a chip is in doubt until it is started.        *)
LEMMA DoubtMoves ==
  ASSUME TypeOK, [Next]_vars, ~EndDelay, past'.quiet # 0, NEW k \in Kind, NEW c \in Chip
  PROVE  doubt'[k][c] =>
           /\ doubt[k][c]
           /\ ~(ReadTemperature /\ k = "temperature" /\ c = reg.chip)
           /\ ~(StartPressure /\ k = "pressure" /\ c = reg.chip)
<1>1. /\ doubt \in Doubts /\ reg.chip \in Chip /\ "pressure" \in Kind /\ "temperature" \in Kind
      /\ past \in Past
  BY RegType DEF TypeOK, Kind, Doubts
<1>2. ~Fails
  BY <1>1 DEF Fails, Past
<1>3. ASSUME NEW j \in Kind, doubt' = Put(doubt, j, reg.chip, FALSE)
      PROVE  doubt'[k][c] => doubt[k][c] /\ ~(k = j /\ c = reg.chip)
  <2> DEFINE f == Put(doubt, j, reg.chip, FALSE)
  <2>1. /\ ~f[j][reg.chip]
        /\ \A i \in Kind, d \in Chip :
             ~(i = j /\ d = reg.chip) => (f[i][d] <=> doubt[i][d])
    BY <1>1, PutFalse
  <2>2. doubt'[k][c] <=> f[k][c]
    BY <1>3, Zenon
  <2> HIDE DEF f
  <2> QED
    BY <2>1, <2>2, Zenon
<1>4. CASE ReadTemperature
  <2>1. doubt' = Put(doubt, "temperature", reg.chip, FALSE) /\ pc = "98"
    BY <1>4, Zenon DEF ReadTemperature, Put, From
  <2>2. ~StartPressure
    BY <2>1 DEF StartPressure, From
  <2> QED
    BY <1>1, <1>3, <2>1, <2>2
<1>5. CASE StartPressure
  <2>1. doubt' = Put(doubt, "pressure", reg.chip, FALSE) /\ pc = "100"
    BY <1>2, <1>5, Zenon DEF StartPressure, Put, From
  <2>2. ~ReadTemperature
    BY <2>1 DEF ReadTemperature, From
  <2> QED
    BY <1>1, <1>3, <2>1, <2>2
<1>6. CASE ~ReadTemperature /\ ~StartPressure
  <2>1. doubt' = doubt
    <3>1. CASE PointToResult \/ ReadPressure
      BY <1>2, <3>1, Zenon DEF PointToResult, ReadPressure
    <3>2. CASE StoreTemperature \/ StorePressure \/ ReadCell \/ PushServos
      BY <3>2, Zenon DEF StoreTemperature, StorePressure, StoreLow, StoreHigh, ReadCell,
                         PushServos, chips
    <3>3. CASE BeginDelay \/ NextBlock
      BY <3>3, Zenon DEF BeginDelay, NextBlock, chips
    <3>4. CASE Others \/ UNCHANGED vars
      BY <3>4, Zenon DEF Others, Tick, GetMsec, SetTypes, CellConverts, chips, vars
    <3> QED
      BY <1>6, <3>1, <3>2, <3>3, <3>4, NextCases DEF Within
  <2> QED
    BY <1>6, <2>1
<1> QED
  BY <1>4, <1>5, <1>6

(* What is started, and stored, in a step.                                 *)
LEMMA BegunMoves ==
  ASSUME TypeOK, Places, [Next]_vars, ~EndDelay, NEW k \in Kind, NEW c \in Chip,
         Begun(pc, reg.chip, k, c)'
  PROVE  \/ Begun(pc, reg.chip, k, c)
         \/ ReadTemperature /\ k = "temperature" /\ c = reg.chip
         \/ StartPressure /\ k = "pressure" /\ c = reg.chip
<1>1. CASE Within
  <2>1. <<pc, pc'>> \in Steps /\ reg'.chip = reg.chip /\ reg.chip \in Chip
    BY <1>1, WithinMoves, RegType
  <2>2. pc = "98" => ReadTemperature
    BY <1>1 DEF Within, StoreTemperature, PointToResult, ReadPressure, StorePressure,
                ReadCell, PushServos, From
  <2> QED
    BY <2>1, <2>2 DEF Begun, Steps, Outside
<1>2. CASE StartPressure
  BY <1>2, StartMoves, RegType DEF Begun, Outside, Chip, Kind
<1>3. CASE BeginDelay \/ NextBlock \/ Others \/ UNCHANGED vars
  <2>1. pc' = pc /\ reg' = reg
    BY <1>3, BeginMoves, NextBlockMoves, OthersStay
  <2> QED
    BY <2>1 DEF Begun
<1> QED
  BY <1>1, <1>2, <1>3, NextCases

Stores(k) == StoreHigh(k) /\ pc = (IF k = "temperature" THEN "98 high" ELSE "99 high")

LEMMA RenewedMoves ==
  ASSUME TypeOK, Places, [Next]_vars, ~EndDelay, NEW k \in Kind, NEW c \in Chip,
         NEW m \in Mux, Renewed(k, c, m)'
  PROVE  Renewed(k, c, m) \/ (Stores(k) /\ c = reg.chip /\ m = reg.mux)
<1>1. CASE Within
  <2>1. /\ <<pc, pc'>> \in Steps /\ reg'.chip = reg.chip /\ reg'.mux = reg.mux
        /\ reg.chip \in Chip
    BY <1>1, WithinMoves, RegType
  <2>2. /\ pc = "98 high" => Stores("temperature")
        /\ pc = "99 high" => Stores("pressure")
    BY <1>1 DEF Within, ReadTemperature, StoreTemperature, PointToResult, ReadPressure,
                StorePressure, ReadCell, PushServos, From, Stores
  <2>3. CASE Stored(pc, reg.chip, k, c)' => Stored(pc, reg.chip, k, c)
    BY <2>1, <2>3 DEF Renewed
  <2>4. CASE Stored(pc, reg.chip, k, c)' /\ ~Stored(pc, reg.chip, k, c)
    <3>1. /\ c = reg.chip
          /\ \/ pc = "98 high" /\ k = "temperature"
             \/ pc = "99 high" /\ k = "pressure"
      BY <2>1, <2>4 DEF Stored, Steps, Outside, Kind
    <3> QED
      BY <2>1, <2>2, <3>1 DEF Renewed
  <2> QED
    BY <2>3, <2>4
<1>2. CASE StartPressure
  <2>1. /\ pc = "100" /\ reg'.mux = reg.mux
        /\ c \in 0 .. NChips - 1 /\ reg.chip \in 0 .. NChips - 1
    BY <1>2, StartMoves, RegType DEF Chip
  <2>2. Stored(pc, reg.chip, k, c) <=> c < reg.chip \/ c = reg.chip
    BY <2>1 DEF Stored, Outside
  <2>3. CASE reg.chip + 1 < NChips /\ pc' = "98" /\ reg'.chip = reg.chip + 1
    <3>1. Stored(pc, reg.chip, k, c)' => c < reg.chip + 1
      BY <2>3 DEF Stored, Outside
    <3> QED
      BY <2>1, <2>2, <3>1 DEF Renewed
  <2>4. CASE reg.chip + 1 = NChips
    <3>1. c < reg.chip \/ c = reg.chip
      BY <2>1, <2>4
    <3> QED
      BY <2>1, <2>2, <3>1 DEF Renewed
  <2> QED
    BY <1>2, <2>3, <2>4, StartMoves
<1>3. CASE BeginDelay \/ NextBlock \/ Others \/ UNCHANGED vars
  <2>1. pc' = pc /\ reg' = reg
    BY <1>3, BeginMoves, NextBlockMoves, OthersStay
  <2> QED
    BY <2>1 DEF Renewed, Stored
<1> QED
  BY <1>1, <1>2, <1>3, NextCases

(* Only StoreHigh changes the second word of a value.                      *)
LEMMA HighMoves ==
  ASSUME TypeOK, Places, [Next]_vars, NEW k \in Kind, NEW c \in Chip, NEW m \in Mux
  PROVE  \/ table'[k][c][m].hi = table[k][c][m].hi
         \/ /\ Stores(k) /\ c = reg.chip /\ m = reg.mux
            /\ table'[k][c][m].hi = [from |-> reg.reading, type |-> reg.type]
<1>0. "temperature" \in Kind /\ "pressure" \in Kind
  BY DEF Kind
<1>1. CASE StoreTemperature \/ StorePressure
  <2>1. PICK j \in Kind : StoreLow(j) \/ Stores(j)
    BY <1>0, <1>1 DEF StoreTemperature, StorePressure, Stores, From
  <2>2. CASE StoreLow(j)
    BY <2>2, StoreLowMoves
  <2>3. CASE Stores(j)
    <3>1. StoreHigh(j)
      BY <2>3 DEF Stores
    <3>2. CASE k = j /\ c = reg.chip /\ m = reg.mux
      <4>1. table'[j][reg.chip][reg.mux].hi = [from |-> reg.reading, type |-> reg.type]
        BY <3>1, StoreHighMoves, Zenon
      <4> QED
        BY <2>3, <3>2, <4>1, Zenon
    <3>3. CASE ~(k = j /\ c = reg.chip /\ m = reg.mux)
      BY <3>1, <3>3, StoreHighMoves
    <3> QED
      BY <3>2, <3>3
  <2> QED
    BY <2>1, <2>2, <2>3
<1>2. CASE ~StoreTemperature /\ ~StorePressure
  BY <1>2, TableStays
<1> QED
  BY <1>1, <1>2

(* What is read of a chip that is not in doubt is not either.              *)
LEMMA ReadUndoubted ==
  ASSUME TypeOK, ReadPressure, past'.quiet # 0
  PROVE  reg'.reading.doubt => doubt["pressure"][reg.chip]
<1> DEFINE a == adc["pressure"][reg.chip]
           was == doubt["pressure"][reg.chip]
           read == IF a.pointer = "conversion" THEN a.result ELSE NoReading
           r == [read EXCEPT !.doubt = was]
<1>1. ~Fails
  BY DEF TypeOK, Fails, Past
<1>2. reg' = [reg EXCEPT !.reading = r]
  BY <1>1, Zenon DEF ReadPressure
<1>3. read \in Reading /\ was \in BOOLEAN
  <2>1. a \in Adc /\ was \in BOOLEAN
    BY RegType DEF TypeOK, Kind
  <2> QED
    BY <2>1, NoReadingType DEF Adc
<1> HIDE DEF read, was
<1>4. r.doubt <=> was
  BY <1>3, DoubtReading
<1>5. reg'.reading = r
  <2> HIDE DEF r
  <2> QED
    BY <1>2, RegType DEF Registers
<1> QED
  BY <1>4, <1>5, Zenon DEF was

(* The end of a half of a turn: the second one ends the turn.              *)
LEMMA TurnEnds ==
  ASSUME TypeOK, EndDelay
  PROVE  /\ UNCHANGED <<chips, data>>
         /\ IF pc = "103" THEN past'.quiet = past.quiet /\ (past'.retyped <=> past.retyped)
            ELSE past'.quiet = AtMost(past.quiet + 1, 2) /\ ~past'.retyped
<1>1. UNCHANGED <<chips, data>>
  BY Zenon DEF EndDelay
<1>2. past \in Past
  BY DEF TypeOK
<1>3. past' = IF pc = "103" THEN [past EXCEPT !.slept = 0]
              ELSE [past EXCEPT !.slept = 0, !.ticks = 0, !.quiet = AtMost(past.quiet + 1, 2),
                      !.retyped = FALSE]
  BY DEF EndDelay
<1>4. CASE pc = "103"
  <2>1. past' = [past EXCEPT !.slept = 0]
    BY <1>3, <1>4
  <2>2. past'.quiet = past.quiet /\ (past'.retyped <=> past.retyped)
    BY <1>2, <2>1 DEF Past
  <2> QED
    BY <1>1, <1>4, <2>2, Zenon
<1>5. CASE pc # "103"
  <2> DEFINE q == AtMost(past.quiet + 1, 2)
  <2> HIDE DEF q
  <2>1. past' = [past EXCEPT !.slept = 0, !.ticks = 0, !.quiet = q, !.retyped = FALSE]
    BY <1>3, <1>5 DEF q
  <2>2. past'.quiet = q /\ ~past'.retyped
    BY <1>2, <2>1 DEF Past
  <2> QED
    BY <1>1, <1>5, <2>2, Zenon DEF q
<1> QED
  BY <1>4, <1>5

LEMMA HealEnds == TypeOK /\ Places /\ HealInv /\ EndDelay => HealInv'
<1> SUFFICES ASSUME TypeOK, Places, HealInv, EndDelay PROVE HealInv'
  OBVIOUS
<1>1. /\ pc \in {"103", "37"} /\ pc' = "98" /\ reg'.chip = 0 /\ reg'.mux = 1 - reg.mux
      /\ reg.mux = (IF pc = "103" THEN 0 ELSE 1)
  BY EndMoves
<1>2. /\ doubt' = doubt /\ table' = table
      /\ IF pc = "103" THEN past'.quiet = past.quiet
         ELSE past'.quiet = AtMost(past.quiet + 1, 2)
  BY TurnEnds DEF chips, data
<1>3. past.quiet \in 0 .. 2
  BY DEF TypeOK, Past
<1>4. past'.quiet = IF pc = "103" \/ past.quiet = 2 THEN past.quiet ELSE past.quiet + 1
  BY <1>1, <1>2, <1>3 DEF AtMost
<1>5. \A k \in Kind, c \in Chip :
        Begun(pc, reg.chip, k, c) /\ Stored(pc, reg.chip, k, c)
  BY <1>1 DEF Begun, Stored, Outside
<1>6. \A k \in Kind, c \in Chip : ~Begun(pc, reg.chip, k, c)' /\ ~Stored(pc, reg.chip, k, c)'
  BY <1>1 DEF Begun, Stored, Outside, Chip
<1>7. ASSUME NEW k \in Kind, NEW c \in Chip, past'.quiet >= 1, Clean'
      PROVE  ~doubt'[k][c]
  <2>1. past.quiet >= 1
    BY <1>1, <1>3, <1>4, <1>7 DEF Clean
  <2> QED
    BY <1>2, <1>5, <2>1 DEF HealInv, ChipsHealed
<1>8. ChipsHealed'
  BY <1>6, <1>7 DEF ChipsHealed
<1>9. ReadingHealed'
  BY <1>1 DEF ReadingHealed, Held
<1>10. ASSUME NEW k \in Kind, NEW c \in Chip, NEW m \in Mux
       PROVE  /\ past'.quiet >= 2 /\ (m = 1 \/ Renewed(k, c, m)') =>
                   ~table'[k][c][m].hi.from.doubt
              /\ past'.quiet = 1 /\ m = 1 /\ Renewed(k, c, m)' =>
                   ~table'[k][c][m].hi.from.doubt
  <2>1. m \in {0, 1} /\ (Renewed(k, c, m)' <=> m < reg'.mux)
    BY <1>6 DEF Renewed, Mux
  <2>2. Renewed(k, c, m) <=> m < reg.mux \/ m = reg.mux
    BY <1>5 DEF Renewed
  <2>3. /\ past.quiet >= 2 /\ (m = 1 \/ Renewed(k, c, m)) =>
             ~table[k][c][m].hi.from.doubt
        /\ past.quiet = 1 /\ m = 1 /\ Renewed(k, c, m) => ~table[k][c][m].hi.from.doubt
    BY DEF HealInv, TableHealed
  <2> QED
    BY <1>1, <1>2, <1>3, <1>4, <2>1, <2>2, <2>3
<1>11. TableHealed'
  BY <1>10 DEF TableHealed
<1> QED
  BY <1>8, <1>9, <1>11 DEF HealInv

LEMMA HealStep == TypeOK /\ Places /\ HealInv /\ [Next]_vars => HealInv'
<1> SUFFICES ASSUME TypeOK, Places, HealInv, [Next]_vars PROVE HealInv'
  OBVIOUS
<1>1. CASE EndDelay
  BY <1>1, HealEnds
<1>2. CASE past'.quiet = 0
  BY <1>2 DEF HealInv, ChipsHealed, ReadingHealed, TableHealed, Clean
<1>3. CASE ~EndDelay /\ past'.quiet # 0
  <2>0. "temperature" \in Kind /\ "pressure" \in Kind /\ reg.chip \in Chip
        /\ past.quiet \in 0 .. 2
    BY RegType DEF Kind, TypeOK, Past
  <2>1. past'.quiet = past.quiet /\ past.quiet \in {1, 2}
    BY <1>3, <2>0, QuietMoves
  <2>2. reg'.mux = reg.mux
    BY <1>3, WithinMoves, StartMoves, BeginMoves, NextBlockMoves, OthersStay, NextCases
  <2>3. Clean' <=> Clean
    BY <2>1, <2>2 DEF Clean
  <2>4. ASSUME NEW k \in Kind, NEW c \in Chip, Clean' \/ Begun(pc, reg.chip, k, c)'
        PROVE  ~doubt'[k][c]
    <3>1. CASE Clean \/ Begun(pc, reg.chip, k, c)
      <4>1. ~doubt[k][c]
        BY <2>1, <3>1 DEF HealInv, ChipsHealed
      <4> QED
        BY <1>3, <4>1, DoubtMoves
    <3>2. CASE \/ ReadTemperature /\ k = "temperature" /\ c = reg.chip
               \/ StartPressure /\ k = "pressure" /\ c = reg.chip
      BY <1>3, <3>2, DoubtMoves
    <3> QED
      BY <1>3, <2>3, <2>4, <3>1, <3>2, BegunMoves
  <2>5. ChipsHealed'
    BY <2>4 DEF ChipsHealed
  <2>6. ASSUME Clean', pc' \in Held
        PROVE  ~reg'.reading.doubt
    <3>a. Clean /\ past.quiet >= 1 /\ ~doubt["temperature"][reg.chip]
          /\ ~doubt["pressure"][reg.chip]
      BY <2>0, <2>1, <2>3, <2>6 DEF HealInv, ChipsHealed
    <3>1. CASE ReadTemperature
      BY <3>1, <3>a, TransferMoves
    <3>2. CASE ReadPressure
      BY <1>3, <3>2, <3>a, ReadUndoubted
    <3>3. CASE StoreTemperature \/ StorePressure
      <4>1. PICK k \in Kind : pc \in Held /\ (StoreLow(k) \/ pc' \notin Held)
        BY <2>0, <3>3 DEF StoreTemperature, StorePressure, From, To, Held
      <4>2. reg'.reading = reg.reading
        BY <2>6, <4>1, StoreLowMoves
      <4> QED
        BY <3>a, <4>1, <4>2 DEF HealInv, ReadingHealed
    <3>4. CASE PointToResult \/ ReadCell \/ PushServos
      BY <2>6, <3>4 DEF PointToResult, ReadCell, PushServos, To, Held
    <3>5. CASE StartPressure
      BY <2>6, <3>5, StartMoves DEF Held
    <3>6. CASE BeginDelay \/ NextBlock \/ Others \/ UNCHANGED vars
      <4>1. pc' = pc /\ reg' = reg
        BY <3>6, BeginMoves, NextBlockMoves, OthersStay
      <4> QED
        BY <2>6, <3>a, <4>1 DEF HealInv, ReadingHealed
    <3> QED
      BY <1>3, <3>1, <3>2, <3>3, <3>4, <3>5, <3>6, NextCases DEF Within
  <2>7. ReadingHealed'
    BY <2>6 DEF ReadingHealed
  <2>8. ASSUME NEW k \in Kind, NEW c \in Chip, NEW m \in Mux,
               \/ past'.quiet >= 2 /\ (m = 1 \/ Renewed(k, c, m)')
               \/ past'.quiet = 1 /\ m = 1 /\ Renewed(k, c, m)'
        PROVE  ~table'[k][c][m].hi.from.doubt
    <3>1. CASE Stores(k) /\ c = reg.chip /\ m = reg.mux
      <4>1. Clean /\ pc \in Held
        BY <2>1, <2>8, <3>1 DEF Clean, Stores, Held
      <4>2. ~reg.reading.doubt
        BY <4>1 DEF HealInv, ReadingHealed
      <4>3. table'[k][c][m].hi = [from |-> reg.reading, type |-> reg.type]
        <5>1. StoreHigh(k)
          BY <3>1 DEF Stores
        <5> QED
          BY <3>1, <5>1, StoreHighMoves, Zenon
      <4> DEFINE w == [from |-> reg.reading, type |-> reg.type]
      <4>4. w.from = reg.reading
        OBVIOUS
      <4> HIDE DEF w
      <4>5. table'[k][c][m].hi = w
        BY <4>3, Zenon DEF w
      <4> QED
        BY <4>2, <4>4, <4>5, Zenon
    <3>2. CASE ~(Stores(k) /\ c = reg.chip /\ m = reg.mux)
      <4>1. table'[k][c][m].hi = table[k][c][m].hi
        BY <3>2, HighMoves
      <4>2. Renewed(k, c, m)' => Renewed(k, c, m)
        BY <1>3, <3>2, RenewedMoves
      <4>3. ~table[k][c][m].hi.from.doubt
        BY <2>1, <2>8, <4>2 DEF HealInv, TableHealed
      <4> QED
        BY <4>1, <4>3
    <3> QED
      BY <3>1, <3>2
  <2>9. TableHealed'
    BY <2>8 DEF TableHealed
  <2> QED
    BY <2>5, <2>7, <2>9 DEF HealInv
<1> QED
  BY <1>1, <1>2, <1>3

LEMMA TypesStep == TypeOK /\ Places /\ TypesInv /\ [Next]_vars => TypesInv'
<1> SUFFICES ASSUME TypeOK, Places, TypesInv, [Next]_vars, ~past'.retyped PROVE TypesInv'
  BY DEF TypesInv
<1>0. "temperature" \in Kind /\ "pressure" \in Kind
  BY DEF Kind
<1>1. CASE EndDelay
  <2>1. /\ pc \in {"103", "37"} /\ pc' = "98" /\ reg'.chip = 0 /\ reg'.mux = 1 - reg.mux
        /\ reg.mux = (IF pc = "103" THEN 0 ELSE 1)
    BY <1>1, EndMoves
  <2>2. types' = types /\ table' = table /\ (pc = "103" => ~past.retyped)
    BY <1>1, TurnEnds DEF data
  <2>3. ASSUME NEW k \in Kind, NEW c \in Chip, NEW m \in Mux, Renewed(k, c, m)'
        PROVE  table'[k][c][m].hi.type = types'[k]
    <3>1. ~Stored(pc, reg.chip, k, c)'
      BY <2>1 DEF Stored, Outside, Chip
    <3>2. m < reg'.mux
      BY <2>3, <3>1 DEF Renewed
    <3>3. pc = "103" /\ m = reg.mux
      BY <2>1, <3>2 DEF Mux
    <3>4. Renewed(k, c, m)
      BY <3>3 DEF Renewed, Stored, Outside
    <3> QED
      BY <2>2, <3>3, <3>4 DEF TypesInv
  <2> QED
    BY <2>1, <2>3 DEF TypesInv
<1>2. CASE ~EndDelay
  <2>1. ~past.retyped /\ types' = types
    BY <1>2, QuietMoves
  <2>2. ASSUME NEW k \in Kind, NEW c \in Chip, NEW m \in Mux, Renewed(k, c, m)'
        PROVE  table'[k][c][m].hi.type = types'[k]
    <3>1. CASE Stores(k) /\ c = reg.chip /\ m = reg.mux
      <4>1. reg.type = types[k]
        BY <2>1, <3>1 DEF TypesInv, Stores, Kind
      <4>2. table'[k][c][m].hi = [from |-> reg.reading, type |-> reg.type]
        <5>1. StoreHigh(k)
          BY <3>1 DEF Stores
        <5> QED
          BY <3>1, <5>1, StoreHighMoves, Zenon
      <4> QED
        BY <2>1, <4>1, <4>2
    <3>2. CASE ~(Stores(k) /\ c = reg.chip /\ m = reg.mux)
      <4>1. table'[k][c][m].hi = table[k][c][m].hi
        BY <3>2, HighMoves
      <4>2. Renewed(k, c, m)
        BY <1>2, <2>2, <3>2, RenewedMoves
      <4> QED
        BY <2>1, <4>1, <4>2 DEF TypesInv
    <3> QED
      BY <3>1, <3>2
  <2>3. /\ pc' = "98 high" => reg'.type = types'["temperature"]
        /\ pc' = "99 high" => reg'.type = types'["pressure"]
    <3>1. CASE StoreTemperature
      <4>1. (StoreLow("temperature") /\ pc' = "98 high") \/ pc' = "131"
        BY <3>1 DEF StoreTemperature, To
      <4> QED
        BY <1>0, <2>1, <4>1, StoreLowMoves
    <3>2. CASE StorePressure
      <4>1. (StoreLow("pressure") /\ pc' = "99 high") \/ pc' = "100"
        BY <3>2 DEF StorePressure, To
      <4> QED
        BY <1>0, <2>1, <4>1, StoreLowMoves
    <3>3. CASE ~StoreTemperature /\ ~StorePressure
      <4>1. pc' \notin {"98 high", "99 high"} \/ (pc' = pc /\ reg' = reg)
        BY <3>3, TableStays
      <4> QED
        BY <2>1, <4>1 DEF TypesInv
    <3> QED
      BY <3>1, <3>2, <3>3
  <2> QED
    BY <2>2, <2>3 DEF TypesInv
<1> QED
  BY <1>1, <1>2

LEMMA InitHeal == Init => HealInv /\ TypesInv
<1> SUFFICES ASSUME Init PROVE HealInv /\ TypesInv
  OBVIOUS
<1>1. past.quiet = 0 /\ pc = "98" /\ reg.chip = 0 /\ reg.mux = 0
  BY DEF Init
<1>2. \A k \in Kind, c \in Chip, m \in Mux : ~Renewed(k, c, m)
  BY <1>1 DEF Renewed, Stored, Outside, Chip, Mux
<1> QED
  BY <1>1, <1>2 DEF HealInv, ChipsHealed, ReadingHealed, TableHealed, Clean, TypesInv

(* Two turns after the last transfer that failed, and after the start, all *)
(* of the tables is measured on its own channel again, and one turn after  *)
(* types are set all of it is of those types: for any number of chips, any *)
(* times TimingAssumption allows, and faults and commands in any number    *)
(* and order (devices.c:95-112, 124-133).                                  *)
THEOREM TablesRecover == Spec => []Recovers
<1>1. TypeOK /\ Places /\ ReadingInv /\ HealInv /\ TypesInv => Recovers
  <2> SUFFICES ASSUME TypeOK, Places, ReadingInv, HealInv, TypesInv, pc = "110", past.quiet >= 2,
                      NEW e \in Entries
               PROVE  Own(Entry(e).hi, e) /\ (past.retyped \/ Entry(e).hi.type = types[e[1]])
    BY DEF Recovers
  <2>1. e[1] \in Kind /\ e[2] \in Chip /\ e[3] \in Mux
    BY DEF Entries
  <2>2. Entry(e) = table[e[1]][e[2]][e[3]]
    BY DEF Entry
  <2> DEFINE k == e[1]
             c == e[2]
             m == e[3]
  <2> HIDE DEF k, c, m
  <2>3. k \in Kind /\ c \in Chip /\ m \in Mux
    BY <2>1 DEF k, c, m
  <2>4. reg.mux = 1 /\ Stored(pc, reg.chip, k, c)
    BY DEF Places, Stored, Outside
  <2>5. Renewed(k, c, m)
    BY <2>3, <2>4 DEF Renewed, Mux
  <2>6. ~table[k][c][m].hi.from.doubt /\ OwnReading(table[k][c][m].hi.from, m)
    BY <2>3, <2>5 DEF HealInv, TableHealed, ReadingInv
  <2>7. past.retyped \/ table[k][c][m].hi.type = types[k]
    BY <2>3, <2>5 DEF TypesInv
  <2> QED
    BY <2>2, <2>6, <2>7 DEF OwnReading, Own, k, c, m
<1> QED
  BY <1>1, InitType, TypeStep, InitPlaces, PlacesStep, InitChips, ChipsStep, InitReading,
     ReadingStep, InitHeal, HealStep, TypesStep, PTL DEF Spec
=============================================================================
