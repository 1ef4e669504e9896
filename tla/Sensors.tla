------------------------------- MODULE Sensors -------------------------------
(***************************************************************************)
(* The pipeline of sensor readings (devices.c:95) and the counter that     *)
(* both paces it and keeps the milliseconds (devices.c:264, delay.h).      *)
(*                                                                         *)
(* Each pressure chip (ADS1015, I2C) and each temperature chip (ADS1118,   *)
(* SPI) converts two channels in turn.  What main reads is the conversion  *)
(* it started earlier, and nothing says which channel that was: only the   *)
(* order of the calls and the time between them do.  I2C transfers may     *)
(* fail, and main does not look (devices.c:124, 131, 133).                 *)
(*                                                                         *)
(* Time passes in units.  An SPI transfer takes SpiTime; I2C transfers and *)
(* everything else may be quick.                                           *)
(***************************************************************************)
EXTENDS Integers

CONSTANTS
  NChips,          \* 3 of each kind
  Millisecond,     \* the units of a millisecond
  SpiTime,         \* of a transfer of two bytes, 160 us at 100 kHz
  PressureTime,    \* of a conversion of the ADS1015, 0.3 ms
  TemperatureTime, \* of a conversion of the ADS1118, 1.3 ms
  MaxFaults,       \* bound: I2C transfers that fail
  MaxCommands      \* bound: commands of the host that call get_msec, or set types

ASSUME SizesAssumption ==
  /\ NChips \in Nat \ {0} /\ Millisecond \in Nat \ {0}
  /\ SpiTime \in 1 .. Millisecond
  /\ MaxFaults \in Nat /\ MaxCommands \in Nat

(* A conversion is over when main comes back for it: it waits for one      *)
(* millisecond (line 103) and serves the other chips.                      *)
ASSUME TimingAssumption ==
  /\ PressureTime \in 1 .. Millisecond
  /\ TemperatureTime \in 1 .. Millisecond + (NChips - 1) * SpiTime

Chip == 0 .. NChips - 1
Mux == {0, 1}
None == 2 \* no input
Kind == {"pressure", "temperature"}

(* A reading: the input it was taken from, whether it is read for the first*)
(* time, and whether a transfer it depends on has failed.                  *)
Reading == [mux : Mux \cup {None}, fresh : BOOLEAN, doubt : BOOLEAN]
NoReading == [mux |-> None, fresh |-> FALSE, doubt |-> TRUE]

(* What a table holds of it: two words, and the type it was converted by.  *)
Type == {0, 1}
Word == [from : Reading, type : Type]

VARIABLES
  adc,     \* of each kind and chip, its conversion and result registers
  doubt,   \* since its last start, has a transfer failed?
  table,   \* pressure_data and temperature_data
  types,   \* pressure_types and temperature_types, one for all channels
  cell,    \* whether the HX711 has a conversion nobody has read
  pc,      \* the line main is about to execute
  reg,     \* the chip and the input it is at, the reading and its type
  systick, \* units until the counter ends
  flag,    \* COUNTFLAG: it has ended
  msec,    \* milliseconds, modulo 2
  delay,   \* blocks of a millisecond main has yet to wait
  left,    \* faults and commands still to come
  past     \* what has been: see Past

vars == <<adc, doubt, table, types, cell, pc, reg, systick, flag, msec, delay,
          left, past>>

chips == <<adc, doubt>>
clock == <<systick, flag, msec>>
data == <<table, types>>

Label == {"98", "98 low", "98 high", "131", "133", "99 low", "99 high", "100",
          "103", "110", "161", "37"}

(* slept: units since the delay began, since: units since msec was counted,*)
(* ticks: counts in this turn, quiet: turns that ended since a transfer    *)
(* failed, retyped: the types have been set in this turn.  All stop at a limit.    *)
Past == [slept : 0 .. 2 * Millisecond, since : 0 .. Millisecond, ticks : 0 .. 3,
         quiet : 0 .. 2, retyped : BOOLEAN]

Adc == [pointer : {"conversion", "config"}, result : Reading,
        input : Mux \cup {None}, remaining : Nat]

Init ==
  /\ adc = [k \in Kind |-> [c \in Chip |->
       [pointer |-> "conversion", result |-> NoReading, input |-> None, remaining |-> 0]]]
  /\ doubt = [k \in Kind |-> [c \in Chip |-> TRUE]]
  /\ types = [k \in Kind |-> 0]
  /\ table = [k \in Kind |-> [c \in Chip |-> [m \in Mux |->
       [lo |-> [from |-> NoReading, type |-> 0], hi |-> [from |-> NoReading, type |-> 0]]]]]
  /\ cell = FALSE
  /\ pc = "98"
  /\ reg = [chip |-> 0, mux |-> 0, reading |-> NoReading, type |-> 0]
  /\ systick = Millisecond /\ flag = FALSE /\ msec = 0 /\ delay = 0
  /\ left = [faults |-> MaxFaults, commands |-> MaxCommands]
  /\ past = [slept |-> 0, since |-> 0, ticks |-> 0, quiet |-> 0, retyped |-> FALSE]

From(a) == pc = a
To(b) == pc' = b

AtMost(n, limit) == IF n <= limit THEN n ELSE limit

-----------------------------------------------------------------------------
(* Time.                                                                   *)

(* A conversion that ends puts its input in the result register.           *)
After(n, a) ==
  IF a.input = None THEN a
  ELSE IF a.remaining > n THEN [a EXCEPT !.remaining = @ - n]
  ELSE [a EXCEPT !.input = None, !.remaining = 0,
          !.result = [mux |-> a.input, fresh |-> TRUE, doubt |-> FALSE]]

Converted(n, adcs) == [k \in Kind |-> [c \in Chip |-> After(n, adcs[k][c])]]

(* Mutant: SysTick_Handler reads CTRL, which clears COUNTFLAG.             *)
CountUnseen(n) ==
  LET ends == n >= systick
  IN  /\ systick' = IF ends THEN systick - n + Millisecond ELSE systick - n
      /\ flag' = (flag /\ ~ends)
      /\ msec' = IF ends THEN 1 - msec ELSE msec
      /\ past' = [past EXCEPT
           !.slept = IF delay = 0 THEN 0 ELSE AtMost(@ + n, 2 * Millisecond),
           !.since = IF ends THEN n - systick ELSE AtMost(@ + n, Millisecond),
           !.ticks = IF ends THEN AtMost(@ + 1, 3) ELSE @]

(* The SysTick counter runs for n units; SysTick_Handler counts its ends.  *)
Count(n) ==
  LET ends == n >= systick
  IN  /\ systick' = IF ends THEN systick - n + Millisecond ELSE systick - n
      /\ flag' = (flag \/ ends)
      /\ msec' = IF ends THEN 1 - msec ELSE msec
      /\ past' = [past EXCEPT
           !.slept = IF delay = 0 THEN 0 ELSE AtMost(@ + n, 2 * Millisecond),
           !.since = IF ends THEN n - systick ELSE AtMost(@ + n, Millisecond),
           !.ticks = IF ends THEN AtMost(@ + 1, 3) ELSE @]

(* Time passes while main waits for a bus or for the counter, or is busy   *)
(* with the rest of its turn.                                              *)
Tick ==
  /\ pc \in {"131", "100", "103", "161", "37"}
  /\ Count(1)
  /\ adc' = Converted(1, adc)
  /\ UNCHANGED <<doubt, data, cell, pc, reg, delay, left>>

-----------------------------------------------------------------------------
(* The chips.                                                              *)

(* A conversion of another input begins, unless one is going on.           *)
Converting(a, input, time) ==
  IF a.input = None THEN [a EXCEPT !.input = input, !.remaining = time] ELSE a

ReadOut(a) == [a EXCEPT !.result.fresh = FALSE]

(* Mutant: the input the reading is for is started again.                  *)
SameMux(m) == m

(* The inputs that lines 98, 100, 106 and 108 start.                       *)
NextMux(m) == 1 - m

(* ads1118_read_and_start_conversion: what comes back while the next       *)
(* conversion is asked for is the result of the last one.                  *)
ReadTemperature ==
  /\ From("98") /\ To("98 low")
  /\ LET c == reg.chip
         last == adc["temperature"][c].result
         adcs == [adc EXCEPT !["temperature"][c] = ReadOut(@)]
     IN  /\ reg' = [reg EXCEPT !.reading = [last EXCEPT !.doubt = doubt["temperature"][c]]]
         /\ adc' = [Converted(SpiTime, adcs) EXCEPT !["temperature"][c] =
                      Converting(@, NextMux(reg.mux), TemperatureTime)]
         /\ doubt' = [doubt EXCEPT !["temperature"][c] = FALSE]
  /\ Count(SpiTime)
  /\ UNCHANGED <<data, cell, delay, left>>

(* An I2C transfer with chip c: it succeeds, or it fails and nobody knows. *)
Succeeds == UNCHANGED <<left, past>>

Fails ==
  /\ left.faults > 0
  /\ left' = [left EXCEPT !.faults = @ - 1]
  /\ past' = [past EXCEPT !.quiet = 0]

(* Line 131: what is read next is the result.  A start leaves the pointer  *)
(* at the configuration.                                                   *)
PointToResult ==
  /\ From("131") /\ To("133")
  /\ LET c == reg.chip
     IN  \/ /\ Succeeds
            /\ adc' = [adc EXCEPT !["pressure"][c].pointer = "conversion"]
            /\ UNCHANGED doubt
         \/ /\ Fails
            /\ doubt' = [doubt EXCEPT !["pressure"][c] = TRUE]
            /\ UNCHANGED adc
  /\ UNCHANGED <<data, cell, reg, clock, delay>>

(* Line 133.  If it fails, i2c_buffer holds bytes of other transfers.      *)
ReadPressure ==
  /\ From("133") /\ To("99 low")
  /\ LET c == reg.chip
         a == adc["pressure"][c]
     IN  \/ /\ Succeeds
            /\ reg' = [reg EXCEPT !.reading =
                 [(IF a.pointer = "conversion" THEN a.result ELSE NoReading)
                    EXCEPT !.doubt = doubt["pressure"][c]]]
            /\ adc' = [adc EXCEPT !["pressure"][c] =
                 IF a.pointer = "conversion" THEN ReadOut(@) ELSE @]
            /\ UNCHANGED doubt
         \/ /\ Fails
            /\ reg' = [reg EXCEPT !.reading = NoReading]
            /\ doubt' = [doubt EXCEPT !["pressure"][c] = TRUE]
            /\ UNCHANGED adc
  /\ UNCHANGED <<data, cell, clock, delay>>

(* Mutant: the loops of lines 97 and 105 go one chip too far.              *)
NextChipPast ==
  /\ reg' = [reg EXCEPT !.chip = IF @ < NChips THEN @ + 1 ELSE 0, !.reading = NoReading]
  /\ IF reg.chip < NChips THEN To("98")
     ELSE IF reg.mux = 0 THEN To("103") ELSE To("110")

NextChip ==
  /\ reg' = [reg EXCEPT !.chip = (@ + 1) % NChips, !.reading = NoReading]
  /\ IF reg.chip + 1 < NChips THEN To("98")
     ELSE IF reg.mux = 0 THEN To("103") ELSE To("110")

(* Mutant: a chip whose transfer failed is not started again.              *)
StartPressureIfOk ==
  /\ From("100")
  /\ LET c == reg.chip
     IN  IF doubt["pressure"][c] THEN Succeeds /\ UNCHANGED <<adc, doubt>>
         ELSE \/ /\ Succeeds
                 /\ adc' = [adc EXCEPT !["pressure"][c] =
                      [Converting(@, NextMux(reg.mux), PressureTime) EXCEPT !.pointer = "config"]]
                 /\ UNCHANGED doubt
              \/ /\ Fails
                 /\ doubt' = [doubt EXCEPT !["pressure"][c] = TRUE]
                 /\ UNCHANGED adc
  /\ NextChip
  /\ UNCHANGED <<data, cell, clock, delay>>

(* ads1015_start_conversion (lines 100, 108).  A transfer that fails may   *)
(* have set the pointer.                                                   *)
StartPressure ==
  /\ From("100")
  /\ LET c == reg.chip
     IN  \/ /\ Succeeds
            /\ adc' = [adc EXCEPT !["pressure"][c] =
                 [Converting(@, NextMux(reg.mux), PressureTime) EXCEPT !.pointer = "config"]]
            /\ doubt' = [doubt EXCEPT !["pressure"][c] = FALSE]
         \/ /\ Fails
            /\ \E p \in {adc["pressure"][c].pointer, "config"} :
                 adc' = [adc EXCEPT !["pressure"][c].pointer = p]
            /\ doubt' = [doubt EXCEPT !["pressure"][c] = TRUE]
  /\ NextChip
  /\ UNCHANGED <<data, cell, clock, delay>>

(* A double is stored as two words.  The type it is converted by is read   *)
(* after the reading.                                                      *)
StoreLow(kind) ==
  /\ table' = [table EXCEPT ![kind][reg.chip][reg.mux].lo =
                 [from |-> reg.reading, type |-> types[kind]]]
  /\ reg' = [reg EXCEPT !.type = types[kind]]
  /\ UNCHANGED <<chips, types, cell, clock, delay, left, past>>

(* Mutant: the type is read again for the second word.                     *)
StoreHighAgain(kind) ==
  /\ table' = [table EXCEPT ![kind][reg.chip][reg.mux].hi =
                 [from |-> reg.reading, type |-> types[kind]]]
  /\ reg' = [reg EXCEPT !.reading = NoReading, !.type = 0]
  /\ UNCHANGED <<chips, types, cell, clock, delay, left, past>>

StoreHigh(kind) ==
  /\ table' = [table EXCEPT ![kind][reg.chip][reg.mux].hi =
                 [from |-> reg.reading, type |-> reg.type]]
  /\ reg' = [reg EXCEPT !.reading = NoReading, !.type = 0]
  /\ UNCHANGED <<chips, types, cell, clock, delay, left, past>>

StoreTemperature ==
  \/ From("98 low") /\ To("98 high") /\ StoreLow("temperature")
  \/ From("98 high") /\ To("131") /\ StoreHigh("temperature")

StorePressure ==
  \/ From("99 low") /\ To("99 high") /\ StoreLow("pressure")
  \/ From("99 high") /\ To("100") /\ StoreHigh("pressure")

(* hx711_read_cell does not ask whether a conversion is ready (line 195).  *)
ReadCell ==
  /\ From("110") /\ To("161")
  /\ cell' = FALSE
  /\ UNCHANGED <<chips, data, clock, reg, delay, left, past>>

-----------------------------------------------------------------------------
(* The counter.                                                            *)

(* Mutant: they do not clear the counter.                                  *)
Reload == flag' = FALSE /\ UNCHANGED <<systick, msec>>

(* SysTick_Config and delay_cycles start it again.                         *)
Restart == systick' = Millisecond /\ flag' = FALSE /\ UNCHANGED msec

(* get_msec, called by push_servo_data.                                    *)
PushServos ==
  /\ From("161") /\ To("37")
  /\ Restart
  /\ UNCHANGED <<chips, data, cell, reg, delay, left, past>>

Blocks == IF pc = "103" THEN 1 ELSE 2

(* delay_cycles_ms: so many blocks of a millisecond, each with the counter *)
(* started again.                                                          *)
BeginDelay ==
  /\ pc \in {"103", "37"} /\ delay = 0
  /\ delay' = Blocks
  /\ Restart
  /\ UNCHANGED <<chips, data, cell, pc, reg, left, past>>

NextBlock ==
  /\ delay > 1 /\ flag
  /\ delay' = delay - 1
  /\ Restart
  /\ UNCHANGED <<chips, data, cell, pc, reg, left, past>>

(* The second of the two loops, or the next turn.                          *)
EndDelay ==
  /\ delay = 1 /\ flag
  /\ delay' = 0 /\ flag' = FALSE
  /\ To("98")
  /\ reg' = [reg EXCEPT !.mux = 1 - @]
  /\ past' = IF pc = "103" THEN [past EXCEPT !.slept = 0]
             ELSE [past EXCEPT !.slept = 0, !.ticks = 0, !.quiet = AtMost(@ + 1, 2),
                     !.retyped = FALSE]
  /\ UNCHANGED <<chips, data, cell, systick, msec, left>>

Main ==
  \/ ReadTemperature \/ StoreTemperature \/ PointToResult \/ ReadPressure
  \/ StorePressure \/ StartPressure \/ ReadCell \/ PushServos
  \/ BeginDelay \/ NextBlock \/ EndDelay

-----------------------------------------------------------------------------
(* Commands in the USB interrupt: those that set a servo, or button, or    *)
(* reset a state call get_msec; the others here set the types.             *)
Command ==
  /\ left.commands > 0
  /\ left' = [left EXCEPT !.commands = @ - 1]

GetMsec ==
  /\ Command
  /\ Restart
  /\ UNCHANGED <<chips, data, cell, pc, reg, delay, past>>

SetTypes(k, t) ==
  /\ Command /\ t # types[k]
  /\ types' = [types EXCEPT ![k] = t]
  /\ past' = [past EXCEPT !.retyped = TRUE]
  /\ UNCHANGED <<chips, table, cell, pc, reg, clock, delay>>

CellConverts ==
  /\ ~cell /\ cell' = TRUE
  /\ UNCHANGED <<chips, data, pc, reg, clock, delay, left, past>>

Next ==
  \/ Main \/ Tick \/ GetMsec \/ (\E k \in Kind, t \in Type : SetTypes(k, t))
  \/ CellConverts

Spec == Init /\ [][Next]_vars

(* Main runs, the counter counts, and the host does not send commands for  *)
(* ever without a pause of a millisecond (MaxCommands).                    *)
FairSpec == Spec /\ WF_vars(Main) /\ WF_vars(Tick)

-----------------------------------------------------------------------------
TypeOK ==
  /\ adc \in [Kind -> [Chip -> Adc]]
  /\ doubt \in [Kind -> [Chip -> BOOLEAN]]
  /\ table \in [Kind -> [Chip -> [Mux -> [lo : Word, hi : Word]]]]
  /\ types \in [Kind -> Type]
  /\ cell \in BOOLEAN
  /\ pc \in Label
  /\ reg \in [chip : Chip, mux : Mux, reading : Reading, type : Type]
  /\ systick \in 1 .. Millisecond /\ flag \in BOOLEAN /\ msec \in {0, 1}
  /\ delay \in 0 .. 2 /\ (delay > 0 => pc \in {"103", "37"})
  /\ left \in [faults : 0 .. MaxFaults, commands : 0 .. MaxCommands]
  /\ past \in Past

Entries == Kind \X Chip \X Mux
Entry(e) == table[e[1]][e[2]][e[3]]

(* A reading in its own place, and not one that was there before.          *)
Own(word, e) == word.from.mux = e[3] /\ word.from.fresh

(* Every value in the tables was measured on the channel it is stored for, *)
(* and since the value before it, if no transfer it depends on has failed: *)
(* lines 97-109 keep the chips' inputs apart by the order of the calls and *)
(* the millisecond between them, whatever interrupts lengthen it.          *)
OwnReadings == \A e \in Entries : \A word \in {Entry(e).lo, Entry(e).hi} :
  word.from.doubt \/ Own(word, e)

(* What a failed transfer spoils, or the start, where nothing has been     *)
(* converted yet, is gone after two more turns, and types set apply after  *)
(* one: main ignores the status of its transfers (lines 124-133) and heals *)
(* all the same.                                                           *)
Recovers ==
  pc = "110" /\ past.quiet >= 2 => \A e \in Entries :
    /\ Own(Entry(e).hi, e)
    /\ past.retyped \/ Entry(e).hi.type = types[e[1]]

(* A host that asks for a table while main stores into it (line 225) gets  *)
(* at most one value made of two.                                          *)
Torn == {e \in Entries : Entry(e).lo # Entry(e).hi}

AtMostOneTorn == \A d, e \in Torn : d = e

(* delay_ms waits as long as it says, milliseconds are never counted too   *)
(* soon, and every turn counts three of them, although get_msec restarts   *)
(* the counter that does all this (lines 103, 264, main.c:37).             *)
TimeKept == [][
  /\ pc # pc' /\ delay > 0 => past.slept >= Blocks * Millisecond
  /\ pc = "37" /\ pc' # "37" => past.ticks >= 3
  /\ msec' # msec => past.since + systick >= Millisecond]_vars

(* Every conversion of the load cell is read: main never waits for ever    *)
(* for a counter that is started again and again.                          *)
CellRead == cell ~> ~cell
=============================================================================
