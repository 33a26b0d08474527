--------------------------------- MODULE Policy ---------------------------------
(***************************************************************************)
(* The settlement policy a run is bound to (services/normalization/policy  *)
(* .py) and its calendar (services/normalization/dates.py).  A day is an   *)
(* integer, day 0 a Monday; an amount is an integer number of paise.       *)
(***************************************************************************)
EXTENDS Integers, FiniteSets

CONSTANTS
    Holidays,         \* days the banks are closed
    WeekendDays,      \* of 0..6
    SettlementDelay,  \* days from the capture to the settlement
    BankDelay,        \* days from the settlement to the bank
    FeeRate,          \* <<numerator, denominator>> of the amount of a payment
    TaxRate,          \* <<numerator, denominator>> of that fee
    CriticalAmount    \* from which an exception is CRITICAL

ASSUME CalendarAssumption ==
    /\ Holidays \subseteq Int /\ IsFiniteSet(Holidays)
    /\ WeekendDays \subseteq 0..6
    /\ WeekendDays # 0..6
    /\ {SettlementDelay, BankDelay} \subseteq Nat
ASSUME RatesAssumption ==
    \A rate \in {FeeRate, TaxRate} : rate[1] \in Nat /\ rate[2] \in Nat \ {0}

IsBusinessDay(d) == d % 7 \notin WeekendDays /\ d \notin Holidays

NextBusinessDay[d \in Int] == IF IsBusinessDay(d) THEN d ELSE NextBusinessDay[d + 1]

\* A capture after the cutoff counts as one of the next day.
ExpectedSettlementDate(d, late) ==
    NextBusinessDay[(IF late THEN d + 1 ELSE d) + SettlementDelay]

ExpectedBankDate(d) == NextBusinessDay[d + BankDelay]

ExpectedFee(amount) == (amount * FeeRate[1]) \div FeeRate[2]
ExpectedTax(amount) == (ExpectedFee(amount) * TaxRate[1]) \div TaxRate[2]

=============================================================================
