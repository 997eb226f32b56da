---------------------------- MODULE TestContext ----------------------------
(***************************************************************************)
(* TestContext::parse of test_context.h: one pass over the arguments.  An  *)
(* option with a value takes the next argument for it, whatever it is; an  *)
(* argument that is no option, or an option that wants a value and is the  *)
(* last argument, is passed over in silence.  (The behaviour has names of  *)
(* its own, so that Harness, whose main works with ctx, can be extended    *)
(* along with this module.)                                                *)
(***************************************************************************)
EXTENDS Integers, Sequences

CONSTANT MaxArgs    \* bound on the number of arguments

ASSUME ContextAssumption == MaxArgs \in Nat

VARIABLES
    argv,           \* the arguments after the program's name
    pos,            \* index of the argument to look at next
    ctx

parseVars == <<argv, pos, ctx>>

IntMax == 9         \* INT_MAX, scaled down
Unlimited == 0      \* no --maxthreads
NoFile == "(none)"  \* no --filename

ValueOptions == {"--seconds", "--loglevel", "--queuesize", "--filename", "--maxthreads",
                 "--ignoretests"}
Values == {"7", "2x", "10", "0", "debug", "off", "", "level,,timebase"}
Tokens == ValueOptions \cup {"--stress"} \cup Values

(***************************************************************************)
(* What the conversions make of an argument.  strtol reads the digits it   *)
(* begins with, and finds 0 where there are none; "10" stands for what no  *)
(* int can hold.  from_str takes a name it does not know for "off".  The   *)
(* pieces between commas are names, the empty ones excepted.               *)
(***************************************************************************)
Number(s) == CASE s = "7" -> 7 [] s = "2x" -> 2 [] s = "10" -> IntMax + 1 [] OTHER -> 0
Level(s) == IF s = "debug" THEN s ELSE "off"
Names(s) == IF s = "level,,timebase" THEN {"level", "timebase"} ELSE {s} \ {""}

IsInt(s) == Number(s) > 0 /\ Number(s) <= IntMax
IsSize(s) == Number(s) > 0
IsLevel(s) == Level(s) = "off" => s = "off"

Defaults == [seconds |-> 5, stress |-> FALSE, logLevel |-> "info", queueSize |-> 8,
             filename |-> NoFile, maxThreads |-> Unlimited, ignoreTests |-> {}]

(* What main can work with: positive numbers, of which two are ints, and test names. *)
ContextOK ==
    /\ argv \in Seq(Tokens) /\ pos \in 1 .. Len(argv) + 1
    /\ ctx.seconds \in 1 .. IntMax
    /\ ctx.stress \in BOOLEAN
    /\ ctx.logLevel \in {"info", "debug", "off"}
    /\ ctx.queueSize \in Nat \ {0}
    /\ ctx.filename \in Tokens \cup {NoFile}
    /\ ctx.maxThreads \in {Unlimited} \cup 1 .. IntMax
    /\ "" \notin ctx.ignoreTests

ParseInit ==
    /\ argv \in UNION {[1 .. n -> Tokens] : n \in 0 .. MaxArgs}
    /\ pos = 1
    /\ ctx = Defaults
-----------------------------------------------------------------------------
Wants(p) == p < Len(argv) /\ argv[p] \in ValueOptions
Looking == pos <= Len(argv)
Value == argv[pos + 1]

(* Faulty variant: a refused value is left to be looked at as an argument. *)
AfterValueAccepted(ok) == IF ok THEN pos + 2 ELSE pos + 1

(* ++i happens while the value is read, before it is judged. *)
AfterValue(ok) == pos + 2

Takes(option, ok, newCtx) ==
    /\ Wants(pos)
    /\ argv[pos] = option
    /\ pos' = AfterValue(ok)
    /\ ctx' = IF ok THEN newCtx ELSE ctx

TakeSeconds == Takes("--seconds", IsInt(Value), [ctx EXCEPT !.seconds = Number(Value)])

TakeLogLevel == Takes("--loglevel", IsLevel(Value), [ctx EXCEPT !.logLevel = Level(Value)])

TakeQueueSize == Takes("--queuesize", IsSize(Value), [ctx EXCEPT !.queueSize = Number(Value)])

TakeFilename == Takes("--filename", TRUE, [ctx EXCEPT !.filename = Value])

TakeMaxThreads == Takes("--maxthreads", IsInt(Value), [ctx EXCEPT !.maxThreads = Number(Value)])

TakeIgnoreTests ==
    Takes("--ignoretests", TRUE, [ctx EXCEPT !.ignoreTests = @ \cup Names(Value)])

TakeStress ==
    /\ argv[pos] = "--stress"
    /\ pos' = pos + 1
    /\ ctx' = [ctx EXCEPT !.stress = TRUE]

PassOver ==
    /\ ~Wants(pos) /\ argv[pos] # "--stress"
    /\ pos' = pos + 1
    /\ UNCHANGED ctx

Parsed == ~Looking /\ UNCHANGED parseVars

ParseNext ==
    \/ /\ Looking
       /\ \/ TakeSeconds \/ TakeLogLevel \/ TakeQueueSize \/ TakeFilename
          \/ TakeMaxThreads \/ TakeIgnoreTests \/ TakeStress \/ PassOver
       /\ UNCHANGED argv
    \/ Parsed

ParseSpec == ParseInit /\ [][ParseNext]_parseVars
-----------------------------------------------------------------------------
(***************************************************************************)
(* The reference: which arguments count as options, by looking back from   *)
(* each one, and what the options that count say.  In a row of arguments   *)
(* that want a value every second one is the value of the one before it.   *)
(***************************************************************************)
RowBegins(q, p) ==
    /\ \A i \in q .. p - 1 : Wants(i)
    /\ q = 1 \/ ~Wants(q - 1)

IsOption(p) == \E q \in 1 .. p : RowBegins(q, p) /\ (p - q) % 2 = 0

(* Where an option is given a value that Ok accepts. *)
Given(option, Ok(_)) ==
    {p \in 1 .. Len(argv) - 1 : IsOption(p) /\ argv[p] = option /\ Ok(argv[p + 1])}

LastOr(option, Ok(_), Meaning(_), default) ==
    LET given == Given(option, Ok)
    IN  IF given = {} THEN default
        ELSE Meaning(argv[(CHOOSE p \in given : \A q \in given : q <= p) + 1])

Any(s) == TRUE
Itself(s) == s

(***************************************************************************)
(* When the arguments have been parsed, each setting is what its last      *)
(* valid option said, or its default: an invalid value neither counts nor  *)
(* undoes an earlier one, and is never taken for an option itself; ignored *)
(* tests add up; --stress counts unless it is another option's value.  And *)
(* whatever was parsed so far, main can work with it (ContextOK).          *)
(***************************************************************************)
LastValidWins ==
    /\ ContextOK
    /\ ~Looking => ctx =
        [seconds |-> LastOr("--seconds", IsInt, Number, Defaults.seconds),
         stress |-> \E p \in 1 .. Len(argv) : IsOption(p) /\ argv[p] = "--stress",
         logLevel |-> LastOr("--loglevel", IsLevel, Level, Defaults.logLevel),
         queueSize |-> LastOr("--queuesize", IsSize, Number, Defaults.queueSize),
         filename |-> LastOr("--filename", Any, Itself, NoFile),
         maxThreads |-> LastOr("--maxthreads", IsInt, Number, Unlimited),
         ignoreTests |-> UNION {Names(argv[p + 1]) : p \in Given("--ignoretests", Any)}]
=============================================================================
