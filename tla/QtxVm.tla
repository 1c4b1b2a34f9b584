------------------------------- MODULE QtxVm -------------------------------
(***************************************************************************)
(* The qtx-v1 runtime of user defined contracts (transactions.ts): what a  *)
(* deployment accepts, what a method costs and what a run of it does.      *)
(* Code is a record: `vm' is FALSE for code that names no vm (the native   *)
(* methods answer its calls), methods maps method names to programs.       *)
(***************************************************************************)
EXTENDS Integers, Sequences, FiniteSets, SequencesExt

CONSTANTS
  MaxMethods, MaxInstructions,   \* 128 and 256 in the code
  Missing,                       \* a storage key that is absent or holds ""
  Text                           \* a string that is not an integer

ASSUME LimitAssumption == MaxMethods \in Nat /\ MaxInstructions \in Nat

Value == Int \cup {Missing, Text}
NoKey == "no key"   \* the instruction has no `key' of type string
NoArg == 0          \* the instruction has no `arg' within the call's arguments

AllowedOps == {"set", "add", "delete", "emit", "return"}
StorageWrites == {"set", "add", "delete"}

\* toBigIntSafe
BigInt(v, fallback) == IF v \in {Missing, Text} THEN fallback ELSE v

\* Mutant: only the first instruction of a program is looked at.
ValidFirstOp(c) ==
  c.vm => /\ DOMAIN c.methods # {}
          /\ Cardinality(DOMAIN c.methods) <= MaxMethods
          /\ \A m \in DOMAIN c.methods :
               /\ Len(c.methods[m]) <= MaxInstructions
               /\ Len(c.methods[m]) > 0 => c.methods[m][1].op \in AllowedOps

\* inspectContractCodeVm: what a deployment refuses.
ValidCode(c) ==
  c.vm => /\ DOMAIN c.methods # {}
          /\ Cardinality(DOMAIN c.methods) <= MaxMethods
          /\ \A m \in DOMAIN c.methods :
               /\ Len(c.methods[m]) <= MaxInstructions
               /\ \A i \in DOMAIN c.methods[m] : c.methods[m][i].op \in AllowedOps

InstructionGas(step) ==
  800 + (IF step.op = "emit" THEN 200 ELSE 0) + (IF step.op \in StorageWrites THEN 150 ELSE 0)

ProgramGas(program) == 10000 + SumFunction([i \in DOMAIN program |-> InstructionGas(program[i])])

\* Mutant: writes to storage are not charged.
VmGasWritesFree(c, method) ==
  IF c.vm /\ method \in DOMAIN c.methods
  THEN LET program == c.methods[method]
       IN  10000 + SumFunction([i \in DOMAIN program |->
                                  800 + (IF program[i].op = "emit" THEN 200 ELSE 0)])
  ELSE 0

\* estimateVmInstructionGas
VmInstructionGas(c, method) ==
  IF c.vm /\ method \in DOMAIN c.methods THEN ProgramGas(c.methods[method]) ELSE 0

\* resolveVmValue: the call's argument if `arg' names one, else the literal.
Resolve(step, args) == IF step.arg \in DOMAIN args THEN args[step.arg] ELSE step.value

\* One instruction on [storage, status, ret, work]; work is the gas of what ran.
Step(run, step, args) ==
  LET next == [run EXCEPT !.work = @ + InstructionGas(step)]
      write(v) == IF step.key = NoKey THEN [run EXCEPT !.status = "failed"]
                  ELSE [next EXCEPT !.storage[step.key] = v]
  IN  IF run.status # "running" THEN run
      ELSE CASE step.op = "set" -> write(Resolve(step, args))
             [] step.op = "add" ->
                  write(BigInt(run.storage[step.key], 0) + BigInt(Resolve(step, args), 1))
             [] step.op = "delete" -> write(Missing)
             [] step.op = "emit" -> next
             [] step.op = "return" ->
                  [next EXCEPT !.status = "returned",
                               !.ret = IF step.key = NoKey THEN Resolve(step, args)
                                       ELSE run.storage[step.key]]
             [] OTHER -> [run EXCEPT !.status = "unsupported"]

\* ran[i]: what the first i instructions made of the run.
RunProgram(program, started, args) ==
  LET ran[i \in 0 .. Len(program)] ==
        IF i = 0 THEN started ELSE Step(ran[i - 1], program[i], args)
  IN  ran[Len(program)]

\* executeUserDefinedContractMethod: the storage keeps what ran before a failure.
Execute(c, storage, method, args) ==
  LET started == [storage |-> storage, status |-> "running", ret |-> Missing, work |-> 10000]
  IN  IF method \notin DOMAIN c.methods THEN [started EXCEPT !.status = "failed"]
      ELSE IF Len(c.methods[method]) > MaxInstructions
           THEN [started EXCEPT !.status = "unsupported"]
      ELSE RunProgram(c.methods[method], started, args)

Runs(run) == run.status \in {"running", "returned"}
=============================================================================
