--------------------------- MODULE StepApiProofs ---------------------------
(***************************************************************************)
(* Stepping a program through the API is a run of the emulator, and a      *)
(* state that the client holds is all of the machine it was taken from.    *)
(***************************************************************************)
EXTENDS StepApi, MachineProofs, SequenceTheorems

(***************************************************************************)
(* StepApi and the run it is compared with are built on the same machine:  *)
(* the operators of the one are those of the other.                        *)
(***************************************************************************)
\* The sets.
LEMMA SameSets ==
  /\ TheRun!NotMapped = NotMapped
  /\ TheRun!NoFlags = NoFlags
  /\ TheRun!Reg = Reg
  /\ TheRun!BinaryOps = BinaryOps
  /\ TheRun!CompareOps = CompareOps
  /\ TheRun!UnaryOps = UnaryOps
  /\ TheRun!WideOps = WideOps
  /\ TheRun!MoveOps = MoveOps
  /\ TheRun!ShiftOps = ShiftOps
  /\ TheRun!StackOps = StackOps
  /\ TheRun!BranchOps = BranchOps
  /\ TheRun!SystemOps = SystemOps
  /\ TheRun!Halts = Halts
  /\ TheRun!Faults = Faults
  /\ TheRun!SysWrite = SysWrite
  /\ TheRun!SysExit = SysExit
  /\ TheRun!Stdout = Stdout
  /\ TheRun!Stderr = Stderr
BY DEF TheRun!NotMapped, NotMapped, TheRun!NoFlags, NoFlags, TheRun!Reg, Reg, TheRun!BinaryOps,
       BinaryOps, TheRun!CompareOps, CompareOps, TheRun!UnaryOps, UnaryOps, TheRun!WideOps,
       WideOps, TheRun!MoveOps, MoveOps, TheRun!ShiftOps, ShiftOps, TheRun!StackOps, StackOps,
       TheRun!BranchOps, BranchOps, TheRun!SystemOps, SystemOps, TheRun!Halts, Halts,
       TheRun!Faults, Faults, TheRun!SysWrite, SysWrite, TheRun!SysExit, SysExit,
       TheRun!Stdout, Stdout, TheRun!Stderr, Stderr

\* Memory.
LEMMA SameMemory ==
  /\ \A mem, addr, n, need : TheRun!Locate(mem, addr, n, need) = Locate(mem, addr, n, need)
  /\ \A mem, at, n : TheRun!ReadCells(mem, at, n) = ReadCells(mem, at, n)
  /\ \A mem, at, cells : TheRun!WriteCells(mem, at, cells) = WriteCells(mem, at, cells)
  /\ \A mem, addr, max : TheRun!FetchWindow(mem, addr, max) = FetchWindow(mem, addr, max)
  /\ \A mem, r : TheRun!MapWith(mem, r) = MapWith(mem, r)
<1>1. \A r : TheRun!RegionEnd(r) = RegionEnd(r)
  BY DEF TheRun!RegionEnd, RegionEnd
<1>2. \A r, addr, n : TheRun!Covers(r, addr, n) = Covers(r, addr, n)
  BY <1>1 DEF TheRun!Covers, Covers
<1>3. \A mem, addr, n : TheRun!Covering(mem, addr, n) = Covering(mem, addr, n)
  BY <1>2 DEF TheRun!Covering, Covering
<1>4. \A S : TheRun!FirstOf(S) = FirstOf(S)
  BY DEF TheRun!FirstOf, FirstOf
<1>5. \A mem, addr, n, need : TheRun!Locate(mem, addr, n, need) = Locate(mem, addr, n, need)
  BY <1>3, <1>4, SameSets DEF TheRun!Locate, Locate
<1>6. \A mem, at, n : TheRun!ReadCells(mem, at, n) = ReadCells(mem, at, n)
  BY DEF TheRun!ReadCells, ReadCells
<1>7. \A data, off, cells : TheRun!Overwrite(data, off, cells) = Overwrite(data, off, cells)
  BY DEF TheRun!Overwrite, Overwrite
<1>8. \A mem, at, cells : TheRun!WriteCells(mem, at, cells) = WriteCells(mem, at, cells)
  BY <1>7 DEF TheRun!WriteCells, WriteCells
<1>9. ASSUME NEW mem, NEW addr, NEW max
      PROVE  TheRun!FetchWindow(mem, addr, max) = FetchWindow(mem, addr, max)
  BY <1>5, Zenon DEF TheRun!FetchWindow, FetchWindow
<1>10. \A mem, r : TheRun!MapWith(mem, r) = MapWith(mem, r)
  BY DEF TheRun!MapWith, MapWith, TheRun!Cardinality, Cardinality, TheRun!IsFiniteSet, IsFiniteSet
<1>. QED  BY <1>5, <1>6, <1>8, <1>9, <1>10

\* Arithmetic.
LEMMA SameArithmetic ==
  /\ \A v, n : TheRun!Negative(v, n) = Negative(v, n)
  /\ \A v, n : TheRun!Signed(v, n) = Signed(v, n)
  /\ \A a, b, c, n : TheRun!Adc(a, b, c, n) = Adc(a, b, c, n)
  /\ \A a, b, c, n : TheRun!Sbb(a, b, c, n) = Sbb(a, b, c, n)
  /\ \A op, a, b, n : TheRun!LogicOp(op, a, b, n) = LogicOp(op, a, b, n)
  /\ \A r, cf : TheRun!KeepCarry(r, cf) = KeepCarry(r, cf)
  /\ \A op, a, raw, flags, n : TheRun!Shift(op, a, raw, flags, n) = Shift(op, a, raw, flags, n)
  /\ \A a, b, n : TheRun!Product(a, b, n) = Product(a, b, n)
  /\ \A signed, high, low, d, n : TheRun!Divide(signed, high, low, d, n) = Divide(signed, high, low, d, n)
  /\ \A cond, f : TheRun!Holds(cond, f) = Holds(cond, f)
<1>1. \A v, n : TheRun!Negative(v, n) = Negative(v, n)
  BY DEF TheRun!Negative, Negative
<1>2. \A v, n : TheRun!Signed(v, n) = Signed(v, n)
  BY <1>1 DEF TheRun!Signed, Signed
<1>3. \A v, cf, of, n : TheRun!Result(v, cf, of, n) = Result(v, cf, of, n)
  BY <1>1 DEF TheRun!Result, Result
<1>4. \A b : TheRun!Bit(b) = Bit(b)
  BY DEF TheRun!Bit, Bit
<1>5. \A a, b, c, n : TheRun!Adc(a, b, c, n) = Adc(a, b, c, n)
  BY <1>1, <1>3, <1>4 DEF TheRun!Adc, Adc
<1>6. \A a, b, c, n : TheRun!Sbb(a, b, c, n) = Sbb(a, b, c, n)
  BY <1>1, <1>3, <1>4 DEF TheRun!Sbb, Sbb
<1>7. \A op, a, b, n : TheRun!LogicOp(op, a, b, n) = LogicOp(op, a, b, n)
  BY <1>3 DEF TheRun!LogicOp, LogicOp
<1>8. \A r, cf : TheRun!KeepCarry(r, cf) = KeepCarry(r, cf)
  BY DEF TheRun!KeepCarry, KeepCarry
<1>9. \A raw, n : TheRun!ShiftCount(raw, n) = ShiftCount(raw, n)
  BY DEF TheRun!ShiftCount, ShiftCount
<1>10. \A v, k : TheRun!BitOf(v, k) = BitOf(v, k)
  BY DEF TheRun!BitOf, BitOf
<1>11. \A a, c, n : TheRun!RotateLeft(a, c, n) = RotateLeft(a, c, n)
  BY DEF TheRun!RotateLeft, RotateLeft
<1>12. \A op, a, c, n : TheRun!ShiftValue(op, a, c, n) = ShiftValue(op, a, c, n)
  BY <1>2, <1>11 DEF TheRun!ShiftValue, ShiftValue
<1>13. \A op, a, c, n : TheRun!ShiftCarry(op, a, c, n) = ShiftCarry(op, a, c, n)
  BY <1>1, <1>10, <1>12 DEF TheRun!ShiftCarry, ShiftCarry
<1>14. ASSUME NEW op, NEW a, NEW c, NEW n
      PROVE  TheRun!ShiftOverflow(op, a, c, n) = ShiftOverflow(op, a, c, n)
  BY <1>1, <1>10, <1>12, <1>13, Zenon DEF TheRun!ShiftOverflow, ShiftOverflow
<1>15. \A op, a, raw, flags, n : TheRun!Shift(op, a, raw, flags, n) = Shift(op, a, raw, flags, n)
  BY <1>1, <1>9, <1>12, <1>13, <1>14 DEF TheRun!Shift, Shift
<1>16. \A a, b, n : TheRun!Product(a, b, n) = Product(a, b, n)
  BY DEF TheRun!Product, Product
<1>17. \A v : TheRun!Magnitude(v) = Magnitude(v)
  BY DEF TheRun!Magnitude, Magnitude
<1>18. \A a, b : TheRun!Quotient(a, b) = Quotient(a, b)
  BY <1>17 DEF TheRun!Quotient, Quotient
<1>19. \A a, b : TheRun!Remainder(a, b) = Remainder(a, b)
  BY <1>18 DEF TheRun!Remainder, Remainder
<1>20. \A q, signed, n : TheRun!Fits(q, signed, n) = Fits(q, signed, n)
  BY DEF TheRun!Fits, Fits
<1>21. \A signed, high, low, d, n : TheRun!Divide(signed, high, low, d, n) = Divide(signed, high, low, d, n)
  BY <1>2, <1>18, <1>19, <1>20 DEF TheRun!Divide, Divide
<1>22. \A cond, f : TheRun!Holds(cond, f) = Holds(cond, f)
  BY DEF TheRun!Holds, Holds
<1>. QED  BY <1>1, <1>2, <1>5, <1>6, <1>7, <1>8, <1>15, <1>16, <1>21, <1>22

\* Registers, memory and operands.
LEMMA SameEffects ==
  /\ \A c, nextIp : TheRun!Begin(c, nextIp) = Begin(c, nextIp)
  /\ \A m, f : TheRun!Raise(m, f) = Raise(m, f)
  /\ \A f, m, next : TheRun!Unless(f, m, next) = Unless(f, m, next)
  /\ \A m, next : TheRun!AfterOk(m, next) = AfterOk(m, next)
  /\ \A m, r : TheRun!RegOf(m, r) = RegOf(m, r)
  /\ \A v : TheRun!Trunc(v) = Trunc(v)
  /\ \A m, c : TheRun!WithCpu(m, c) = WithCpu(m, c)
  /\ \A m, r, v : TheRun!PutReg(m, r, v) = PutReg(m, r, v)
  /\ \A m, f : TheRun!SetFlags(m, f) = SetFlags(m, f)
  /\ \A m, a : TheRun!SetRip(m, a) = SetRip(m, a)
  /\ \A m, h : TheRun!SetHalt(m, h) = SetHalt(m, h)
  /\ \A m, o : TheRun!EffectiveAddress(m, o) = EffectiveAddress(m, o)
  /\ \A m, a, n : TheRun!LoadFault(m, a, n) = LoadFault(m, a, n)
  /\ \A m, a, n : TheRun!Loaded(m, a, n) = Loaded(m, a, n)
  /\ \A m, o : TheRun!ReadFault(m, o) = ReadFault(m, o)
  /\ \A m, o1, o2 : TheRun!ReadsFault(m, o1, o2) = ReadsFault(m, o1, o2)
  /\ \A m, o : TheRun!ReadOp(m, o) = ReadOp(m, o)
  /\ \A m, o, v : TheRun!WriteOp(m, o, v) = WriteOp(m, o, v)
  /\ \A m, v : TheRun!Push(m, v) = Push(m, v)
  /\ \A m : TheRun!PopFault(m) = PopFault(m)
  /\ \A m : TheRun!Popped(m) = Popped(m)
  /\ \A m : TheRun!DropTop(m) = DropTop(m)
  /\ \A m, b : TheRun!SetOverflow(m, b) = SetOverflow(m, b)
  /\ \A m, low, high : TheRun!PutPair(m, low, high) = PutPair(m, low, high)
<1>1. \A c, nextIp : TheRun!Begin(c, nextIp) = Begin(c, nextIp)
  BY DEF TheRun!Begin, Begin
<1>2. \A m, f : TheRun!Raise(m, f) = Raise(m, f)
  BY DEF TheRun!Raise, Raise
<1>3. \A f, m, next : TheRun!Unless(f, m, next) = Unless(f, m, next)
  BY <1>2 DEF TheRun!Unless, Unless
<1>4. \A m, next : TheRun!AfterOk(m, next) = AfterOk(m, next)
  BY DEF TheRun!AfterOk, AfterOk
<1>5. \A m, r : TheRun!RegOf(m, r) = RegOf(m, r)
  BY DEF TheRun!RegOf, RegOf
<1>6. \A v : TheRun!Trunc(v) = Trunc(v)
  BY DEF TheRun!Trunc, Trunc
<1>7. \A m, c : TheRun!WithCpu(m, c) = WithCpu(m, c)
  BY DEF TheRun!WithCpu, WithCpu
<1>8. \A m, r, v : TheRun!PutReg(m, r, v) = PutReg(m, r, v)
  BY DEF TheRun!PutReg, PutReg
<1>9. \A m, f : TheRun!SetFlags(m, f) = SetFlags(m, f)
  BY <1>7 DEF TheRun!SetFlags, SetFlags
<1>10. \A m, a : TheRun!SetRip(m, a) = SetRip(m, a)
  BY <1>7 DEF TheRun!SetRip, SetRip
<1>11. \A m, h : TheRun!SetHalt(m, h) = SetHalt(m, h)
  BY <1>7 DEF TheRun!SetHalt, SetHalt
<1>12. \A m, a, cells : TheRun!Store(m, a, cells) = Store(m, a, cells)
  BY <1>3, SameMemory DEF TheRun!Store, Store
<1>13. \A m, o : TheRun!EffectiveAddress(m, o) = EffectiveAddress(m, o)
  BY <1>5, <1>6 DEF TheRun!EffectiveAddress, EffectiveAddress
<1>14. \A m, a, n : TheRun!LoadFault(m, a, n) = LoadFault(m, a, n)
  BY SameMemory DEF TheRun!LoadFault, LoadFault
<1>15. \A m, a, n : TheRun!Loaded(m, a, n) = Loaded(m, a, n)
  BY SameMemory DEF TheRun!Loaded, Loaded
<1>16. \A m, o : TheRun!ReadFault(m, o) = ReadFault(m, o)
  BY <1>13, <1>14 DEF TheRun!ReadFault, ReadFault
<1>17. \A m, o1, o2 : TheRun!ReadsFault(m, o1, o2) = ReadsFault(m, o1, o2)
  BY <1>16 DEF TheRun!ReadsFault, ReadsFault
<1>18. \A m, o : TheRun!ReadOp(m, o) = ReadOp(m, o)
  BY <1>5, <1>13, <1>15 DEF TheRun!ReadOp, ReadOp
<1>19. \A m, o, v : TheRun!WriteOp(m, o, v) = WriteOp(m, o, v)
  BY <1>2, <1>8, <1>12, <1>13 DEF TheRun!WriteOp, WriteOp
<1>20. \A m, v : TheRun!Push(m, v) = Push(m, v)
  BY <1>5, <1>6, <1>8, <1>12 DEF TheRun!Push, Push
<1>21. \A m : TheRun!PopFault(m) = PopFault(m)
  BY <1>5, <1>14 DEF TheRun!PopFault, PopFault
<1>22. \A m : TheRun!Popped(m) = Popped(m)
  BY <1>5, <1>15 DEF TheRun!Popped, Popped
<1>23. \A m : TheRun!DropTop(m) = DropTop(m)
  BY <1>5, <1>6, <1>8 DEF TheRun!DropTop, DropTop
<1>24. \A m, b : TheRun!SetOverflow(m, b) = SetOverflow(m, b)
  BY <1>9 DEF TheRun!SetOverflow, SetOverflow
<1>25. \A m, low, high : TheRun!PutPair(m, low, high) = PutPair(m, low, high)
  BY <1>8 DEF TheRun!PutPair, PutPair
<1>. QED  BY <1>1, <1>2, <1>3, <1>4, <1>5, <1>6, <1>7, <1>8, <1>9, <1>10, <1>11, <1>13, <1>14, <1>15, <1>16, <1>17, <1>18, <1>19, <1>20, <1>21, <1>22, <1>23, <1>24, <1>25

\* Instructions.
LEMMA SameInstructions ==
  /\ \A m, i : TheRun!Execute(m, i) = Execute(m, i)
<1>1. ASSUME NEW op, NEW a, NEW b, NEW f
      PROVE  TheRun!BinaryResult(op, a, b, f) = BinaryResult(op, a, b, f)
  BY SameArithmetic, Zenon DEF TheRun!BinaryResult, BinaryResult
<1>2. \A m, i : TheRun!Compute(m, i) = Compute(m, i)
  BY <1>1, SameEffects DEF TheRun!Compute, Compute
<1>3. \A m, i : TheRun!ExecBinary(m, i) = ExecBinary(m, i)
  BY <1>2, SameEffects DEF TheRun!ExecBinary, ExecBinary
<1>4. \A m, i : TheRun!ExecCompare(m, i) = ExecCompare(m, i)
  BY <1>2, SameEffects DEF TheRun!ExecCompare, ExecCompare
<1>5. \A op, a, f : TheRun!UnaryResult(op, a, f) = UnaryResult(op, a, f)
  BY SameArithmetic DEF TheRun!UnaryResult, UnaryResult
<1>6. \A m, i : TheRun!ExecUnary(m, i) = ExecUnary(m, i)
  BY <1>5, SameEffects DEF TheRun!ExecUnary, ExecUnary
<1>7. \A m, i : TheRun!ExecMul(m, i) = ExecMul(m, i)
  BY SameEffects, SameArithmetic DEF TheRun!ExecMul, ExecMul
<1>8. \A m, i : TheRun!ExecImul(m, i) = ExecImul(m, i)
  BY SameEffects, SameArithmetic DEF TheRun!ExecImul, ExecImul
<1>9. \A m, i : TheRun!ExecImul2(m, i) = ExecImul2(m, i)
  BY SameEffects, SameArithmetic DEF TheRun!ExecImul2, ExecImul2
<1>10. \A m, i : TheRun!ExecDiv(m, i) = ExecDiv(m, i)
  BY SameEffects, SameArithmetic DEF TheRun!ExecDiv, ExecDiv
<1>11. \A m : TheRun!ExecCqo(m) = ExecCqo(m)
  BY SameEffects, SameArithmetic DEF TheRun!ExecCqo, ExecCqo
<1>12. \A m, i : TheRun!ExecShift(m, i) = ExecShift(m, i)
  BY SameEffects, SameArithmetic DEF TheRun!ExecShift, ExecShift
<1>13. \A m, i : TheRun!ExecMov(m, i) = ExecMov(m, i)
  BY SameEffects DEF TheRun!ExecMov, ExecMov
<1>14. \A m, i : TheRun!ExecLea(m, i) = ExecLea(m, i)
  BY SameEffects DEF TheRun!ExecLea, ExecLea
<1>15. \A m, i : TheRun!ExecXchg(m, i) = ExecXchg(m, i)
  BY SameEffects DEF TheRun!ExecXchg, ExecXchg
<1>16. \A m, i : TheRun!ExecCmov(m, i) = ExecCmov(m, i)
  BY SameEffects, SameArithmetic DEF TheRun!ExecCmov, ExecCmov
<1>17. \A m, i : TheRun!ExecPush(m, i) = ExecPush(m, i)
  BY SameEffects DEF TheRun!ExecPush, ExecPush
<1>18. \A m, i : TheRun!ExecPop(m, i) = ExecPop(m, i)
  BY SameEffects DEF TheRun!ExecPop, ExecPop
<1>19. \A m : TheRun!ExecLeave(m) = ExecLeave(m)
  BY SameEffects DEF TheRun!ExecLeave, ExecLeave
<1>20. \A m, o : TheRun!BranchFault(m, o) = BranchFault(m, o)
  BY SameEffects DEF TheRun!BranchFault, BranchFault
<1>21. \A m, o : TheRun!BranchDest(m, o) = BranchDest(m, o)
  BY SameEffects DEF TheRun!BranchDest, BranchDest
<1>22. \A m, i : TheRun!ExecJmp(m, i) = ExecJmp(m, i)
  BY <1>20, <1>21, SameEffects DEF TheRun!ExecJmp, ExecJmp
<1>23. \A m, i : TheRun!ExecJcc(m, i) = ExecJcc(m, i)
  BY <1>21, SameEffects, SameArithmetic DEF TheRun!ExecJcc, ExecJcc
<1>24. \A m, i : TheRun!ExecCall(m, i) = ExecCall(m, i)
  BY <1>20, <1>21, SameEffects DEF TheRun!ExecCall, ExecCall
<1>25. \A m, i : TheRun!ExecRet(m, i) = ExecRet(m, i)
  BY SameEffects DEF TheRun!ExecRet, ExecRet
<1>26. \A m : TheRun!ExecWrite(m) = ExecWrite(m)
  BY SameEffects, SameSets DEF TheRun!ExecWrite, ExecWrite
<1>27. \A m : TheRun!ExecSyscall(m) = ExecSyscall(m)
  BY <1>26, SameEffects, SameSets DEF TheRun!ExecSyscall, ExecSyscall
<1>28. \A m, i : TheRun!Execute(m, i) = Execute(m, i)
  BY <1>3, <1>4, <1>6, <1>7, <1>8, <1>9, <1>10, <1>11, <1>12, <1>13, <1>14, <1>15, <1>16, <1>17, <1>18, <1>19, <1>22, <1>23, <1>24, <1>25, <1>27, SameEffects, SameSets DEF TheRun!Execute, Execute
<1>. QED  BY <1>28

\* A step.
LEMMA SameStep ==
  /\ \A c : TheRun!Current(c) = Current(c)
  /\ \A c : TheRun!DecodeFault(c) = DecodeFault(c)
  /\ \A c : TheRun!Step(c) = Step(c)
  /\ \A c, m : TheRun!EffectsOf(c, m) = EffectsOf(c, m)
<1>1. \A c : TheRun!Window(c) = Window(c)
  BY SameMemory DEF TheRun!Window, Window
<1>2. \A c : TheRun!Current(c) = Current(c)
  BY <1>1 DEF TheRun!Current, Current
<1>3. \A c : TheRun!DecodeFault(c) = DecodeFault(c)
  BY <1>1, <1>2 DEF TheRun!DecodeFault, DecodeFault
<1>4. \A c : TheRun!Step(c) = Step(c)
  BY <1>2, <1>3, SameEffects, SameInstructions DEF TheRun!Step, Step
<1>5. \A c, m : TheRun!EffectsOf(c, m) = EffectsOf(c, m)
  BY <1>2 DEF TheRun!EffectsOf, EffectsOf
<1>. QED  BY <1>2, <1>3, <1>4, <1>5

-----------------------------------------------------------------------------
(***************************************************************************)
(* A machine that has printed o and e before steps as one that has not: no *)
(* instruction reads what was printed.  Twins are two steps in progress    *)
(* that differ in that only.                                               *)
(***************************************************************************)
Machine(regs, rip, flags, mem, halt, out, err) ==
  [regs |-> regs, rip |-> rip, flags |-> flags, mem |-> mem, halt |-> halt,
   stdout |-> out, stderr |-> err]
Progressed(c, rw, mw, f) == [cpu |-> c, regWrites |-> rw, memWrites |-> mw, fault |-> f]

Twins(o, e, m, n) ==
  \E regs, rip, flags, mem, halt, out, err, rw, mw, f :
    /\ m = Progressed(Machine(regs, rip, flags, mem, halt, out, err), rw, mw, f)
    /\ n = Progressed(Machine(regs, rip, flags, mem, halt, o \o out, e \o err), rw, mw, f)

\* What twins have in common.
LEMMA TwinsAgree ==
  ASSUME NEW o, NEW e, NEW m, NEW n, Twins(o, e, m, n)
  PROVE  /\ \A r : RegOf(n, r) = RegOf(m, r)
         /\ n.cpu.mem = m.cpu.mem /\ n.cpu.flags = m.cpu.flags /\ n.cpu.rip = m.cpu.rip
         /\ n.cpu.halt = m.cpu.halt /\ n.fault = m.fault
         /\ n.regWrites = m.regWrites /\ n.memWrites = m.memWrites
BY DEF Twins, Machine, Progressed, RegOf

\* The writes that an instruction is made of, on a machine with its parts.
LEMMA Writes ==
  ASSUME NEW regs, NEW rip, NEW flags, NEW mem, NEW halt, NEW out, NEW err,
         NEW rw, NEW mw, NEW f, NEW c, NEW m,
         c = Machine(regs, rip, flags, mem, halt, out, err), m = Progressed(c, rw, mw, f)
  PROVE  /\ \A g : Raise(m, g) = Progressed(c, rw, mw, g)
         /\ \A r, v : PutReg(m, r, v) =
              Progressed(Machine([regs EXCEPT ![r] = v], rip, flags, mem, halt, out, err),
                   Append(rw, [reg |-> r, before |-> regs[r], after |-> v]), mw, f)
         /\ \A g : SetFlags(m, g) =
              Progressed(Machine(regs, rip, g, mem, halt, out, err), rw, mw, f)
         /\ \A a : SetRip(m, a) =
              Progressed(Machine(regs, a, flags, mem, halt, out, err), rw, mw, f)
         /\ \A h : SetHalt(m, h) =
              Progressed(Machine(regs, rip, flags, mem, h, out, err), rw, mw, f)
<1>1. \A g : Raise(m, g) = Progressed(c, rw, mw, g)
  BY DEF Progressed, Raise
<1>2. \A r, v : PutReg(m, r, v) =
              Progressed(Machine([regs EXCEPT ![r] = v], rip, flags, mem, halt, out, err),
                   Append(rw, [reg |-> r, before |-> regs[r], after |-> v]), mw, f)
  <2> SUFFICES ASSUME NEW r, NEW v
               PROVE  PutReg(m, r, v) =
                 Progressed(Machine([regs EXCEPT ![r] = v], rip, flags, mem, halt, out, err),
                   Append(rw, [reg |-> r, before |-> regs[r], after |-> v]), mw, f)
    OBVIOUS
  <2> DEFINE R == [regs EXCEPT ![r] = v]
             w == [reg |-> r, before |-> regs[r], after |-> v]
  <2>1. m.cpu = c /\ m.regWrites = rw /\ c.regs = regs
    BY DEF Progressed, Machine
  <2>2. PutReg(m, r, v) = [m EXCEPT !.cpu = [c EXCEPT !.regs = R], !.regWrites = Append(rw, w)]
    BY <2>1 DEF PutReg
  <2> HIDE DEF R, w
  <2>3. [c EXCEPT !.regs = R] = Machine(R, rip, flags, mem, halt, out, err)
    BY DEF Machine
  <2>4. [m EXCEPT !.cpu = [c EXCEPT !.regs = R], !.regWrites = Append(rw, w)]
          = Progressed([c EXCEPT !.regs = R], Append(rw, w), mw, f)
    <3> DEFINE C == [c EXCEPT !.regs = R]
               X == Append(rw, w)
    <3> HIDE DEF C, X
    <3>1. [m EXCEPT !.cpu = C] = Progressed(C, rw, mw, f)
      BY DEF Progressed
    <3>2. [Progressed(C, rw, mw, f) EXCEPT !.regWrites = X] = Progressed(C, X, mw, f)
      BY DEF Progressed
    <3>3. [m EXCEPT !.cpu = C, !.regWrites = X] = Progressed(C, X, mw, f)
      BY <3>1, <3>2, Zenon
    <3>. QED  BY <3>3 DEF C, X
  <2>. QED  BY <2>2, <2>3, <2>4 DEF R, w
<1>3. \A g : SetFlags(m, g) =
              Progressed(Machine(regs, rip, g, mem, halt, out, err), rw, mw, f)
  BY DEF Progressed, Machine, SetFlags, WithCpu
<1>4. \A a : SetRip(m, a) =
              Progressed(Machine(regs, a, flags, mem, halt, out, err), rw, mw, f)
  BY DEF Progressed, Machine, SetRip, WithCpu
<1>5. \A h : SetHalt(m, h) =
              Progressed(Machine(regs, rip, flags, mem, h, out, err), rw, mw, f)
  BY DEF Progressed, Machine, SetHalt, WithCpu
<1>. QED  BY <1>1, <1>2, <1>3, <1>4, <1>5

LEMMA StoreParts ==
  ASSUME NEW regs, NEW rip, NEW flags, NEW mem, NEW halt, NEW out, NEW err,
         NEW rw, NEW mw, NEW f, NEW c, NEW m, NEW a, NEW cells,
         c = Machine(regs, rip, flags, mem, halt, out, err), m = Progressed(c, rw, mw, f)
  PROVE  LET at == Locate(mem, a, Len(cells), "w")
             w == [addr |-> a, before |-> ReadCells(mem, at, Len(cells)), after |-> cells]
         IN  Store(m, a, cells) =
               IF at.fault # "none" THEN Progressed(c, rw, mw, at.fault)
               ELSE Progressed(Machine(regs, rip, flags, WriteCells(mem, at, cells), halt,
                                       out, err), rw, Append(mw, w), f)
<1> DEFINE at == Locate(mem, a, Len(cells), "w")
           w == [addr |-> a, before |-> ReadCells(mem, at, Len(cells)), after |-> cells]
           M == WriteCells(mem, at, cells)
<1>1. m.cpu = c /\ m.memWrites = mw /\ c.mem = mem
  BY DEF Progressed, Machine
<1>2. Store(m, a, cells) =
        Unless(at.fault, m, [m EXCEPT !.cpu = [c EXCEPT !.mem = M], !.memWrites = Append(mw, w)])
  BY <1>1, Zenon DEF Store
<1> HIDE DEF at, w, M
<1>3. [c EXCEPT !.mem = M] = Machine(regs, rip, flags, M, halt, out, err)
  BY DEF Machine
<1>4. [m EXCEPT !.cpu = [c EXCEPT !.mem = M], !.memWrites = Append(mw, w)]
        = Progressed([c EXCEPT !.mem = M], rw, Append(mw, w), f)
  <2> DEFINE C == [c EXCEPT !.mem = M]
             X == Append(mw, w)
  <2> HIDE DEF C, X
  <2>1. [m EXCEPT !.cpu = C] = Progressed(C, rw, mw, f)
    BY DEF Progressed
  <2>2. [Progressed(C, rw, mw, f) EXCEPT !.memWrites = X] = Progressed(C, rw, X, f)
    BY DEF Progressed
  <2>3. [m EXCEPT !.cpu = C, !.memWrites = X] = Progressed(C, rw, X, f)
    BY <2>1, <2>2, Zenon
  <2>. QED  BY <2>3 DEF C, X
<1>5. Store(m, a, cells) =
        IF at.fault # "none" THEN Progressed(c, rw, mw, at.fault)
        ELSE Progressed(Machine(regs, rip, flags, M, halt, out, err), rw, Append(mw, w), f)
  BY <1>2, <1>3, <1>4, Writes DEF Unless
<1>. QED  BY <1>5 DEF at, w, M

\* Twins, put together.
LEMMA TwinsMade ==
  ASSUME NEW o, NEW e, NEW regs, NEW rip, NEW flags, NEW mem, NEW halt, NEW out, NEW err,
         NEW rw, NEW mw, NEW f
  PROVE  Twins(o, e, Progressed(Machine(regs, rip, flags, mem, halt, out, err), rw, mw, f),
               Progressed(Machine(regs, rip, flags, mem, halt, o \o out, e \o err), rw, mw, f))
BY Zenon DEF Twins

\* The writes keep twins twins.
LEMMA TwinWrites ==
  ASSUME NEW o, NEW e, NEW m, NEW n, Twins(o, e, m, n)
  PROVE  /\ \A g : Twins(o, e, Raise(m, g), Raise(n, g))
         /\ \A r, v : Twins(o, e, PutReg(m, r, v), PutReg(n, r, v))
         /\ \A g : Twins(o, e, SetFlags(m, g), SetFlags(n, g))
         /\ \A a : Twins(o, e, SetRip(m, a), SetRip(n, a))
         /\ \A h : Twins(o, e, SetHalt(m, h), SetHalt(n, h))
         /\ \A a, cells : Twins(o, e, Store(m, a, cells), Store(n, a, cells))
<1>1. PICK regs, rip, flags, mem, halt, out, err, rw, mw, f :
        /\ m = Progressed(Machine(regs, rip, flags, mem, halt, out, err), rw, mw, f)
        /\ n = Progressed(Machine(regs, rip, flags, mem, halt, o \o out, e \o err), rw, mw, f)
  BY Zenon DEF Twins
<1> DEFINE c == Machine(regs, rip, flags, mem, halt, out, err)
           d == Machine(regs, rip, flags, mem, halt, o \o out, e \o err)
<1>2. ASSUME NEW g
      PROVE  Twins(o, e, Raise(m, g), Raise(n, g))
  <2>1. Raise(m, g) = Progressed(c, rw, mw, g) /\ Raise(n, g) = Progressed(d, rw, mw, g)
    BY <1>1, Writes
  <2>. QED  BY <2>1, TwinsMade
<1>3. ASSUME NEW r, NEW v
      PROVE  Twins(o, e, PutReg(m, r, v), PutReg(n, r, v))
  <2> DEFINE R == [regs EXCEPT ![r] = v]
             W == Append(rw, [reg |-> r, before |-> regs[r], after |-> v])
  <2>1. /\ PutReg(m, r, v) = Progressed(Machine(R, rip, flags, mem, halt, out, err), W, mw, f)
        /\ PutReg(n, r, v)
             = Progressed(Machine(R, rip, flags, mem, halt, o \o out, e \o err), W, mw, f)
    BY <1>1, Writes
  <2> HIDE DEF R, W
  <2>. QED  BY <2>1, TwinsMade
<1>4. ASSUME NEW g
      PROVE  Twins(o, e, SetFlags(m, g), SetFlags(n, g))
  <2>1. /\ SetFlags(m, g) = Progressed(Machine(regs, rip, g, mem, halt, out, err), rw, mw, f)
        /\ SetFlags(n, g)
             = Progressed(Machine(regs, rip, g, mem, halt, o \o out, e \o err), rw, mw, f)
    BY <1>1, Writes
  <2>. QED  BY <2>1, TwinsMade
<1>5. ASSUME NEW a
      PROVE  Twins(o, e, SetRip(m, a), SetRip(n, a))
  <2>1. /\ SetRip(m, a) = Progressed(Machine(regs, a, flags, mem, halt, out, err), rw, mw, f)
        /\ SetRip(n, a)
             = Progressed(Machine(regs, a, flags, mem, halt, o \o out, e \o err), rw, mw, f)
    BY <1>1, Writes
  <2>. QED  BY <2>1, TwinsMade
<1>6. ASSUME NEW h
      PROVE  Twins(o, e, SetHalt(m, h), SetHalt(n, h))
  <2>1. /\ SetHalt(m, h) = Progressed(Machine(regs, rip, flags, mem, h, out, err), rw, mw, f)
        /\ SetHalt(n, h)
             = Progressed(Machine(regs, rip, flags, mem, h, o \o out, e \o err), rw, mw, f)
    BY <1>1, Writes
  <2>. QED  BY <2>1, TwinsMade
<1>7. ASSUME NEW a, NEW cells
      PROVE  Twins(o, e, Store(m, a, cells), Store(n, a, cells))
  <2> DEFINE at == Locate(mem, a, Len(cells), "w")
             W == Append(mw, [addr |-> a, before |-> ReadCells(mem, at, Len(cells)),
                              after |-> cells])
             M == WriteCells(mem, at, cells)
  <2>1. /\ Store(m, a, cells) =
             IF at.fault # "none" THEN Progressed(c, rw, mw, at.fault)
             ELSE Progressed(Machine(regs, rip, flags, M, halt, out, err), rw, W, f)
        /\ Store(n, a, cells) =
             IF at.fault # "none" THEN Progressed(d, rw, mw, at.fault)
             ELSE Progressed(Machine(regs, rip, flags, M, halt, o \o out, e \o err), rw, W, f)
    BY <1>1, StoreParts
  <2> HIDE DEF at, W, M
  <2>. QED  BY <2>1, TwinsMade
<1>. QED  BY <1>2, <1>3, <1>4, <1>5, <1>6, <1>7

\* Twins read the same.
LEMMA TwinReads ==
  ASSUME NEW o, NEW e, NEW m, NEW n, Twins(o, e, m, n)
  PROVE  /\ \A a, k : LoadFault(n, a, k) = LoadFault(m, a, k) /\ Loaded(n, a, k) = Loaded(m, a, k)
         /\ \A x : /\ EffectiveAddress(n, x) = EffectiveAddress(m, x)
                   /\ ReadFault(n, x) = ReadFault(m, x)
                   /\ ReadOp(n, x) = ReadOp(m, x)
                   /\ BranchFault(n, x) = BranchFault(m, x)
                   /\ BranchDest(n, x) = BranchDest(m, x)
         /\ \A x, y : ReadsFault(n, x, y) = ReadsFault(m, x, y)
         /\ \A i : Compute(n, i) = Compute(m, i)
         /\ PopFault(n) = PopFault(m) /\ Popped(n) = Popped(m)
<1>0. /\ \A r : RegOf(n, r) = RegOf(m, r)
      /\ n.cpu.mem = m.cpu.mem /\ n.cpu.flags = m.cpu.flags /\ n.cpu.rip = m.cpu.rip
  BY TwinsAgree
<1>1. ASSUME NEW a, NEW k
      PROVE  LoadFault(n, a, k) = LoadFault(m, a, k) /\ Loaded(n, a, k) = Loaded(m, a, k)
  BY <1>0, Zenon DEF LoadFault, Loaded
<1>2. ASSUME NEW x
      PROVE  EffectiveAddress(n, x) = EffectiveAddress(m, x)
  BY <1>0, Zenon DEF EffectiveAddress
<1>3. ASSUME NEW x
      PROVE  ReadFault(n, x) = ReadFault(m, x)
  BY <1>1, <1>2, Zenon DEF ReadFault
<1>4. ASSUME NEW x
      PROVE  ReadOp(n, x) = ReadOp(m, x)
  BY <1>1, <1>2, <1>0, Zenon DEF ReadOp
<1>5. ASSUME NEW x
      PROVE  BranchFault(n, x) = BranchFault(m, x) /\ BranchDest(n, x) = BranchDest(m, x)
  BY <1>3, <1>4, <1>0, Zenon DEF BranchFault, BranchDest
<1>6. ASSUME NEW x, NEW y
      PROVE  ReadsFault(n, x, y) = ReadsFault(m, x, y)
  BY <1>3, Zenon DEF ReadsFault
<1>7. ASSUME NEW i
      PROVE  Compute(n, i) = Compute(m, i)
  <2>1. ReadOp(n, i.dst) = ReadOp(m, i.dst) /\ ReadOp(n, i.src) = ReadOp(m, i.src)
    BY <1>4
  <2>. QED  BY <1>0, <2>1 DEF Compute
<1>8. PopFault(n) = PopFault(m) /\ Popped(n) = Popped(m)
  BY <1>1, <1>0, Zenon DEF PopFault, Popped
<1>. QED  BY <1>1, <1>2, <1>3, <1>4, <1>5, <1>6, <1>7, <1>8

\* Twins take the same path.
LEMMA TwinPaths ==
  ASSUME NEW o, NEW e, NEW m, NEW n, Twins(o, e, m, n), NEW x, NEW y, Twins(o, e, x, y)
  PROVE  /\ \A f : Twins(o, e, Unless(f, m, x), Unless(f, n, y))
         /\ Twins(o, e, AfterOk(m, x), AfterOk(n, y))
BY TwinsAgree, TwinWrites DEF Unless, AfterOk

LEMMA TwinFault ==
  ASSUME NEW o, NEW e, NEW m, NEW n, Twins(o, e, m, n), NEW f, f # "none", NEW x, NEW y
  PROVE  Twins(o, e, Unless(f, m, x), Unless(f, n, y))
BY TwinWrites DEF Unless

\* The operations that instructions share.
LEMMA TwinOperations ==
  ASSUME NEW o, NEW e, NEW m, NEW n, Twins(o, e, m, n)
  PROVE  /\ \A x, v : Twins(o, e, WriteOp(m, x, v), WriteOp(n, x, v))
         /\ \A v : Twins(o, e, Push(m, v), Push(n, v))
         /\ Twins(o, e, DropTop(m), DropTop(n))
         /\ \A low, high : Twins(o, e, PutPair(m, low, high), PutPair(n, low, high))
         /\ \A b : Twins(o, e, SetOverflow(m, b), SetOverflow(n, b))
<1>1. ASSUME NEW x, NEW v
      PROVE  Twins(o, e, WriteOp(m, x, v), WriteOp(n, x, v))
  <2>1. CASE x.mode = "reg"
    <3>1. /\ WriteOp(m, x, v) = PutReg(m, x.reg, v)
          /\ WriteOp(n, x, v) = PutReg(n, x.reg, v)
      BY <2>1 DEF WriteOp
    <3>. QED  BY <3>1, TwinWrites
  <2>2. CASE x.mode = "mem"
    <3>1. /\ WriteOp(m, x, v) = Store(m, EffectiveAddress(m, x), <<v>>)
          /\ WriteOp(n, x, v) = Store(n, EffectiveAddress(m, x), <<v>>)
      BY <2>2, TwinReads DEF WriteOp
    <3>. QED  BY <3>1, TwinWrites
  <2>3. CASE x.mode # "reg" /\ x.mode # "mem"
    <3>1. /\ WriteOp(m, x, v) = Raise(m, "unsupported")
          /\ WriteOp(n, x, v) = Raise(n, "unsupported")
      BY <2>3 DEF WriteOp
    <3>. QED  BY <3>1, TwinWrites
  <2>. QED  BY <2>1, <2>2, <2>3
<1>2. ASSUME NEW v
      PROVE  Twins(o, e, Push(m, v), Push(n, v))
  <2> DEFINE sp == Trunc(RegOf(m, "rsp") - 1)
  <2>1. /\ Push(m, v) = Store(PutReg(m, "rsp", sp), sp, <<v>>)
        /\ Push(n, v) = Store(PutReg(n, "rsp", sp), sp, <<v>>)
    <3>1. RegOf(n, "rsp") = RegOf(m, "rsp")
      BY TwinsAgree
    <3>. QED  BY <3>1, Zenon DEF Push
  <2> HIDE DEF sp
  <2>2. Twins(o, e, PutReg(m, "rsp", sp), PutReg(n, "rsp", sp))
    BY TwinWrites
  <2>. QED  BY <2>1, <2>2, TwinWrites
<1>3. Twins(o, e, DropTop(m), DropTop(n))
  <2>1. RegOf(n, "rsp") = RegOf(m, "rsp")
    BY TwinsAgree
  <2>. QED  BY <2>1, TwinWrites DEF DropTop
<1>4. ASSUME NEW low, NEW high
      PROVE  Twins(o, e, PutPair(m, low, high), PutPair(n, low, high))
  <2>1. Twins(o, e, PutReg(m, "rax", low), PutReg(n, "rax", low))
    BY TwinWrites
  <2>2. Twins(o, e, PutReg(PutReg(m, "rax", low), "rdx", high),
                    PutReg(PutReg(n, "rax", low), "rdx", high))
    BY <2>1, TwinWrites
  <2>. QED  BY <2>2 DEF PutPair
<1>5. ASSUME NEW b
      PROVE  Twins(o, e, SetOverflow(m, b), SetOverflow(n, b))
  <2>1. n.cpu.flags = m.cpu.flags
    BY TwinsAgree
  <2>. QED  BY <2>1, TwinWrites DEF SetOverflow
<1>. QED  BY <1>1, <1>2, <1>3, <1>4, <1>5

\* Every instruction keeps twins twins.
LEMMA TwinCalculations ==
  ASSUME NEW o, NEW e, NEW m, NEW n, Twins(o, e, m, n), NEW i
  PROVE  /\ Twins(o, e, ExecBinary(m, i), ExecBinary(n, i))
         /\ Twins(o, e, ExecCompare(m, i), ExecCompare(n, i))
         /\ Twins(o, e, ExecUnary(m, i), ExecUnary(n, i))
         /\ Twins(o, e, ExecShift(m, i), ExecShift(n, i))
<1> DEFINE f == ReadsFault(m, i.dst, i.src)
           r == Compute(m, i)
<1>1. /\ ReadsFault(n, i.dst, i.src) = f /\ Compute(n, i) = r
      /\ ReadFault(n, i.dst) = ReadFault(m, i.dst)
      /\ ReadOp(n, i.dst) = ReadOp(m, i.dst) /\ ReadOp(n, i.src) = ReadOp(m, i.src)
      /\ n.cpu.flags = m.cpu.flags
  BY TwinReads, TwinsAgree
<1>2. Twins(o, e, ExecBinary(m, i), ExecBinary(n, i))
  <2> DEFINE x == WriteOp(SetFlags(m, r.flags), i.dst, r.val)
             y == WriteOp(SetFlags(n, r.flags), i.dst, r.val)
  <2>1. Twins(o, e, SetFlags(m, r.flags), SetFlags(n, r.flags))
    BY TwinWrites
  <2>2. Twins(o, e, x, y)
    BY <2>1, TwinOperations
  <2>3. ExecBinary(m, i) = Unless(f, m, x) /\ ExecBinary(n, i) = Unless(f, n, y)
    BY <1>1 DEF ExecBinary
  <2> HIDE DEF f, x, y
  <2>. QED  BY <2>2, <2>3, TwinPaths
<1>3. Twins(o, e, ExecCompare(m, i), ExecCompare(n, i))
  <2>1. Twins(o, e, SetFlags(m, r.flags), SetFlags(n, r.flags))
    BY TwinWrites
  <2>2. /\ ExecCompare(m, i) = Unless(f, m, SetFlags(m, r.flags))
        /\ ExecCompare(n, i) = Unless(f, n, SetFlags(n, r.flags))
    BY <1>1 DEF ExecCompare
  <2> HIDE DEF f, r
  <2>. QED  BY <2>1, <2>2, TwinPaths
<1>4. Twins(o, e, ExecUnary(m, i), ExecUnary(n, i))
  <2> DEFINE u == UnaryResult(i.op, ReadOp(m, i.dst), m.cpu.flags)
             g == ReadFault(m, i.dst)
             x == WriteOp(SetFlags(m, u.flags), i.dst, u.val)
             y == WriteOp(SetFlags(n, u.flags), i.dst, u.val)
  <2>1. ExecUnary(m, i) = Unless(g, m, x) /\ ExecUnary(n, i) = Unless(g, n, y)
    BY <1>1, Zenon DEF ExecUnary
  <2>2. Twins(o, e, SetFlags(m, u.flags), SetFlags(n, u.flags))
    BY TwinWrites
  <2> HIDE DEF u, g
  <2>3. Twins(o, e, x, y)
    BY <2>2, TwinOperations
  <2> HIDE DEF x, y
  <2>. QED  BY <2>1, <2>3, TwinPaths
<1>5. Twins(o, e, ExecShift(m, i), ExecShift(n, i))
  <2> DEFINE u == Shift(i.op, ReadOp(m, i.dst), ReadOp(m, i.src), m.cpu.flags, WordBits)
             x == WriteOp(m, i.dst, u.val)
             y == WriteOp(n, i.dst, u.val)
  <2>1. /\ ExecShift(m, i) = Unless(f, m, AfterOk(x, SetFlags(x, u.flags)))
        /\ ExecShift(n, i) = Unless(f, n, AfterOk(y, SetFlags(y, u.flags)))
    BY <1>1, Zenon DEF ExecShift
  <2> HIDE DEF u, f
  <2>2. Twins(o, e, x, y)
    BY TwinOperations
  <2> HIDE DEF x, y
  <2>3. Twins(o, e, SetFlags(x, u.flags), SetFlags(y, u.flags))
    BY <2>2, TwinWrites
  <2>4. Twins(o, e, AfterOk(x, SetFlags(x, u.flags)), AfterOk(y, SetFlags(y, u.flags)))
    BY <2>2, <2>3, TwinPaths
  <2>. QED  BY <2>1, <2>4, TwinPaths
<1>. QED  BY <1>2, <1>3, <1>4, <1>5

LEMMA TwinMultiplications ==
  ASSUME NEW o, NEW e, NEW m, NEW n, Twins(o, e, m, n), NEW i
  PROVE  /\ Twins(o, e, ExecMul(m, i), ExecMul(n, i))
         /\ Twins(o, e, ExecImul(m, i), ExecImul(n, i))
         /\ Twins(o, e, ExecImul2(m, i), ExecImul2(n, i))
         /\ Twins(o, e, ExecDiv(m, i), ExecDiv(n, i))
         /\ Twins(o, e, ExecCqo(m), ExecCqo(n))
<1> DEFINE g == ReadFault(m, i.dst)
<1>1. /\ ReadsFault(n, i.dst, i.src) = ReadsFault(m, i.dst, i.src)
      /\ ReadFault(n, i.dst) = g
      /\ ReadOp(n, i.dst) = ReadOp(m, i.dst) /\ ReadOp(n, i.src) = ReadOp(m, i.src)
      /\ RegOf(n, "rax") = RegOf(m, "rax") /\ RegOf(n, "rdx") = RegOf(m, "rdx")
  BY TwinReads, TwinsAgree
<1>2. ASSUME NEW low, NEW high, NEW b
      PROVE  /\ Twins(o, e, PutPair(m, low, high), PutPair(n, low, high))
             /\ Twins(o, e, SetOverflow(PutPair(m, low, high), b),
                            SetOverflow(PutPair(n, low, high), b))
  <2>1. Twins(o, e, PutPair(m, low, high), PutPair(n, low, high))
    BY TwinOperations
  <2>. QED  BY <2>1, TwinOperations
<1>3. Twins(o, e, ExecMul(m, i), ExecMul(n, i))
  <2> DEFINE p == Product(RegOf(m, "rax"), ReadOp(m, i.dst), WordBits)
             x == SetOverflow(PutPair(m, p.low, p.high), p.high # 0)
             y == SetOverflow(PutPair(n, p.low, p.high), p.high # 0)
  <2>1. ExecMul(m, i) = Unless(g, m, x) /\ ExecMul(n, i) = Unless(g, n, y)
    BY <1>1 DEF ExecMul
  <2>2. Twins(o, e, x, y)
    BY <1>2
  <2> HIDE DEF g, x, y
  <2>. QED  BY <2>1, <2>2, TwinPaths
<1>4. Twins(o, e, ExecImul(m, i), ExecImul(n, i))
  <2> DEFINE a == Signed(RegOf(m, "rax"), WordBits)
             b == Signed(ReadOp(m, i.dst), WordBits)
             p == Product(a, b, WordBits)
             x == SetOverflow(PutPair(m, p.low, p.high), Signed(p.low, WordBits) # a * b)
             y == SetOverflow(PutPair(n, p.low, p.high), Signed(p.low, WordBits) # a * b)
  <2>1. ExecImul(m, i) = Unless(g, m, x) /\ ExecImul(n, i) = Unless(g, n, y)
    BY <1>1 DEF ExecImul
  <2>2. Twins(o, e, x, y)
    BY <1>2
  <2> HIDE DEF g, x, y
  <2>. QED  BY <2>1, <2>2, TwinPaths
<1>5. Twins(o, e, ExecImul2(m, i), ExecImul2(n, i))
  <2> DEFINE a == Signed(ReadOp(m, i.dst), WordBits)
             b == Signed(ReadOp(m, i.src), WordBits)
             f == ReadsFault(m, i.dst, i.src)
             low == Trunc(a * b)
             over == Signed(low, WordBits) # a * b
             x == WriteOp(m, i.dst, low)
             y == WriteOp(n, i.dst, low)
  <2>1. /\ ExecImul2(m, i) = Unless(f, m, AfterOk(x, SetOverflow(x, over)))
        /\ ExecImul2(n, i) = Unless(f, n, AfterOk(y, SetOverflow(y, over)))
    BY <1>1, Zenon DEF ExecImul2
  <2> HIDE DEF a, b, f, low, over
  <2>2. Twins(o, e, x, y)
    BY TwinOperations
  <2> HIDE DEF x, y
  <2>3. Twins(o, e, SetOverflow(x, over), SetOverflow(y, over))
    BY <2>2, TwinOperations
  <2>4. Twins(o, e, AfterOk(x, SetOverflow(x, over)), AfterOk(y, SetOverflow(y, over)))
    BY <2>2, <2>3, TwinPaths
  <2>. QED  BY <2>1, <2>4, TwinPaths
<1>6. Twins(o, e, ExecDiv(m, i), ExecDiv(n, i))
  <2> DEFINE r == Divide(i.op = "idiv", RegOf(m, "rdx"), RegOf(m, "rax"), ReadOp(m, i.dst),
                         WordBits)
             x == Unless(r.fault, m, PutPair(m, r.quot, r.rem))
             y == Unless(r.fault, n, PutPair(n, r.quot, r.rem))
  <2>1. ExecDiv(m, i) = Unless(g, m, x) /\ ExecDiv(n, i) = Unless(g, n, y)
    BY <1>1 DEF ExecDiv
  <2> HIDE DEF r
  <2>2. Twins(o, e, x, y)
    BY <1>2, TwinPaths
  <2> HIDE DEF g, x, y
  <2>. QED  BY <2>1, <2>2, TwinPaths
<1>7. Twins(o, e, ExecCqo(m), ExecCqo(n))
  <2>1. RegOf(n, "rax") = RegOf(m, "rax")
    BY <1>1
  <2>. QED  BY <2>1, TwinWrites DEF ExecCqo
<1>. QED  BY <1>3, <1>4, <1>5, <1>6, <1>7

LEMMA TwinMoves ==
  ASSUME NEW o, NEW e, NEW m, NEW n, Twins(o, e, m, n), NEW i
  PROVE  /\ Twins(o, e, ExecMov(m, i), ExecMov(n, i))
         /\ Twins(o, e, ExecLea(m, i), ExecLea(n, i))
         /\ Twins(o, e, ExecXchg(m, i), ExecXchg(n, i))
         /\ Twins(o, e, ExecCmov(m, i), ExecCmov(n, i))
<1>1. /\ ReadsFault(n, i.dst, i.src) = ReadsFault(m, i.dst, i.src)
      /\ ReadFault(n, i.src) = ReadFault(m, i.src)
      /\ ReadOp(n, i.dst) = ReadOp(m, i.dst) /\ ReadOp(n, i.src) = ReadOp(m, i.src)
      /\ EffectiveAddress(n, i.src) = EffectiveAddress(m, i.src)
      /\ n.cpu.flags = m.cpu.flags
  BY TwinReads, TwinsAgree
<1> DEFINE v == ReadOp(m, i.src)
           x == WriteOp(m, i.dst, v)
           y == WriteOp(n, i.dst, v)
<1>2. Twins(o, e, x, y)
  BY TwinOperations
<1>3. Twins(o, e, ExecMov(m, i), ExecMov(n, i))
  <2> DEFINE f == ReadFault(m, i.src)
  <2>1. ExecMov(m, i) = Unless(f, m, x) /\ ExecMov(n, i) = Unless(f, n, y)
    BY <1>1 DEF ExecMov
  <2> HIDE DEF f, x, y
  <2>. QED  BY <1>2, <2>1, TwinPaths
<1>4. Twins(o, e, ExecLea(m, i), ExecLea(n, i))
  BY <1>1, TwinOperations, TwinWrites DEF ExecLea
<1>5. Twins(o, e, ExecXchg(m, i), ExecXchg(n, i))
  <2> DEFINE f == ReadsFault(m, i.dst, i.src)
             w == ReadOp(m, i.dst)
  <2>1. /\ ExecXchg(m, i) = Unless(f, m, AfterOk(x, WriteOp(x, i.src, w)))
        /\ ExecXchg(n, i) = Unless(f, n, AfterOk(y, WriteOp(y, i.src, w)))
    BY <1>1 DEF ExecXchg
  <2> HIDE DEF f, w, x, y
  <2>2. Twins(o, e, WriteOp(x, i.src, w), WriteOp(y, i.src, w))
    BY <1>2, TwinOperations
  <2>3. Twins(o, e, AfterOk(x, WriteOp(x, i.src, w)), AfterOk(y, WriteOp(y, i.src, w)))
    BY <1>2, <2>2, TwinPaths
  <2>. QED  BY <2>1, <2>3, TwinPaths
<1>6. Twins(o, e, ExecCmov(m, i), ExecCmov(n, i))
  <2> DEFINE f == ReadFault(m, i.src)
             p == IF Holds(i.cond, m.cpu.flags) THEN x ELSE m
             q == IF Holds(i.cond, m.cpu.flags) THEN y ELSE n
  <2>1. ExecCmov(m, i) = Unless(f, m, p) /\ ExecCmov(n, i) = Unless(f, n, q)
    BY <1>1 DEF ExecCmov
  <2>2. Twins(o, e, p, q)
    BY <1>2
  <2> HIDE DEF f, p, q
  <2>. QED  BY <2>1, <2>2, TwinPaths
<1>. QED  BY <1>3, <1>4, <1>5, <1>6

LEMMA TwinStacks ==
  ASSUME NEW o, NEW e, NEW m, NEW n, Twins(o, e, m, n), NEW i
  PROVE  /\ Twins(o, e, ExecPush(m, i), ExecPush(n, i))
         /\ Twins(o, e, ExecPop(m, i), ExecPop(n, i))
         /\ Twins(o, e, ExecLeave(m), ExecLeave(n))
<1>1. /\ ReadFault(n, i.dst) = ReadFault(m, i.dst) /\ ReadOp(n, i.dst) = ReadOp(m, i.dst)
      /\ PopFault(n) = PopFault(m) /\ Popped(n) = Popped(m)
      /\ RegOf(n, "rbp") = RegOf(m, "rbp")
  BY TwinReads, TwinsAgree
<1>2. Twins(o, e, DropTop(m), DropTop(n))
  BY TwinOperations
<1>3. Twins(o, e, ExecPush(m, i), ExecPush(n, i))
  <2> DEFINE v == ReadOp(m, i.dst)
             f == ReadFault(m, i.dst)
  <2>1. ExecPush(m, i) = Unless(f, m, Push(m, v)) /\ ExecPush(n, i) = Unless(f, n, Push(n, v))
    BY <1>1 DEF ExecPush
  <2> HIDE DEF v, f
  <2>2. Twins(o, e, Push(m, v), Push(n, v))
    BY TwinOperations
  <2>. QED  BY <2>1, <2>2, TwinPaths
<1>4. Twins(o, e, ExecPop(m, i), ExecPop(n, i))
  <2> DEFINE f == PopFault(m)
             x == WriteOp(DropTop(m), i.dst, Popped(m))
             y == WriteOp(DropTop(n), i.dst, Popped(m))
  <2>1. ExecPop(m, i) = Unless(f, m, x) /\ ExecPop(n, i) = Unless(f, n, y)
    BY <1>1 DEF ExecPop
  <2>2. Twins(o, e, x, y)
    BY <1>2, TwinOperations
  <2> HIDE DEF f, x, y
  <2>. QED  BY <2>1, <2>2, TwinPaths
<1>5. Twins(o, e, ExecLeave(m), ExecLeave(n))
  <2> DEFINE p == PutReg(m, "rsp", RegOf(m, "rbp"))
             q == PutReg(n, "rsp", RegOf(m, "rbp"))
  <2>1. /\ ExecLeave(m) = Unless(PopFault(p), p, PutReg(DropTop(p), "rbp", Popped(p)))
        /\ ExecLeave(n) = Unless(PopFault(q), q, PutReg(DropTop(q), "rbp", Popped(q)))
    BY <1>1 DEF ExecLeave
  <2>2. Twins(o, e, p, q)
    BY TwinWrites
  <2> HIDE DEF p, q
  <2>3. PopFault(q) = PopFault(p) /\ Popped(q) = Popped(p)
    BY <2>2, TwinReads
  <2>4. Twins(o, e, DropTop(p), DropTop(q))
    BY <2>2, TwinOperations
  <2> DEFINE f == PopFault(p)
             v == Popped(p)
  <2>5. Twins(o, e, PutReg(DropTop(p), "rbp", v), PutReg(DropTop(q), "rbp", v))
    BY <2>4, TwinWrites
  <2>6. /\ ExecLeave(m) = Unless(f, p, PutReg(DropTop(p), "rbp", v))
        /\ ExecLeave(n) = Unless(f, q, PutReg(DropTop(q), "rbp", v))
    BY <2>1, <2>3
  <2> HIDE DEF f, v
  <2>. QED  BY <2>2, <2>5, <2>6, TwinPaths
<1>. QED  BY <1>3, <1>4, <1>5

LEMMA TwinBranches ==
  ASSUME NEW o, NEW e, NEW m, NEW n, Twins(o, e, m, n), NEW i
  PROVE  /\ Twins(o, e, ExecJmp(m, i), ExecJmp(n, i))
         /\ Twins(o, e, ExecJcc(m, i), ExecJcc(n, i))
         /\ Twins(o, e, ExecCall(m, i), ExecCall(n, i))
         /\ Twins(o, e, ExecRet(m, i), ExecRet(n, i))
<1> DEFINE f == BranchFault(m, i.dst)
           a == BranchDest(m, i.dst)
<1>1. /\ BranchFault(n, i.dst) = f /\ BranchDest(n, i.dst) = a
      /\ PopFault(n) = PopFault(m) /\ Popped(n) = Popped(m)
      /\ n.cpu.flags = m.cpu.flags /\ n.cpu.rip = m.cpu.rip
  BY TwinReads, TwinsAgree
<1>2. Twins(o, e, SetRip(m, a), SetRip(n, a))
  BY TwinWrites
<1>3. Twins(o, e, ExecJmp(m, i), ExecJmp(n, i))
  <2>1. ExecJmp(m, i) = Unless(f, m, SetRip(m, a)) /\ ExecJmp(n, i) = Unless(f, n, SetRip(n, a))
    BY <1>1 DEF ExecJmp
  <2> HIDE DEF f, a
  <2>. QED  BY <1>2, <2>1, TwinPaths
<1>4. Twins(o, e, ExecJcc(m, i), ExecJcc(n, i))
  <2>1. CASE ~Holds(i.cond, m.cpu.flags)
    <3>1. ExecJcc(m, i) = m /\ ExecJcc(n, i) = n
      BY <1>1, <2>1, Zenon DEF ExecJcc
    <3>. QED  BY <3>1
  <2>2. CASE Holds(i.cond, m.cpu.flags) /\ i.dst.mode = "rel"
    <3>1. ExecJcc(m, i) = SetRip(m, a) /\ ExecJcc(n, i) = SetRip(n, a)
      BY <1>1, <2>2, Zenon DEF ExecJcc
    <3>. QED  BY <1>2, <3>1
  <2>3. CASE Holds(i.cond, m.cpu.flags) /\ i.dst.mode # "rel"
    <3>1. ExecJcc(m, i) = Raise(m, "unsupported") /\ ExecJcc(n, i) = Raise(n, "unsupported")
      BY <1>1, <2>3, Zenon DEF ExecJcc
    <3>. QED  BY <3>1, TwinWrites
  <2>. QED  BY <2>1, <2>2, <2>3
<1>5. Twins(o, e, ExecCall(m, i), ExecCall(n, i))
  <2> DEFINE x == Push(m, m.cpu.rip)
             y == Push(n, m.cpu.rip)
  <2>1. /\ ExecCall(m, i) = Unless(f, m, AfterOk(x, SetRip(x, a)))
        /\ ExecCall(n, i) = Unless(f, n, AfterOk(y, SetRip(y, a)))
    BY <1>1 DEF ExecCall
  <2>2. Twins(o, e, x, y)
    BY TwinOperations
  <2> HIDE DEF f, a, x, y
  <2>3. Twins(o, e, SetRip(x, a), SetRip(y, a))
    BY <2>2, TwinWrites
  <2>4. Twins(o, e, AfterOk(x, SetRip(x, a)), AfterOk(y, SetRip(y, a)))
    BY <2>2, <2>3, TwinPaths
  <2>. QED  BY <2>1, <2>4, TwinPaths
<1>6. Twins(o, e, ExecRet(m, i), ExecRet(n, i))
  <2> DEFINE p == DropTop(m)
             q == DropTop(n)
             sp == Trunc(RegOf(p, "rsp") + i.dst.disp)
             x == IF i.dst.mode = "imm" THEN PutReg(p, "rsp", sp) ELSE p
             y == IF i.dst.mode = "imm" THEN PutReg(q, "rsp", sp) ELSE q
             to == Popped(m)
             g == PopFault(m)
  <2>1. Twins(o, e, p, q)
    BY TwinOperations
  <2>2. RegOf(q, "rsp") = RegOf(p, "rsp")
    BY <2>1, TwinsAgree
  <2>3. ExecRet(m, i) = Unless(g, m, SetRip(x, to)) /\ ExecRet(n, i) = Unless(g, n, SetRip(y, to))
    BY <1>1, <2>2 DEF ExecRet
  <2>4. Twins(o, e, x, y)
    BY <2>1, TwinWrites
  <2> HIDE DEF x, y, to, g
  <2>5. Twins(o, e, SetRip(x, to), SetRip(y, to))
    BY <2>4, TwinWrites
  <2>. QED  BY <2>3, <2>5, TwinPaths
<1>. QED  BY <1>3, <1>4, <1>5, <1>6

\* A machine whose output is another.
LEMMA Reprinted ==
  ASSUME NEW regs, NEW rip, NEW flags, NEW mem, NEW halt, NEW out, NEW err, NEW b
  PROVE  LET c == Machine(regs, rip, flags, mem, halt, out, err)
         IN  /\ [c EXCEPT !.stdout = c.stdout \o b]
                  = Machine(regs, rip, flags, mem, halt, out \o b, err)
             /\ [c EXCEPT !.stderr = c.stderr \o b]
                  = Machine(regs, rip, flags, mem, halt, out, err \o b)
<1> DEFINE c == Machine(regs, rip, flags, mem, halt, out, err)
<1>1. c.stdout = out /\ c.stderr = err
  BY DEF Machine
<1>2. ASSUME NEW x
      PROVE  /\ [c EXCEPT !.stdout = x] = Machine(regs, rip, flags, mem, halt, x, err)
             /\ [c EXCEPT !.stderr = x] = Machine(regs, rip, flags, mem, halt, out, x)
  BY DEF Machine
<1> HIDE DEF c
<1>3. /\ [c EXCEPT !.stdout = c.stdout \o b]
           = Machine(regs, rip, flags, mem, halt, out \o b, err)
      /\ [c EXCEPT !.stderr = c.stderr \o b]
           = Machine(regs, rip, flags, mem, halt, out, err \o b)
  BY <1>1, <1>2, Zenon
<1>. QED  BY <1>3 DEF c

LEMMA PrintingIsInOrder ==
  ASSUME NEW a \in Seq(Word), NEW b \in Seq(Word), NEW c \in Seq(Word)
  PROVE  (a \o b) \o c = a \o (b \o c)
BY ConcatAssociative

\* What a write prints goes after what was printed before.
LEMMA TwinWriteSyscall ==
  ASSUME NEW o \in Seq(Word), NEW e \in Seq(Word), NEW m \in Steps, NEW n, Twins(o, e, m, n)
  PROVE  Twins(o, e, ExecWrite(m), ExecWrite(n))
<1> DEFINE fd == RegOf(m, "rdi")
           count == RegOf(m, "rdx")
           buf == RegOf(m, "rsi")
           g == LoadFault(m, buf, count)
           bytes == Loaded(m, buf, count)
           px == WithCpu(m, IF fd = Stdout THEN [m.cpu EXCEPT !.stdout = m.cpu.stdout \o bytes]
                            ELSE [m.cpu EXCEPT !.stderr = m.cpu.stderr \o bytes])
           py == WithCpu(n, IF fd = Stdout THEN [n.cpu EXCEPT !.stdout = n.cpu.stdout \o bytes]
                            ELSE [n.cpu EXCEPT !.stderr = n.cpu.stderr \o bytes])
           x == IF fd \in {Stdout, Stderr} THEN PutReg(px, "rax", count) ELSE Raise(m, "syscall")
           y == IF fd \in {Stdout, Stderr} THEN PutReg(py, "rax", count) ELSE Raise(n, "syscall")
<1>1. /\ RegOf(n, "rdi") = fd /\ RegOf(n, "rdx") = count /\ RegOf(n, "rsi") = buf
      /\ LoadFault(n, buf, count) = g /\ Loaded(n, buf, count) = bytes
  BY TwinsAgree, TwinReads
<1>2. ExecWrite(m) = Unless(g, m, x) /\ ExecWrite(n) = Unless(g, n, y)
  BY <1>1 DEF ExecWrite
<1>3. CASE g # "none"
  BY <1>2, <1>3, TwinFault
<1>4. CASE g = "none"
  <2>1. count \in Nat /\ buf \in Word
    BY RegIsWord DEF Reg, Word
  <2>2. bytes \in Seq(Word)
    BY <1>4, <2>1, LoadedIsTyped
  <2> HIDE DEF fd, count, buf, g, bytes
  <2>3. PICK regs, rip, flags, mem, halt, out, err, rw, mw, f :
          /\ m = Progressed(Machine(regs, rip, flags, mem, halt, out, err), rw, mw, f)
          /\ n = Progressed(Machine(regs, rip, flags, mem, halt, o \o out, e \o err), rw, mw, f)
    BY Zenon DEF Twins
  <2>4. out \in Seq(Word) /\ err \in Seq(Word)
    BY <2>3 DEF Steps, Cpus, Progressed, Machine
  <2>6. (o \o out) \o bytes = o \o (out \o bytes) /\ (e \o err) \o bytes = e \o (err \o bytes)
    <3>1. (o \o out) \o bytes = o \o (out \o bytes)
      BY <2>2, <2>4, PrintingIsInOrder
    <3>2. (e \o err) \o bytes = e \o (err \o bytes)
      BY <2>2, <2>4, PrintingIsInOrder
    <3>. QED  BY <3>1, <3>2
  <2> DEFINE c == Machine(regs, rip, flags, mem, halt, out, err)
             d == Machine(regs, rip, flags, mem, halt, o \o out, e \o err)
  <2>7. ASSUME NEW C, NEW D
        PROVE  WithCpu(m, C) = Progressed(C, rw, mw, f) /\ WithCpu(n, D) = Progressed(D, rw, mw, f)
    BY <2>3 DEF Progressed, WithCpu
  <2>8. m.cpu = c /\ n.cpu = d
    BY <2>3 DEF Progressed
  <2>9. Twins(o, e, px, py)
    <3>1. CASE fd = Stdout
      <4>1. /\ [c EXCEPT !.stdout = c.stdout \o bytes]
                 = Machine(regs, rip, flags, mem, halt, out \o bytes, err)
            /\ [d EXCEPT !.stdout = d.stdout \o bytes]
                 = Machine(regs, rip, flags, mem, halt, (o \o out) \o bytes, e \o err)
        BY Reprinted
      <4> HIDE DEF c, d
      <4>2. /\ px = WithCpu(m, [c EXCEPT !.stdout = c.stdout \o bytes])
            /\ py = WithCpu(n, [d EXCEPT !.stdout = d.stdout \o bytes])
        BY <2>8, <3>1, Zenon
      <4>3. /\ px = Progressed(Machine(regs, rip, flags, mem, halt, out \o bytes, err), rw, mw, f)
            /\ py = Progressed(Machine(regs, rip, flags, mem, halt, (o \o out) \o bytes, e \o err),
                               rw, mw, f)
        BY <2>7, <4>1, <4>2, Zenon
      <4>. QED  BY <2>6, <4>3, TwinsMade
    <3>2. CASE fd # Stdout
      <4>1. /\ [c EXCEPT !.stderr = c.stderr \o bytes]
                 = Machine(regs, rip, flags, mem, halt, out, err \o bytes)
            /\ [d EXCEPT !.stderr = d.stderr \o bytes]
                 = Machine(regs, rip, flags, mem, halt, o \o out, (e \o err) \o bytes)
        BY Reprinted
      <4> HIDE DEF c, d
      <4>2. /\ px = WithCpu(m, [c EXCEPT !.stderr = c.stderr \o bytes])
            /\ py = WithCpu(n, [d EXCEPT !.stderr = d.stderr \o bytes])
        BY <2>8, <3>2, Zenon
      <4>3. /\ px = Progressed(Machine(regs, rip, flags, mem, halt, out, err \o bytes), rw, mw, f)
            /\ py = Progressed(Machine(regs, rip, flags, mem, halt, o \o out, (e \o err) \o bytes),
                               rw, mw, f)
        BY <2>7, <4>1, <4>2, Zenon
      <4>. QED  BY <2>6, <4>3, TwinsMade
    <3>. QED  BY <3>1, <3>2
  <2> HIDE DEF px, py, c, d
  <2>10. Twins(o, e, x, y)
    BY <2>9, TwinWrites
  <2>11. ExecWrite(m) = Unless(g, m, x) /\ ExecWrite(n) = Unless(g, n, y)
    BY <1>2
  <2> HIDE DEF x, y
  <2>. QED  BY <2>10, <2>11, TwinPaths
<1>. QED  BY <1>3, <1>4

LEMMA TwinSyscalls ==
  ASSUME NEW o \in Seq(Word), NEW e \in Seq(Word), NEW m \in Steps, NEW n, Twins(o, e, m, n)
  PROVE  Twins(o, e, ExecSyscall(m), ExecSyscall(n))
<1>0. SysWrite # SysExit
  BY DEF SysWrite, SysExit
<1>1. RegOf(n, "rax") = RegOf(m, "rax")
  BY TwinsAgree
<1>2. CASE RegOf(m, "rax") = SysWrite
  <2>1. ExecSyscall(m) = ExecWrite(m) /\ ExecSyscall(n) = ExecWrite(n)
    BY <1>0, <1>1, <1>2, Zenon DEF ExecSyscall
  <2>. QED  BY <2>1, TwinWriteSyscall
<1>3. CASE RegOf(m, "rax") # SysWrite /\ RegOf(m, "rax") = SysExit
  <2>1. /\ ExecSyscall(m) = PutReg(SetHalt(m, "exited"), "rax", 0)
        /\ ExecSyscall(n) = PutReg(SetHalt(n, "exited"), "rax", 0)
    BY <1>0, <1>1, <1>3, Zenon DEF ExecSyscall
  <2>2. Twins(o, e, SetHalt(m, "exited"), SetHalt(n, "exited"))
    BY TwinWrites
  <2>. QED  BY <2>1, <2>2, TwinWrites
<1>4. CASE RegOf(m, "rax") # SysWrite /\ RegOf(m, "rax") # SysExit
  <2>1. ExecSyscall(m) = Raise(m, "syscall") /\ ExecSyscall(n) = Raise(n, "syscall")
    BY <1>1, <1>4, Zenon DEF ExecSyscall
  <2>. QED  BY <2>1, TwinWrites
<1>. QED  BY <1>2, <1>3, <1>4

LEMMA TwinExecute ==
  ASSUME NEW o \in Seq(Word), NEW e \in Seq(Word), NEW m \in Steps, NEW n, Twins(o, e, m, n),
         NEW i \in Instruction
  PROVE  Twins(o, e, Execute(m, i), Execute(n, i))
<1> DEFINE others == WideNames \cup NamedOps
<1>1. others = {"mul", "imul", "div", "idiv", "imul2", "cqo", "mov", "lea", "xchg", "cmov",
                "push", "pop", "leave", "jmp", "jcc", "call", "ret", "syscall", "nop", "hlt",
                "int3", "ud2"}
  BY DEF WideNames, WideOps, NamedOps, MoveOps, StackOps, BranchOps, SystemOps
<1> HIDE DEF others
<1>2. CASE i.op \in BinaryOps
  <2>1. i.op \notin CompareOps /\ i.op \notin UnaryOps /\ i.op \notin ShiftOps /\ i.op \notin others
    BY <1>2, ClassesAreDisjoint DEF others
  <2>2. Execute(m, i) = ExecBinary(m, i) /\ Execute(n, i) = ExecBinary(n, i)
    BY <1>1, <1>2, <2>1, Zenon DEF Execute
  <2>. QED  BY <2>2, TwinCalculations
<1>3. CASE i.op \in CompareOps
  <2>1. i.op \notin BinaryOps /\ i.op \notin UnaryOps /\ i.op \notin ShiftOps /\ i.op \notin others
    BY <1>3, ClassesAreDisjoint DEF others
  <2>2. Execute(m, i) = ExecCompare(m, i) /\ Execute(n, i) = ExecCompare(n, i)
    BY <1>1, <1>3, <2>1, Zenon DEF Execute
  <2>. QED  BY <2>2, TwinCalculations
<1>4. CASE i.op \in UnaryOps
  <2>1. i.op \notin BinaryOps /\ i.op \notin CompareOps /\ i.op \notin ShiftOps /\ i.op \notin others
    BY <1>4, ClassesAreDisjoint DEF others
  <2>2. Execute(m, i) = ExecUnary(m, i) /\ Execute(n, i) = ExecUnary(n, i)
    BY <1>1, <1>4, <2>1, Zenon DEF Execute
  <2>. QED  BY <2>2, TwinCalculations
<1>5. CASE i.op \in ShiftOps
  <2>1. i.op \notin BinaryOps /\ i.op \notin CompareOps /\ i.op \notin UnaryOps /\ i.op \notin others
    BY <1>5, ClassesAreDisjoint DEF others
  <2>2. Execute(m, i) = ExecShift(m, i) /\ Execute(n, i) = ExecShift(n, i)
    BY <1>1, <1>5, <2>1, Zenon DEF Execute
  <2>. QED  BY <2>2, TwinCalculations
<1>6. CASE i.op \in others \cup {"invalid"}
  <2>0. i.op \notin BinaryOps /\ i.op \notin CompareOps /\ i.op \notin UnaryOps /\ i.op \notin ShiftOps
    BY <1>6, ClassesAreDisjoint DEF others
  <2>1. CASE i.op = "mul"
    <3>1. Execute(m, i) = ExecMul(m, i) /\ Execute(n, i) = ExecMul(n, i)
      BY <2>0, <2>1, Zenon DEF Execute
    <3>. QED  BY <3>1, TwinMultiplications
  <2>2. CASE i.op = "imul"
    <3>1. Execute(m, i) = ExecImul(m, i) /\ Execute(n, i) = ExecImul(n, i)
      BY <2>0, <2>2, Zenon DEF Execute
    <3>. QED  BY <3>1, TwinMultiplications
  <2>3. CASE i.op = "imul2"
    <3>1. Execute(m, i) = ExecImul2(m, i) /\ Execute(n, i) = ExecImul2(n, i)
      BY <2>0, <2>3, Zenon DEF Execute
    <3>. QED  BY <3>1, TwinMultiplications
  <2>4. CASE i.op \in {"div", "idiv"}
    <3>1. Execute(m, i) = ExecDiv(m, i) /\ Execute(n, i) = ExecDiv(n, i)
      BY <2>0, <2>4, Zenon DEF Execute
    <3>. QED  BY <3>1, TwinMultiplications
  <2>5. CASE i.op = "cqo"
    <3>1. Execute(m, i) = ExecCqo(m) /\ Execute(n, i) = ExecCqo(n)
      BY <2>0, <2>5, Zenon DEF Execute
    <3>. QED  BY <3>1, TwinMultiplications
  <2>6. CASE i.op = "mov"
    <3>1. Execute(m, i) = ExecMov(m, i) /\ Execute(n, i) = ExecMov(n, i)
      BY <2>0, <2>6, Zenon DEF Execute
    <3>. QED  BY <3>1, TwinMoves
  <2>7. CASE i.op = "lea"
    <3>1. Execute(m, i) = ExecLea(m, i) /\ Execute(n, i) = ExecLea(n, i)
      BY <2>0, <2>7, Zenon DEF Execute
    <3>. QED  BY <3>1, TwinMoves
  <2>8. CASE i.op = "xchg"
    <3>1. Execute(m, i) = ExecXchg(m, i) /\ Execute(n, i) = ExecXchg(n, i)
      BY <2>0, <2>8, Zenon DEF Execute
    <3>. QED  BY <3>1, TwinMoves
  <2>9. CASE i.op = "cmov"
    <3>1. Execute(m, i) = ExecCmov(m, i) /\ Execute(n, i) = ExecCmov(n, i)
      BY <2>0, <2>9, Zenon DEF Execute
    <3>. QED  BY <3>1, TwinMoves
  <2>10. CASE i.op = "push"
    <3>1. Execute(m, i) = ExecPush(m, i) /\ Execute(n, i) = ExecPush(n, i)
      BY <2>0, <2>10, Zenon DEF Execute
    <3>. QED  BY <3>1, TwinStacks
  <2>11. CASE i.op = "pop"
    <3>1. Execute(m, i) = ExecPop(m, i) /\ Execute(n, i) = ExecPop(n, i)
      BY <2>0, <2>11, Zenon DEF Execute
    <3>. QED  BY <3>1, TwinStacks
  <2>12. CASE i.op = "leave"
    <3>1. Execute(m, i) = ExecLeave(m) /\ Execute(n, i) = ExecLeave(n)
      BY <2>0, <2>12, Zenon DEF Execute
    <3>. QED  BY <3>1, TwinStacks
  <2>13. CASE i.op = "jmp"
    <3>1. Execute(m, i) = ExecJmp(m, i) /\ Execute(n, i) = ExecJmp(n, i)
      BY <2>0, <2>13, Zenon DEF Execute
    <3>. QED  BY <3>1, TwinBranches
  <2>14. CASE i.op = "jcc"
    <3>1. Execute(m, i) = ExecJcc(m, i) /\ Execute(n, i) = ExecJcc(n, i)
      BY <2>0, <2>14, Zenon DEF Execute
    <3>. QED  BY <3>1, TwinBranches
  <2>15. CASE i.op = "call"
    <3>1. Execute(m, i) = ExecCall(m, i) /\ Execute(n, i) = ExecCall(n, i)
      BY <2>0, <2>15, Zenon DEF Execute
    <3>. QED  BY <3>1, TwinBranches
  <2>16. CASE i.op = "ret"
    <3>1. Execute(m, i) = ExecRet(m, i) /\ Execute(n, i) = ExecRet(n, i)
      BY <2>0, <2>16, Zenon DEF Execute
    <3>. QED  BY <3>1, TwinBranches
  <2>17. CASE i.op = "syscall"
    <3>1. Execute(m, i) = ExecSyscall(m) /\ Execute(n, i) = ExecSyscall(n)
      BY <2>0, <2>17, Zenon DEF Execute
    <3>. QED  BY <3>1, TwinSyscalls
  <2>18. CASE i.op = "nop"
    <3>1. Execute(m, i) = m /\ Execute(n, i) = n
      BY <2>0, <2>18, Zenon DEF Execute
    <3>. QED  BY <3>1
  <2>19. CASE i.op = "hlt"
    <3>1. Execute(m, i) = SetHalt(m, "halted") /\ Execute(n, i) = SetHalt(n, "halted")
      BY <2>0, <2>19, Zenon DEF Execute
    <3>. QED  BY <3>1, TwinWrites
  <2>20. CASE i.op = "int3"
    <3>1. Execute(m, i) = SetHalt(m, "breakpoint") /\ Execute(n, i) = SetHalt(n, "breakpoint")
      BY <2>0, <2>20, Zenon DEF Execute
    <3>. QED  BY <3>1, TwinWrites
  <2>21. CASE i.op \in {"ud2", "invalid"}
    <3>1. Execute(m, i) = Raise(m, "unsupported") /\ Execute(n, i) = Raise(n, "unsupported")
      BY <2>0, <2>21, Zenon DEF Execute
    <3>. QED  BY <3>1, TwinWrites
  <2>. QED  BY <1>1, <1>6, <2>1, <2>2, <2>3, <2>4, <2>5, <2>6, <2>7, <2>8, <2>9, <2>10,
               <2>11, <2>12, <2>13, <2>14, <2>15, <2>16, <2>17, <2>18, <2>19, <2>20, <2>21
<1>7. i.op \in Ops \cup {"invalid"}
  BY DEF Instruction
<1>. QED  BY <1>2, <1>3, <1>4, <1>5, <1>6, <1>7 DEF Ops, others, WideNames, NamedOps

\* A machine that has printed o and e steps as the one that has not: the same
\* instruction, the same effects and the same fault, and it prints the same, after
\* what it had printed.
LEMMA TwinStep ==
  ASSUME NEW o \in Seq(Word), NEW e \in Seq(Word),
         NEW regs, NEW rip, NEW flags, NEW mem, NEW halt, NEW c, NEW d,
         c = Machine(regs, rip, flags, mem, halt, <<>>, <<>>), c \in Cpus,
         d = Machine(regs, rip, flags, mem, halt, o, e)
  PROVE  /\ Current(d) = Current(c) /\ DecodeFault(d) = DecodeFault(c)
         /\ Twins(o, e, Step(c), Step(d))
<1>1. c.mem = mem /\ d.mem = mem /\ c.rip = rip /\ d.rip = rip
  BY DEF Machine
<1>2. Window(d) = Window(c)
  BY <1>1 DEF Window
<1>3. Current(d) = Current(c)
  BY <1>2 DEF Current
<1>4. DecodeFault(d) = DecodeFault(c)
  BY <1>2, <1>3 DEF DecodeFault
<1>5. o \o <<>> = o /\ e \o <<>> = e
  BY ConcatEmptySeq
<1>6. ASSUME NEW next
      PROVE  Twins(o, e, Begin(c, next), Begin(d, next))
  <2>1. /\ Begin(c, next)
             = Progressed(Machine(regs, next, flags, mem, halt, <<>>, <<>>), <<>>, <<>>, "none")
        /\ Begin(d, next)
             = Progressed(Machine(regs, next, flags, mem, halt, o, e), <<>>, <<>>, "none")
    BY DEF Begin, Progressed, Machine
  <2>2. Twins(o, e,
          Progressed(Machine(regs, next, flags, mem, halt, <<>>, <<>>), <<>>, <<>>, "none"),
          Progressed(Machine(regs, next, flags, mem, halt, o \o <<>>, e \o <<>>), <<>>, <<>>,
                     "none"))
    BY TwinsMade
  <2>. QED  BY <1>5, <2>1, <2>2
<1>7. CASE DecodeFault(c) # "none"
  <2>1. Step(c) = Raise(Begin(c, rip), DecodeFault(c)) /\ Step(d) = Raise(Begin(d, rip), DecodeFault(c))
    BY <1>1, <1>4, <1>7 DEF Step
  <2>2. Twins(o, e, Begin(c, rip), Begin(d, rip))
    BY <1>6
  <2>3. Twins(o, e, Step(c), Step(d))
    BY <2>1, <2>2, TwinWrites
  <2>. QED  BY <1>3, <1>4, <2>3
<1>8. CASE DecodeFault(c) = "none"
  <2> DEFINE i == Current(c)
             next == Trunc(rip + i.len)
  <2>1. Step(c) = Execute(Begin(c, next), i) /\ Step(d) = Execute(Begin(d, next), i)
    BY <1>1, <1>3, <1>4, <1>8 DEF Step
  <2>2. i \in Instruction
    BY <1>8, CurrentIsTyped
  <2>3. rip + i.len \in Int
    <3>1. rip \in Int /\ i.len \in Int
      BY <1>1, <2>2 DEF Cpus, Word, Instruction
    <3>. QED  BY <3>1
  <2>4. next \in Word
    BY <2>3, TruncIsWord DEF Trunc
  <2> HIDE DEF next, i
  <2>5. Begin(c, next) \in Steps
    BY <2>4, BeginIsTyped
  <2>6. Twins(o, e, Begin(c, next), Begin(d, next))
    BY <1>6
  <2>7. Twins(o, e, Step(c), Step(d))
    BY <2>1, <2>2, <2>5, <2>6, TwinExecute
  <2>. QED  BY <1>3, <1>4, <2>7
<1>. QED  BY <1>7, <1>8

-----------------------------------------------------------------------------
(***************************************************************************)
(* What the server rebuilds from two regions: the same two, unless they    *)
(* start at one address, when the second goes before the first.            *)
(***************************************************************************)
LEMMA SideBySide ==
  ASSUME NEW S, NEW a \in S, NEW b \in S
  PROVE  <<a>> \o <<b>> = <<a, b>>
<1> DEFINE x == <<a>> \o <<b>>
           y == <<a, b>>
<1>1. <<a>> \in Seq(S) /\ <<b>> \in Seq(S) /\ y \in Seq(S) /\ Len(y) = 2
  OBVIOUS
<1>2. x \in Seq(S) /\ Len(x) = 2 /\ x[1] = a /\ x[2] = b
  BY <1>1
<1>3. \A i \in 1 .. 2 : x[i] = y[i]
  BY <1>2
<1> HIDE DEF x, y
<1>4. x = y
  BY <1>1, <1>2, <1>3, SeqEqual
<1>. QED  BY <1>4 DEF x, y

\* The first region is mapped into nothing.
LEMMA MapsFirst ==
  ASSUME NEW a \in Regions
  PROVE  MapWith(<<>>, a) = <<a>>
<1>1. {i \in DOMAIN <<>> : <<>>[i].base < a.base} = {}
  OBVIOUS
<1>2. Cardinality({i \in DOMAIN <<>> : <<>>[i].base < a.base}) = 0
  BY <1>1, FS_EmptySet
<1>3. MapWith(<<>>, a) = SubSeq(<<>>, 1, 0) \o <<a>> \o SubSeq(<<>>, 1, Len(<<>>))
  BY <1>2 DEF MapWith
<1>. QED  BY <1>3

\* The second goes after the first only from a higher base.
LEMMA MapsSecond ==
  ASSUME NEW a \in Regions, NEW b \in Regions
  PROVE  MapWith(<<a>>, b) = IF a.base < b.base THEN <<a, b>> ELSE <<b, a>>
<1> DEFINE lower == {i \in DOMAIN <<a>> : <<a>>[i].base < b.base}
<1>1. DOMAIN <<a>> = {1} /\ <<a>>[1] = a /\ Len(<<a>>) = 1
  OBVIOUS
<1>2. ASSUME NEW pos, Cardinality(lower) = pos
      PROVE  MapWith(<<a>>, b) = SubSeq(<<a>>, 1, pos) \o <<b>> \o SubSeq(<<a>>, pos + 1, 1)
  BY <1>1, <1>2, Zenon DEF MapWith
<1>3. /\ SubSeq(<<a>>, 1, 1) = <<a>> /\ SubSeq(<<a>>, 2, 1) = <<>>
      /\ SubSeq(<<a>>, 1, 0) = <<>>
  <2>1. <<a>> \in Seq(Regions)
    OBVIOUS
  <2>2. SubSeq(<<a>>, 1, 1) = <<a>>
    BY <1>1, <2>1, SubSeqFull
  <2>. QED  BY <2>2, SubSeqEmpty
<1>4. <<a>> \o <<b>> \o <<>> = <<a, b>> /\ <<>> \o <<b>> \o <<a>> = <<b, a>>
  <2>1. <<a>> \in Seq(Regions) /\ <<b>> \in Seq(Regions) /\ <<a, b>> \in Seq(Regions)
    OBVIOUS
  <2>2. <<a>> \o <<b>> = <<a, b>> /\ <<b>> \o <<a>> = <<b, a>>
    BY SideBySide
  <2>3. <<a, b>> \o <<>> = <<a, b>> /\ <<>> \o <<b>> = <<b>>
    BY <2>1, ConcatEmptySeq
  <2>. QED  BY <2>2, <2>3
<1>5. CASE a.base < b.base
  <2>1. lower = {1}
    BY <1>1, <1>5
  <2>2. Cardinality(lower) = 1 /\ 1 + 1 = 2
    BY <2>1, FS_Singleton
  <2>3. MapWith(<<a>>, b) = SubSeq(<<a>>, 1, 1) \o <<b>> \o SubSeq(<<a>>, 1 + 1, 1)
    BY <1>2, <2>2
  <2>. QED  BY <1>3, <1>4, <1>5, <2>2, <2>3, Zenon
<1>6. CASE ~(a.base < b.base)
  <2>1. lower = {}
    BY <1>1, <1>6
  <2>2. Cardinality(lower) = 0 /\ 0 + 1 = 1
    BY <2>1, FS_EmptySet
  <2>3. MapWith(<<a>>, b) = SubSeq(<<a>>, 1, 0) \o <<b>> \o SubSeq(<<a>>, 0 + 1, 1)
    BY <1>2, <2>2
  <2>. QED  BY <1>3, <1>4, <1>6, <2>2, <2>3, Zenon
<1>. QED  BY <1>5, <1>6

LEMMA MappingOfTwo ==
  ASSUME NEW mem \in Memories, Len(mem) = 2
  PROVE  Mapping(mem) = IF mem[1].base < mem[2].base THEN mem ELSE <<mem[2], mem[1]>>
<1> DEFINE Body(g) == [k \in 0 .. Len(mem) |-> IF k = 0 THEN <<>> ELSE MapWith(g[k - 1], mem[k])]
           built == CHOOSE g : g = Body(g)
           two == MapWith(<<mem[1]>>, mem[2])
           f == [k \in 0 .. 2 |-> IF k = 0 THEN <<>> ELSE IF k = 1 THEN <<mem[1]>> ELSE two]
<1>1. mem \in Seq(Regions) /\ mem[1] \in Regions /\ mem[2] \in Regions
  BY DEF Memories
<1>2. f = Body(f)
  <2>1. f[0] = <<>> /\ f[1] = <<mem[1]>> /\ f[2] = two
    OBVIOUS
  <2>2. MapWith(<<>>, mem[1]) = <<mem[1]>>
    BY <1>1, MapsFirst
  <2> HIDE DEF two
  <2>3. MapWith(f[1 - 1], mem[1]) = f[1] /\ MapWith(f[2 - 1], mem[2]) = f[2]
    <3>1. 1 - 1 = 0 /\ 2 - 1 = 1
      OBVIOUS
    <3>. QED  BY <2>1, <2>2, <3>1, Zenon DEF two
  <2>4. ASSUME NEW k \in 0 .. 2
        PROVE  f[k] = IF k = 0 THEN <<>> ELSE MapWith(f[k - 1], mem[k])
    <3>1. k = 0 \/ k = 1 \/ k = 2
      OBVIOUS
    <3>. QED  BY <2>1, <2>3, <3>1
  <2>. QED  BY <2>4
<1>3. built = Body(built)
  <2> HIDE DEF Body, f
  <2>. QED  BY <1>2, Zenon
<1> HIDE DEF built
<1>4. \A k \in 0 .. 2 : built[k] = IF k = 0 THEN <<>> ELSE MapWith(built[k - 1], mem[k])
  BY <1>3
<1>5. built[0] = <<>> /\ built[1] = MapWith(built[0], mem[1]) /\ built[2] = MapWith(built[1], mem[2])
  <2>1. 0 \in 0 .. 2 /\ 1 \in 0 .. 2 /\ 2 \in 0 .. 2 /\ 1 # 0 /\ 2 # 0
    OBVIOUS
  <2>2. 1 - 1 = 0 /\ 2 - 1 = 1
    OBVIOUS
  <2>. QED  BY <1>4, <2>1, <2>2
<1>6. built[2] = IF mem[1].base < mem[2].base THEN <<mem[1], mem[2]>> ELSE <<mem[2], mem[1]>>
  <2>1. built[1] = <<mem[1]>>
    BY <1>1, <1>5, MapsFirst
  <2>2. MapWith(<<mem[1]>>, mem[2])
          = IF mem[1].base < mem[2].base THEN <<mem[1], mem[2]>> ELSE <<mem[2], mem[1]>>
    BY <1>1, MapsSecond
  <2>. QED  BY <1>5, <2>1, <2>2
<1>7. mem = <<mem[1], mem[2]>>
  <2>1. <<mem[1], mem[2]>> \in Seq(Regions) /\ Len(<<mem[1], mem[2]>>) = 2
    BY <1>1
  <2>2. \A i \in 1 .. 2 : mem[i] = <<mem[1], mem[2]>>[i]
    OBVIOUS
  <2>. QED  BY <1>1, <2>1, <2>2, SeqEqual
<1>8. Mapping(mem) = built[2]
  BY DEF Mapping, built
<1>. QED  BY <1>6, <1>7, <1>8

-----------------------------------------------------------------------------
(***************************************************************************)
(* Two regions in order that differ in what they permit, as code and stack *)
(* do: no cutting, mapping or step changes that.                           *)
(***************************************************************************)
CodeAndStack(mem) ==
  /\ mem \in Memories
  /\ Len(mem) = 2
  /\ mem[1].base <= mem[2].base
  /\ mem[1].perms # mem[2].perms

LEMMA CarriedRegions ==
  ASSUME NEW mem, CodeAndStack(mem)
  PROVE  /\ CodeAndStack(Carried(mem))
         /\ \A i \in 1 .. 2 : /\ Carried(mem)[i].base = mem[i].base
                              /\ Carried(mem)[i].perms = mem[i].perms
                              /\ Len(Carried(mem)[i].data) <= MaxRegionCells
         /\ (\A i \in 1 .. 2 : Len(mem[i].data) <= MaxRegionCells) => Carried(mem) = mem
<1>1. /\ mem \in Seq(Regions) /\ Len(mem) = 2 /\ DOMAIN mem = 1 .. 2
      /\ MaxRegionCells \in Nat
  BY RegionsAreCapped DEF CodeAndStack, Memories
<1>2. ASSUME NEW i \in 1 .. 2
      PROVE  /\ Carried(mem)[i] \in Regions
             /\ Carried(mem)[i].base = mem[i].base
             /\ Carried(mem)[i].perms = mem[i].perms
             /\ Len(Carried(mem)[i].data) <= MaxRegionCells
             /\ Len(mem[i].data) <= MaxRegionCells => Carried(mem)[i] = mem[i]
  <2>1. mem[i] \in Regions /\ mem[i].data \in Seq(Word) /\ Len(mem[i].data) \in Nat
    <3>1. mem[i] \in Regions
      BY <1>1, ElementOfSeq
    <3>. QED  BY <3>1 DEF Regions
  <2> DEFINE d == SubSeq(mem[i].data, 1, MaxRegionCells)
  <2>2. Carried(mem)[i] = IF Len(mem[i].data) > MaxRegionCells
                          THEN [mem[i] EXCEPT !.data = d] ELSE mem[i]
    BY <1>1 DEF Carried
  <2>3. CASE Len(mem[i].data) > MaxRegionCells
    <3>1. d \in Seq(Word) /\ Len(d) = MaxRegionCells
      BY <1>1, <2>1, <2>3
    <3> HIDE DEF d
    <3>2. Carried(mem)[i] = [mem[i] EXCEPT !.data = d]
      BY <2>2, <2>3
    <3>. QED  BY <1>1, <2>1, <2>3, <3>1, <3>2 DEF Regions
  <2>4. CASE ~(Len(mem[i].data) > MaxRegionCells)
    BY <1>1, <2>1, <2>2, <2>4
  <2>. QED  BY <2>3, <2>4
<1>3. Carried(mem) \in Seq(Regions) /\ Len(Carried(mem)) = 2
  <2>1. Carried(mem) = [i \in 1 .. 2 |-> Carried(mem)[i]]
    BY <1>1 DEF Carried
  <2> DEFINE c == Carried(mem)
  <2>2. \A i \in 1 .. 2 : c[i] \in Regions
    BY <1>2
  <2> HIDE DEF c
  <2>3. [i \in 1 .. 2 |-> c[i]] \in Seq(Regions)
    BY <2>2
  <2>4. Len([i \in 1 .. 2 |-> c[i]]) = 2
    BY <2>3
  <2>. QED  BY <2>1, <2>3, <2>4 DEF c
<1>4. CodeAndStack(Carried(mem))
  BY <1>2, <1>3 DEF CodeAndStack, Memories
<1>5. ASSUME \A i \in 1 .. 2 : Len(mem[i].data) <= MaxRegionCells
      PROVE  Carried(mem) = mem
  BY <1>1, <1>2, <1>3, <1>5, SeqEqual DEF CodeAndStack
<1>. QED  BY <1>2, <1>4, <1>5

LEMMA RebuiltRegions ==
  ASSUME NEW mem, CodeAndStack(mem)
  PROVE  /\ CodeAndStack(Mapping(mem))
         /\ (Mapping(mem) = mem) <=> mem[1].base # mem[2].base
<1>0. mem \in Seq(Regions) /\ Len(mem) = 2
  BY DEF CodeAndStack, Memories
<1>1. mem \in Seq(Regions) /\ mem[1] \in Regions /\ mem[2] \in Regions
  BY <1>0
<1>2. mem[1].base \in Int /\ mem[2].base \in Int
  BY <1>1 DEF Regions, Word
<1>3. CASE mem[1].base < mem[2].base
  <2>1. Mapping(mem) = mem
    BY <1>3, MappingOfTwo DEF CodeAndStack
  <2>. QED  BY <1>2, <1>3, <2>1
<1>4. CASE ~(mem[1].base < mem[2].base)
  <2>1. Mapping(mem) = <<mem[2], mem[1]>> /\ mem[1].base = mem[2].base
    BY <1>2, <1>4, MappingOfTwo DEF CodeAndStack
  <2>2. Mapping(mem)[1].perms # mem[1].perms
    BY <2>1 DEF CodeAndStack
  <2>3. CodeAndStack(<<mem[2], mem[1]>>)
    BY <1>1, <1>2, <2>1 DEF CodeAndStack, Memories
  <2>. QED  BY <2>1, <2>2, <2>3
<1>. QED  BY <1>3, <1>4

LEMMA SteppedRegions ==
  ASSUME NEW a, CodeAndStack(a), NEW b \in Memories, Protected(a, b)
  PROVE  /\ CodeAndStack(b)
         /\ Describable(a) => Describable(b)
<1>1. a \in Seq(Regions) /\ b \in Seq(Regions) /\ DOMAIN a = 1 .. 2 /\ DOMAIN b = DOMAIN a
  BY DEF CodeAndStack, Memories, Protected
<1>2. Len(b) = 2
  BY <1>1
<1>3. \A i \in 1 .. 2 : /\ b[i].base = a[i].base /\ b[i].perms = a[i].perms
                        /\ Len(b[i].data) = Len(a[i].data)
  BY <1>1 DEF Protected
<1>. QED  BY <1>1, <1>2, <1>3 DEF CodeAndStack, Describable

LEMMA DescribableIsCarried ==
  ASSUME NEW mem, CodeAndStack(mem), Describable(mem)
  PROVE  Carried(mem) = mem
<1>1. DOMAIN mem = 1 .. 2
  BY DEF CodeAndStack, Memories
<1>. QED  BY <1>1, CarriedRegions DEF Describable

\* The round trip keeps the memory exactly when it can be described.
LEMMA RoundTripOfTwo ==
  ASSUME NEW mem, CodeAndStack(mem)
  PROVE  /\ CodeAndStack(Mapping(Carried(mem)))
         /\ (Mapping(Carried(mem)) = mem) <=> Describable(mem)
<1> DEFINE c == Carried(mem)
<1>1. CodeAndStack(c) /\ CodeAndStack(Mapping(c))
  BY CarriedRegions, RebuiltRegions
<1>2. DOMAIN mem = 1 .. 2
  BY DEF CodeAndStack, Memories
<1>3. \A i \in 1 .. 2 : /\ c[i].base = mem[i].base
                        /\ c[i].perms = mem[i].perms
                        /\ Len(c[i].data) <= MaxRegionCells
  BY CarriedRegions
<1>4. ASSUME Describable(mem)
      PROVE  Mapping(c) = mem
  <2>1. mem[1].base # mem[2].base /\ (\A i \in 1 .. 2 : Len(mem[i].data) <= MaxRegionCells)
    BY <1>2, <1>4 DEF Describable
  <2>2. c = mem
    BY <2>1, CarriedRegions
  <2> HIDE DEF c
  <2>. QED  BY <2>1, <2>2, RebuiltRegions
<1> HIDE DEF c
<1>5. ASSUME Mapping(c) = mem
      PROVE  Describable(mem)
  <2>1. Mapping(c) = c
    <3>1. CASE c[1].base < c[2].base
      BY <1>1, <3>1, MappingOfTwo DEF CodeAndStack
    <3>2. CASE ~(c[1].base < c[2].base)
      <4>1. Mapping(c) = <<c[2], c[1]>>
        BY <1>1, <3>2, MappingOfTwo DEF CodeAndStack
      <4>2. mem[1].perms = c[2].perms /\ c[1].perms = mem[1].perms
        BY <1>3, <1>5, <4>1
      <4>. QED  BY <1>1, <4>2 DEF CodeAndStack
    <3>. QED  BY <3>1, <3>2
  <2>2. c[1].base # c[2].base
    BY <1>1, <2>1, RebuiltRegions
  <2>3. mem[1].base # mem[2].base /\ (\A i \in 1 .. 2 : Len(mem[i].data) <= MaxRegionCells)
    BY <1>3, <1>5, <2>1, <2>2
  <2>4. \A i \in 1 .. 2 : i = 1 \/ i = 2
    OBVIOUS
  <2>. QED  BY <1>2, <2>3, <2>4 DEF Describable
<1>. QED  BY <1>1, <1>4, <1>5 DEF c

-----------------------------------------------------------------------------
(***************************************************************************)
(* The invariant: the client holds the state of a machine of two regions,  *)
(* and what can be described once can be described ever after.             *)
(***************************************************************************)
Described ==
  /\ served \in Cpus /\ state = StateOf(served)
  /\ CodeAndStack(served.mem)
  /\ Describable(loaded.mem) => Describable(served.mem)
  /\ reply \in Halts \cup Faults
  /\ outcome \in {"stepping", "stepLimit"} \cup ((Halts \cup Faults) \ {"none"})
  /\ trace \in Seq(Effects) /\ output \in Seq(Word) /\ lost \in Seq(Word)

\* The first machine has its code and its stack, wherever the code is.
LEMMA LoadedCodeAndStack ==
  ASSUME NEW code \in Images, NEW base \in Bases
  PROVE  /\ TheRun!WithCode(code, base) \in Cpus
         /\ CodeAndStack(TheRun!WithCode(code, base).mem)
<1> DEFINE text == TheRun!Text(code, base)
           stack == TheRun!Stack
           regs == [r \in Reg |-> IF r = "rsp" THEN StackBase + StackSize - 1 ELSE 0]
           mem == MapWith(MapWith(<<>>, text), stack)
<1>1. /\ 0 \in Word /\ StackBase + StackSize - 1 \in Word /\ StackBase \in Word
      /\ base \in Word /\ code \in Seq(Word)
  BY WordModIsPositive, StackFits, BasesAreAddresses, ImagesAreCode DEF Word
<1>2. text \in Regions /\ text.base = base /\ text.perms = {"r", "x"}
  BY <1>1 DEF TheRun!Text, Regions, Perms
<1>3. stack \in Regions /\ stack.base = StackBase /\ stack.perms = {"r", "w"}
  <2>1. [k \in 1 .. StackSize |-> 0] \in Seq(Word)
    BY <1>1, StackFits
  <2>. QED  BY <1>1, <2>1 DEF TheRun!Stack, Regions, Perms
<1> HIDE DEF text, stack
<1>4. mem = IF text.base < stack.base THEN <<text, stack>> ELSE <<stack, text>>
  BY <1>2, <1>3, MapsFirst, MapsSecond
<1>5. CodeAndStack(mem)
  <2>1. text.base \in Int /\ stack.base \in Int
    BY <1>1, <1>2, <1>3 DEF Word
  <2>2. text.perms # stack.perms
    <3>1. "x" \notin {"r", "w"}
      OBVIOUS
    <3>. QED  BY <1>2, <1>3, <3>1, Zenon
  <2>3. CASE text.base < stack.base
    <3>1. mem = <<text, stack>>
      BY <1>4, <2>3
    <3> HIDE DEF mem
    <3>. QED  BY <1>2, <1>3, <2>1, <2>2, <2>3, <3>1 DEF CodeAndStack, Memories
  <2>4. CASE ~(text.base < stack.base)
    <3>1. mem = <<stack, text>>
      BY <1>4, <2>4
    <3> HIDE DEF mem
    <3>. QED  BY <1>2, <1>3, <2>1, <2>2, <2>4, <3>1 DEF CodeAndStack, Memories
  <2>. QED  BY <2>3, <2>4
<1>6. regs \in [Reg -> Word]
  BY <1>1
<1>7. TheRun!WithCode(code, base) =
        [regs |-> regs, rip |-> base, flags |-> NoFlags, mem |-> mem, halt |-> "none",
         stdout |-> <<>>, stderr |-> <<>>]
  BY SameSets, SameMemory DEF TheRun!WithCode, text, stack
<1> HIDE DEF regs, mem
<1>8. NoFlags \in Flags /\ "none" \in Halts /\ <<>> \in Seq(Word)
  BY DEF NoFlags, Flags, Halts
<1>. QED  BY <1>1, <1>5, <1>6, <1>7, <1>8 DEF Cpus, CodeAndStack

LEMMA InitIsDescribed == Init => Described
<1> SUFFICES ASSUME Init PROVE Described
  OBVIOUS
<1>1. PICK code \in Images, base \in Bases : loaded = TheRun!WithCode(code, base)
  BY DEF Init
<1>2. loaded \in Cpus /\ CodeAndStack(loaded.mem)
  BY <1>1, LoadedCodeAndStack
<1>3. /\ served = loaded /\ state = StateOf(loaded) /\ reply = "none" /\ outcome = "stepping"
      /\ trace = <<>> /\ output = <<>> /\ lost = <<>>
  BY DEF Init
<1>. QED  BY <1>2, <1>3 DEF Described, Halts

\* What the server steps: the machine the state was taken from, as far as the
\* state describes it, with nothing printed.
LEMMA ServedMachine ==
  ASSUME Described
  PROVE  /\ FromState(state) \in Cpus
         /\ CodeAndStack(FromState(state).mem)
         /\ FromState(state).mem = Mapping(state.memory)
         /\ Describable(served.mem) =>
              /\ state.memory = served.mem /\ state.memory \in Memories
              /\ FromState(state) =
                   Machine(state.regs, state.rip, state.flags, state.memory, "none", <<>>, <<>>)
<1>1. /\ state.regs \in [Reg -> Word] /\ state.rip \in Word /\ state.flags \in Flags
      /\ state.memory = Carried(served.mem)
  BY DEF Described, StateOf, Cpus
<1>2. /\ CodeAndStack(Mapping(state.memory))
      /\ Describable(served.mem) => Mapping(state.memory) = served.mem
  BY <1>1, RoundTripOfTwo DEF Described
<1>3. /\ FromState(state).mem = Mapping(state.memory)
      /\ FromState(state) \in Cpus
  BY <1>1, <1>2 DEF FromState, Cpus, Halts, CodeAndStack
<1>4. ASSUME Describable(served.mem)
      PROVE  state.memory = served.mem /\ state.memory \in Memories
  BY <1>1, <1>4, DescribableIsCarried DEF Described, CodeAndStack
<1>5. ASSUME Describable(served.mem)
      PROVE  FromState(state) =
               Machine(state.regs, state.rip, state.flags, state.memory, "none", <<>>, <<>>)
  BY <1>2, <1>4, <1>5 DEF FromState, Machine
<1>. QED  BY <1>2, <1>3, <1>4, <1>5

\* A request keeps it so.
LEMMA RequestDescribes ==
  ASSUME Described, Request
  PROVE  Described'
<1> DEFINE c == FromState(state)
           m == Step(c)
<1>1. Answers(c, m)
  BY DEF Request
<1>2. /\ c \in Cpus /\ CodeAndStack(c.mem)
      /\ Describable(served.mem) => c.mem = served.mem
  BY ServedMachine, RoundTripOfTwo DEF Described, StateOf
<1> HIDE DEF c
<1>3. m \in Steps /\ m.cpu \in Cpus /\ m.cpu.mem \in Memories /\ Protected(c.mem, m.cpu.mem)
  BY <1>2, StepAdvances DEF Steps, Cpus
<1>4. CodeAndStack(m.cpu.mem) /\ (Describable(c.mem) => Describable(m.cpu.mem))
  <2> HIDE DEF m
  <2>. QED  BY <1>2, <1>3, SteppedRegions
<1>5. Describable(loaded.mem) => Describable(m.cpu.mem)
  <2> HIDE DEF m
  <2>. QED  BY <1>2, <1>4 DEF Described
<1>6. /\ m.cpu.halt \in Halts /\ m.fault \in Faults
      /\ m.cpu.stdout \in Seq(Word) /\ m.cpu.stderr \in Seq(Word)
  BY <1>3 DEF Steps, Cpus
<1>7. trace' \in Seq(Effects) /\ reply' \in Halts \cup Faults
  <2>1. CASE m.fault = "none"
    <3>1. EffectsOf(c, m) \in Effects
      BY <1>2, <2>1, EffectsAreTyped
    <3> HIDE DEF m
    <3>. QED  BY <1>1, <1>6, <2>1, <3>1 DEF Answers, Described
  <2>2. CASE m.fault # "none"
    <3> HIDE DEF m
    <3>. QED  BY <1>1, <1>6, <2>2 DEF Answers, Described
  <2>. QED  BY <2>1, <2>2
<1> HIDE DEF m
<1>8. /\ served' = m.cpu /\ state' = StateOf(served')
      /\ outcome' = outcome /\ loaded' = loaded
      /\ output' = output \o m.cpu.stdout /\ lost' = lost \o m.cpu.stderr
  BY <1>1 DEF Answers, StateOf
<1>9. output' \in Seq(Word) /\ lost' \in Seq(Word)
  BY <1>6, <1>8 DEF Described
<1>. QED  BY <1>3, <1>4, <1>5, <1>7, <1>8, <1>9 DEF Described

LEMMA NextDescribes == Described /\ [Next]_vars => Described'
<1> SUFFICES ASSUME Described, [Next]_vars PROVE Described'
  OBVIOUS
<1>1. CASE Request
  BY <1>1, RequestDescribes
<1>2. CASE Concludes
  BY <1>2 DEF Concludes, Described, StateOf
<1>3. CASE UNCHANGED vars
  BY <1>3 DEF Described, vars, StateOf
<1>. QED  BY <1>1, <1>2, <1>3 DEF Next, Finished

\* Whatever the program does and wherever it is loaded, what the server rebuilds
\* from the state that the client holds is the memory that state was taken from
\* (architecture.md:153) exactly when the two regions have bases of their own and
\* neither is longer than a response carries.
THEOREM CapturesAlwaysExact == Spec => []CapturesAreExact
<1>1. Described => CapturesAreExact
  BY RoundTripOfTwo DEF Described, CapturesAreExact, StateOf
<1>. QED  BY <1>1, InitIsDescribed, NextDescribes, PTL DEF Spec

-----------------------------------------------------------------------------
(***************************************************************************)
(* The refinement: what the client holds, with what it was told was        *)
(* printed, is the machine of the run; what stopped it is what stops that. *)
(***************************************************************************)
Client ==
  Machine(state.regs, state.rip, state.flags, state.memory,
          IF reply \in Halts THEN reply ELSE "none", output, lost)
Stopped ==
  IF outcome = "stepping" /\ reply \in Faults \ {"none"} THEN reply
  ELSE IF outcome = "stepping" THEN "running" ELSE outcome

\* The actions of the run, said of the client.
LEMMA TheRunOfTheClient ==
  /\ TheRun!vars = <<Client, trace, Len(trace), Stopped, loaded>>
  /\ TheRun!vars' = <<Client', trace', Len(trace)', Stopped', loaded'>>
  /\ TheRun!MayStep <=> Stopped = "running" /\ Client.halt = "none" /\ Len(trace) < MaxRequests
  /\ TheRun!StopOnHalt <=>
       /\ Stopped = "running" /\ Client.halt # "none"
       /\ Stopped' = Client.halt
       /\ Client' = Client /\ trace' = trace /\ Len(trace)' = Len(trace) /\ loaded' = loaded
  /\ TheRun!StopOnLimit <=>
       /\ Stopped = "running" /\ Client.halt = "none" /\ Len(trace) >= MaxRequests
       /\ Stopped' = "stepLimit"
       /\ Client' = Client /\ trace' = trace /\ Len(trace)' = Len(trace) /\ loaded' = loaded
  /\ \A m : TheRun!Retires(m) <=>
       /\ m.fault = "none"
       /\ Len(trace)' = Len(trace) + 1
       /\ trace' = IF Len(trace) < MaxRequests THEN Append(trace, EffectsOf(Client, m)) ELSE trace
       /\ Stopped' = Stopped
  /\ \A m : TheRun!FaultsWith(m) <=>
       /\ m.fault # "none"
       /\ Stopped' = m.fault
       /\ trace' = trace /\ Len(trace)' = Len(trace)
  /\ TheRun!TakesStep <=>
       \E m \in {Step(Client)} :
          Client' = m.cpu /\ loaded' = loaded /\ (TheRun!Retires(m) \/ TheRun!FaultsWith(m))
<1>1. Client = [regs |-> state.regs, rip |-> state.rip, flags |-> state.flags,
                mem |-> state.memory, stdout |-> output, stderr |-> lost,
                halt |-> IF reply \in Halts THEN reply ELSE "none"]
  BY DEF Client, Machine
<1>2. Stopped = IF outcome = "stepping" /\ reply \in Faults \ {"none"} THEN reply
                ELSE IF outcome = "stepping" THEN "running" ELSE outcome
  BY DEF Stopped
<1>3. TheRun!vars = <<Client, trace, Len(trace), Stopped, loaded>>
  BY <1>1, <1>2, SameSets, Zenon DEF TheRun!vars
<1>4. TheRun!MayStep <=> /\ Stopped = "running" /\ Client.halt = "none"
                         /\ Len(trace) < MaxRequests
  BY <1>1, <1>2, SameSets, Zenon DEF TheRun!MayStep
<1>5. /\ Client' = [regs |-> state'.regs, rip |-> state'.rip, flags |-> state'.flags,
                    mem |-> state'.memory, stdout |-> output', stderr |-> lost',
                    halt |-> IF reply' \in Halts THEN reply' ELSE "none"]
      /\ Stopped' = IF outcome' = "stepping" /\ reply' \in Faults \ {"none"} THEN reply'
                    ELSE IF outcome' = "stepping" THEN "running" ELSE outcome'
  BY DEF Client, Machine, Stopped
<1>6. TheRun!StopOnHalt <=>
        /\ Stopped = "running" /\ Client.halt # "none"
        /\ Stopped' = Client.halt
        /\ Client' = Client /\ trace' = trace /\ Len(trace)' = Len(trace) /\ loaded' = loaded
  BY <1>1, <1>2, <1>5, SameSets, Zenon DEF TheRun!StopOnHalt
<1>7. TheRun!StopOnLimit <=>
        /\ Stopped = "running" /\ Client.halt = "none" /\ Len(trace) >= MaxRequests
        /\ Stopped' = "stepLimit"
        /\ Client' = Client /\ trace' = trace /\ Len(trace)' = Len(trace) /\ loaded' = loaded
  BY <1>1, <1>2, <1>5, SameSets, Zenon DEF TheRun!StopOnLimit
<1>8. ASSUME NEW m
      PROVE  TheRun!Retires(m) <=>
               /\ m.fault = "none"
               /\ Len(trace)' = Len(trace) + 1
               /\ trace' = IF Len(trace) < MaxRequests THEN Append(trace, EffectsOf(Client, m))
                           ELSE trace
               /\ Stopped' = Stopped
  BY <1>1, <1>2, <1>5, SameSets, SameStep, Zenon DEF TheRun!Retires
<1>9. ASSUME NEW m
      PROVE  TheRun!FaultsWith(m) <=>
               /\ m.fault # "none"
               /\ Stopped' = m.fault
               /\ trace' = trace /\ Len(trace)' = Len(trace)
  BY <1>1, <1>2, <1>5, SameSets, Zenon DEF TheRun!FaultsWith
<1>10. TheRun!TakesStep <=>
         \E m \in {Step(Client)} :
            Client' = m.cpu /\ loaded' = loaded /\ (TheRun!Retires(m) \/ TheRun!FaultsWith(m))
  BY <1>1, <1>5, SameSets, SameStep, Zenon DEF TheRun!TakesStep
<1>11. TheRun!vars' = <<Client', trace', Len(trace)', Stopped', loaded'>>
  BY <1>5, SameSets, Zenon DEF TheRun!vars
<1>. QED  BY <1>3, <1>4, <1>6, <1>7, <1>8, <1>9, <1>10, <1>11

\* Reasons to stop are told apart from running, and halts from faults.
LEMMA ReasonsAreDistinct ==
  /\ \A h \in Halts : h # "running" /\ h # "stepping" /\ h \notin Faults \ {"none"}
  /\ \A f \in Faults \ {"none"} : f # "running" /\ f # "stepping" /\ f \notin Halts
  /\ "none" \in Halts /\ "none" \in Faults
BY DEF Halts, Faults

\* A turn of the run loop executes what is at rip, whatever its class.
LEMMA ATurnIsNext ==
  ASSUME TheRun!MayStep, TheRun!TakesStep,
         DecodeFault(Client) = "none" => Current(Client) \in Instruction
                                           /\ Current(Client).op # "invalid"
  PROVE  TheRun!Next
<1>1. Client = [regs |-> state.regs, rip |-> state.rip, flags |-> state.flags,
                mem |-> state.memory, stdout |-> output, stderr |-> lost,
                halt |-> IF reply \in Halts THEN reply ELSE "none"]
  BY DEF Client, Machine
<1>2. CASE DecodeFault(Client) # "none"
  <2>1. TheRun!CannotDecode
    BY <1>1, <1>2, SameSets, SameStep, Zenon DEF TheRun!CannotDecode
  <2>. QED  BY <2>1, Zenon DEF TheRun!Next
<1>3. CASE DecodeFault(Client) = "none"
  <2>1. ASSUME NEW ops, Current(Client).op \in ops
        PROVE  TheRun!Executes(ops)
    BY <1>1, <1>3, <2>1, SameSets, SameStep, Zenon DEF TheRun!Executes
  <2> DEFINE op == Current(Client).op
  <2>2. op \in Ops
    BY <1>3 DEF Instruction
  <2> HIDE DEF op
  <2>3. \/ op \in BinaryOps \cup UnaryOps \cup ShiftOps
        \/ op \in CompareOps
        \/ op \in WideOps \cup {"imul2", "cqo"}
        \/ op \in MoveOps \/ op \in StackOps \/ op \in BranchOps \/ op \in SystemOps
    BY <2>2 DEF Ops
  <2>4. CASE op \in BinaryOps \cup UnaryOps \cup ShiftOps
    <3>1. TheRun!Calculate
      BY <2>1, <2>4, SameSets DEF TheRun!Calculate, op
    <3>. QED  BY <3>1, Zenon DEF TheRun!Next
  <2>5. CASE op \in CompareOps
    <3>1. TheRun!Compare
      BY <2>1, <2>5, SameSets DEF TheRun!Compare, op
    <3>. QED  BY <3>1, Zenon DEF TheRun!Next
  <2>6. CASE op \in WideOps \cup {"imul2", "cqo"}
    <3>1. TheRun!Multiply
      BY <2>1, <2>6, SameSets DEF TheRun!Multiply, op
    <3>. QED  BY <3>1, Zenon DEF TheRun!Next
  <2>7. CASE op \in MoveOps
    <3>1. TheRun!Move
      BY <2>1, <2>7, SameSets DEF TheRun!Move, op
    <3>. QED  BY <3>1, Zenon DEF TheRun!Next
  <2>8. CASE op \in StackOps
    <3>1. TheRun!UseStack
      BY <2>1, <2>8, SameSets DEF TheRun!UseStack, op
    <3>. QED  BY <3>1, Zenon DEF TheRun!Next
  <2>9. CASE op \in BranchOps
    <3>1. TheRun!Branch
      BY <2>1, <2>9, SameSets DEF TheRun!Branch, op
    <3>. QED  BY <3>1, Zenon DEF TheRun!Next
  <2>10. CASE op \in SystemOps
    <3>1. TheRun!CallSystem
      BY <2>1, <2>10, SameSets DEF TheRun!CallSystem, op
    <3>. QED  BY <3>1, Zenon DEF TheRun!Next
  <2>. QED  BY <2>3, <2>4, <2>5, <2>6, <2>7, <2>8, <2>9, <2>10
<1>. QED  BY <1>2, <1>3

\* What decodes is no invalid instruction.
LEMMA DecodedIsValid ==
  ASSUME NEW c \in Cpus, DecodeFault(c) = "none"
  PROVE  Current(c) \in Instruction /\ Current(c).op # "invalid"
<1>1. Current(c) \in Instruction
  BY CurrentIsTyped
<1>2. Window(c).fault = "none" /\ Window(c).cells # <<>>
  BY Zenon DEF DecodeFault
<1>3. DecodeFault(c) = IF Current(c).op = "invalid" \/ Current(c).len > Len(Window(c).cells)
                         THEN "decode" ELSE "none"
  BY <1>2, Zenon DEF DecodeFault
<1>. QED  BY <1>1, <1>3

\* A request is a turn of the run loop, on a machine that can be described.
LEMMA RequestIsATurn ==
  ASSUME Described, Describable(loaded.mem), Request
  PROVE  TheRun!Next /\ TheRun!vars' # TheRun!vars
<1> DEFINE c == FromState(state)
           m == Step(c)
           n == Step(Client)
<1>0. /\ outcome = "stepping" /\ reply = "none" /\ Len(trace) < MaxRequests
      /\ Answers(c, m)
  BY DEF Request
<1>1. /\ c \in Cpus
      /\ c = Machine(state.regs, state.rip, state.flags, state.memory, "none", <<>>, <<>>)
      /\ Client = Machine(state.regs, state.rip, state.flags, state.memory, "none", output, lost)
      /\ output \in Seq(Word) /\ lost \in Seq(Word) /\ trace \in Seq(Effects)
  <2>1. Describable(served.mem)
    BY DEF Described
  <2>. QED  BY <1>0, <2>1, ServedMachine, ReasonsAreDistinct DEF Client, Described
<1>2. /\ c.halt = "none" /\ Client.halt = "none"
      /\ Client.rip = c.rip /\ Client.flags = c.flags
  BY <1>1 DEF Machine
<1> HIDE DEF c
<1>3. /\ Current(Client) = Current(c) /\ DecodeFault(Client) = DecodeFault(c)
      /\ Twins(output, lost, m, n)
  BY <1>1, TwinStep
<1>4. m \in Steps /\ (m.fault # "none" => m.cpu.halt = "none")
  BY <1>1, <1>2, StepAdvances
<1>5. m.cpu.halt \in Halts /\ m.fault \in Faults
  BY <1>4 DEF Steps, Cpus
<1> HIDE DEF m, n
<1>6. PICK regs, rip, flags, mem, halt, out, err, rw, mw, f :
        /\ m = Progressed(Machine(regs, rip, flags, mem, halt, out, err), rw, mw, f)
        /\ n = Progressed(Machine(regs, rip, flags, mem, halt, output \o out, lost \o err),
                          rw, mw, f)
  BY <1>3, Zenon DEF Twins
<1>7. /\ m.cpu = Machine(regs, rip, flags, mem, halt, out, err) /\ m.fault = f
      /\ n.cpu = Machine(regs, rip, flags, mem, halt, output \o out, lost \o err) /\ n.fault = f
      /\ n.regWrites = m.regWrites /\ n.memWrites = m.memWrites
      /\ n.cpu.rip = m.cpu.rip /\ n.cpu.flags = m.cpu.flags /\ m.cpu.halt = halt
      /\ m.cpu.stdout = out /\ m.cpu.stderr = err
  BY <1>6 DEF Progressed, Machine
<1>8. EffectsOf(Client, n) = EffectsOf(c, m)
  BY <1>2, <1>3, <1>7 DEF EffectsOf
<1>9. /\ state' = [regs |-> regs, rip |-> rip, flags |-> flags, memory |-> mem]
      /\ reply' = (IF f # "none" THEN f ELSE halt)
      /\ trace' = (IF f # "none" THEN trace ELSE Append(trace, EffectsOf(Client, n)))
      /\ output' = output \o out /\ lost' = lost \o err
      /\ outcome' = "stepping" /\ loaded' = loaded
  <2>0. Carried(m.cpu.mem) = m.cpu.mem
    <3>1. served' = m.cpu /\ loaded' = loaded
      BY <1>0 DEF Answers
    <3>2. CodeAndStack(m.cpu.mem) /\ Describable(m.cpu.mem)
      BY <3>1, RequestDescribes DEF Described
    <3>. QED  BY <3>2, DescribableIsCarried
  <2>1. StateOf(m.cpu) = [regs |-> regs, rip |-> rip, flags |-> flags, memory |-> mem]
    BY <1>7, <2>0 DEF StateOf, Machine
  <2>. QED  BY <1>0, <1>7, <1>8, <2>1 DEF Answers
<1>10. Stopped = "running"
  BY <1>0 DEF Stopped
<1>11. Client' = Machine(regs, rip, flags, mem, IF reply' \in Halts THEN reply' ELSE "none",
                         output \o out, lost \o err)
  BY <1>9 DEF Client, Machine
<1>12. TheRun!MayStep
  BY <1>0, <1>2, <1>10, TheRunOfTheClient
<1>13. DecodeFault(Client) = "none" => /\ Current(Client) \in Instruction
                                       /\ Current(Client).op # "invalid"
  BY <1>1, <1>3, DecodedIsValid
<1>14. CASE f = "none"
  <2>1. reply' = halt /\ halt \in Halts /\ Client' = n.cpu
    BY <1>5, <1>7, <1>9, <1>11, <1>14
  <2>2. Stopped' = "running"
    BY <1>9, <2>1, ReasonsAreDistinct DEF Stopped
  <2>3. trace' = Append(trace, EffectsOf(Client, n)) /\ Len(trace') = Len(trace) + 1
    BY <1>1, <1>9, <1>14
  <2>4. TheRun!Retires(n)
    BY <1>0, <1>7, <1>10, <1>14, <2>2, <2>3, TheRunOfTheClient
  <2>5. TheRun!TakesStep
    <3>1. n \in {Step(Client)} /\ Client' = n.cpu /\ loaded' = loaded
      BY <1>9, <2>1 DEF n
    <3>. QED  BY <2>4, <3>1, TheRunOfTheClient
  <2>6. Len(trace') # Len(trace)
    BY <1>1, <2>3
  <2>7. TheRun!vars' # TheRun!vars
    BY <2>6, TheRunOfTheClient
  <2>. QED  BY <1>12, <1>13, <2>5, <2>7, ATurnIsNext
<1>15. CASE f # "none"
  <2>1. reply' = f /\ f \in Faults \ {"none"} /\ f \notin Halts /\ halt = "none"
    BY <1>4, <1>5, <1>7, <1>9, <1>15, ReasonsAreDistinct
  <2>2. Client' = n.cpu
    BY <1>7, <1>11, <2>1
  <2>3. Stopped' = f /\ Stopped' # "running"
    BY <1>9, <2>1, ReasonsAreDistinct DEF Stopped
  <2>4. TheRun!FaultsWith(n)
    BY <1>7, <1>9, <1>15, <2>3, TheRunOfTheClient
  <2>5. TheRun!TakesStep
    <3>1. n \in {Step(Client)} /\ Client' = n.cpu /\ loaded' = loaded
      BY <1>9, <2>2 DEF n
    <3>. QED  BY <2>4, <3>1, TheRunOfTheClient
  <2>6. TheRun!vars' # TheRun!vars
    BY <1>10, <2>3, TheRunOfTheClient
  <2>. QED  BY <1>12, <1>13, <2>5, <2>6, ATurnIsNext
<1>. QED  BY <1>14, <1>15

\* A client that concludes is the loop returning, or has stopped already.
LEMMA ConcludingStops ==
  ASSUME Described, Concludes
  PROVE  /\ TheRun!Next \/ UNCHANGED TheRun!vars
         /\ Stopped' # "running"
<1>1. /\ outcome = "stepping" /\ outcome' = IF reply # "none" THEN reply ELSE "stepLimit"
      /\ reply # "none" \/ Len(trace) = MaxRequests
      /\ state' = state /\ reply' = reply /\ trace' = trace /\ output' = output /\ lost' = lost
      /\ loaded' = loaded
  BY DEF Concludes
<1>2. Client' = Client /\ Len(trace)' = Len(trace)
  BY <1>1 DEF Client
<1>3. Client.halt = IF reply \in Halts THEN reply ELSE "none"
  BY DEF Client, Machine
<1>4. reply \in Halts \cup Faults
  BY DEF Described
<1>5. CASE reply = "none"
  <2>1. Stopped = "running" /\ Stopped' = "stepLimit" /\ Client.halt = "none"
    BY <1>1, <1>3, <1>5 DEF Stopped
  <2>2. Len(trace) >= MaxRequests
    BY <1>1, <1>5, RequestsAreCounted
  <2>3. TheRun!StopOnLimit
    BY <1>1, <1>2, <2>1, <2>2, TheRunOfTheClient
  <2>. QED  BY <2>1, <2>3 DEF TheRun!Next
<1>6. CASE reply \in Halts \ {"none"}
  <2>1. Stopped = "running" /\ Client.halt = reply /\ reply # "none"
    BY <1>1, <1>3, <1>6, ReasonsAreDistinct DEF Stopped
  <2>2. Stopped' = reply
    BY <1>1, <1>6, ReasonsAreDistinct DEF Stopped
  <2>3. TheRun!StopOnHalt
    BY <1>1, <1>2, <2>1, <2>2, TheRunOfTheClient
  <2>. QED  BY <1>6, <2>2, <2>3, ReasonsAreDistinct DEF TheRun!Next
<1>7. CASE reply \in Faults \ {"none"}
  <2>1. Stopped = reply /\ Stopped' = reply
    BY <1>1, <1>7, ReasonsAreDistinct DEF Stopped
  <2>2. UNCHANGED TheRun!vars
    BY <1>1, <1>2, <2>1, TheRunOfTheClient
  <2>. QED  BY <1>7, <2>1, <2>2, ReasonsAreDistinct
<1>. QED  BY <1>4, <1>5, <1>6, <1>7

\* Every step of the client is one of the run or none, and one that changes
\* something moves the run or finds it stopped.
LEMMA NextIsATurnOfTheRun ==
  /\ Described /\ [Next]_vars => [Describable(loaded.mem) => TheRun!Next]_(TheRun!vars)
  /\ Described /\ Describable(loaded.mem) /\ <<Next>>_vars
       => <<TheRun!Next>>_(TheRun!vars) \/ Stopped' # "running"
  /\ [Next]_vars => loaded' = loaded
<1>1. ASSUME Described, [Next]_vars
      PROVE  [Describable(loaded.mem) => TheRun!Next]_(TheRun!vars)
  <2>1. CASE Request
    <3>1. ASSUME Describable(loaded.mem)
          PROVE  TheRun!Next
      BY <1>1, <2>1, <3>1, RequestIsATurn, Zenon
    <3>. QED  BY <3>1
  <2>2. CASE Concludes
    <3>1. TheRun!Next \/ UNCHANGED TheRun!vars
      BY <1>1, <2>2, ConcludingStops, Zenon
    <3>. QED  BY <3>1, Zenon
  <2>3. CASE UNCHANGED vars
    <3>1. /\ state' = state /\ reply' = reply /\ outcome' = outcome /\ trace' = trace
          /\ output' = output /\ lost' = lost /\ loaded' = loaded
      BY <2>3 DEF vars
    <3>2. Client' = Client /\ Len(trace)' = Len(trace) /\ Stopped' = Stopped
      BY <3>1 DEF Client, Stopped
    <3>3. UNCHANGED TheRun!vars
      BY <3>1, <3>2, TheRunOfTheClient
    <3>. QED  BY <3>3, Zenon
  <2>. QED  BY <1>1, <2>1, <2>2, <2>3, Zenon DEF Next, Finished
<1>2. ASSUME Described, Describable(loaded.mem), <<Next>>_vars
      PROVE  <<TheRun!Next>>_(TheRun!vars) \/ Stopped' # "running"
  <2>1. CASE Request
    BY <1>2, <2>1, RequestIsATurn, Zenon
  <2>2. CASE Concludes
    BY <1>2, <2>2, ConcludingStops, Zenon
  <2>. QED  BY <1>2, <2>1, <2>2, Zenon DEF Next, Finished
<1>3. ASSUME [Next]_vars PROVE loaded' = loaded
  BY <1>3 DEF Next, Request, Answers, Concludes, Finished, vars
<1>. QED  BY <1>1, <1>2, <1>3

\* The first state is that of a loaded program, if it can be described.
LEMMA InitIsTheRuns == Init => (Describable(loaded.mem) => TheRun!Init)
<1> SUFFICES ASSUME Init, Describable(loaded.mem) PROVE TheRun!Init
  OBVIOUS
<1> DEFINE held == [regs |-> state.regs, rip |-> state.rip, flags |-> state.flags,
                    mem |-> state.memory, stdout |-> output, stderr |-> lost,
                    halt |-> IF reply \in Halts THEN reply ELSE "none"]
<1>1. PICK code \in Images, base \in Bases : loaded = TheRun!WithCode(code, base)
  BY DEF Init
<1>2. /\ state = StateOf(loaded) /\ reply = "none" /\ outcome = "stepping"
      /\ trace = <<>> /\ output = <<>> /\ lost = <<>> /\ served = loaded
  BY DEF Init
<1>3. held = loaded
  <2>1. state.memory = loaded.mem
    BY <1>2, InitIsDescribed, ServedMachine
  <2>. QED  BY <1>1, <1>2, <2>1, ReasonsAreDistinct DEF StateOf, TheRun!WithCode
<1>4. Len(trace) = 0
  BY <1>2
<1>5. (IF outcome = "stepping" /\ reply \in Faults \ {"none"} THEN reply
       ELSE IF outcome = "stepping" THEN "running" ELSE outcome) = "running"
  BY <1>2
<1>. QED  BY <1>1, <1>2, <1>3, <1>4, <1>5, Zenon DEF TheRun!Init

\* A client that steps a program through the API until it is told to stop, or has
\* had enough, sees the run that /api/emu/run would have made of it, if a state
\* can describe its memory at all: the same machine, the same trace, the same
\* output and the same reason to stop, and it comes to its end because the run
\* does.
THEOREM SteppingFollowsTheRun == Spec => SteppingIsTheRun
<1> DEFINE D == Describable(loaded.mem)
<1>1. Init => Described
  BY InitIsDescribed
<1>2. Described /\ outcome # "stepping" => Stopped # "running"
  BY ReasonsAreDistinct DEF Described, Stopped
<1>3. Stopped # "running" <=>
        (IF outcome = "stepping" /\ reply \in Faults \ {"none"} THEN reply
         ELSE IF outcome = "stepping" THEN "running" ELSE outcome) # "running"
  BY DEF Stopped
<1>4. (Stopped # "running")' <=> Stopped' # "running"
  OBVIOUS
<1>5. D /\ [Next]_vars => D'
  BY NextIsATurnOfTheRun
<1>6. Init => (D => TheRun!Init)
  BY InitIsTheRuns
<1>7. Described /\ [Next]_vars => [D => TheRun!Next]_(TheRun!vars)
  BY NextIsATurnOfTheRun
<1>8. Described /\ D /\ <<Next>>_vars => <<TheRun!Next>>_(TheRun!vars) \/ Stopped' # "running"
  BY NextIsATurnOfTheRun
<1>. QED  BY <1>1, <1>2, <1>3, <1>4, <1>5, <1>6, <1>7, <1>8, NextDescribes, PTL
          DEF Spec, Fairness, SteppingIsTheRun, TheRun!Fairness
=============================================================================
