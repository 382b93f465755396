------------------------------ MODULE Ownership ------------------------------
(***************************************************************************)
(* What the generated code does with heap cells when one call of the       *)
(* function runs.  The emitters of codegen/ are followed in the order of   *)
(* the checker's walk: statements on the executed path act on the heap, an *)
(* arm that is not executed only declares its names.  path records, for    *)
(* every open if, case or loop, whether its current arm is the executed    *)
(* one; which arm runs and whether a loop runs at all is not determined.   *)
(* Variables live in allocas of the entry block: a name declared off the   *)
(* path denotes an alloca nothing was stored to.                           *)
(***************************************************************************)
EXTENDS LinearProgram

CONSTANTS Layout,     \* slots of a type that hold a pointer in the variable
          FieldType,  \* type of a field of a type
          Cells,      \* bound: cells one execution may allocate
          Nil,        \* no cell: never initialised
          NoType      \* a name not declared yet

CellOrNil == Cells \cup {Nil}
Value == [Slots -> CellOrNil]
NoValue == [s \in Slots |-> Nil]

ASSUME OwnershipAssumption ==
  /\ Nil \notin Cells /\ NoType \notin Types
  /\ Layout \in [Types -> SUBSET (Slots \ {Star})]
  /\ FieldType \in [Types -> [Fields -> Types \cup {NoType}]]

Faults == {"double_free", "use_after_free", "leak", "wild"}
Runs   == {"now", "waiting", "passed", "skip"}

VARIABLES env,      \* what each variable's alloca holds
          typ,      \* the type each name was last declared with
          heap,     \* state of each cell
          content,  \* the pointer stored in a cell
          path,     \* the executed path through the open constructs
          exited,   \* the call has returned
          faults    \* memory errors committed by the execution

ownVars == <<env, typ, heap, content, path, exited, faults>>

OwnTypeOK ==
  /\ env \in [Vars -> Value]
  /\ typ \in [Vars -> Types \cup {NoType}]
  /\ heap \in [Cells -> {"unused", "live", "gone"}]
  /\ content \in [Cells -> CellOrNil]
  /\ path \in Seq([run : Runs, entry : SUBSET Cells])
  /\ exited \in BOOLEAN
  /\ faults \subseteq Faults

OwnInit == /\ env = [v \in Vars |-> NoValue]
           /\ typ = [v \in Vars |-> NoType]
           /\ heap = [c \in Cells |-> "unused"]
           /\ content = [c \in Cells |-> Nil]
           /\ path = <<>>
           /\ exited = FALSE
           /\ faults = {}

On == ~exited /\ \A i \in DOMAIN path : path[i].run = "now"
LiveCells == {c \in Cells : heap[c] = "live"}

-----------------------------------------------------------------------------
(* Values *)

Star2(c) == IF c = Nil THEN Nil ELSE content[c]
Load(p)  == IF p[2] = Star THEN Star2(env[p[1]][Root]) ELSE env[p[1]][p[2]]

\* The pointers an owner of place p hands over, Nil when one is not set.
HeldAt(p) ==
  IF p[2] # Root THEN {Load(p)}
  ELSE {env[p[1]][s] : s \in Layout[typ[p[1]]]}
         \cup ({Star2(env[p[1]][Root])} \ {Nil})

\* The value of field f of x, as a variable of that field's type holds it.
FieldValue(x, f) ==
  [s \in Slots |->
     IF s \in Layout[FieldType[typ[x]][f]] THEN Load(<<x, f>>) ELSE Nil]

ValueAt(p) == IF p[2] = Root THEN env[p[1]] ELSE FieldValue(p[1], p[2])
TypeAt(p)  == IF p[2] = Root THEN typ[p[1]] ELSE FieldType[typ[p[1]]][p[2]]

\* A fresh value of type t: unused cells in its pointer slots.
FreshValues(t) ==
  {val \in [Slots -> {c \in Cells : heap[c] = "unused"} \cup {Nil}] :
     /\ \A s \in Slots : (val[s] # Nil) <=> (s \in Layout[t])
     /\ \A s, u \in Layout[t] : val[s] = val[u] => s = u}

CellsIn(val) == {val[s] : s \in Slots} \ {Nil}

-----------------------------------------------------------------------------
(* Steps of the execution.  hp is the heap a statement starts from: giving *)
(* cells away and allocating happen in one statement.                      *)

Given(ps)      == UNION {HeldAt(ps[i]) : i \in DOMAIN ps}
HeapAfter(C)   == [c \in Cells |-> IF c \in C THEN "gone" ELSE heap[c]]
HeapWith(h, C) == [c \in Cells |-> IF c \in C THEN "live" ELSE h[c]]

\* Faults of handing over ps to code that will free every pointer in it.
GiveFaults(ps) ==
  {f \in {"wild", "double_free"} :
     IF f = "wild" THEN Nil \in Given(ps)
     ELSE \/ \E c \in Given(ps) \cap Cells : heap[c] # "live"
          \/ \E i, j \in DOMAIN ps :
               i # j /\ HeldAt(ps[i]) \cap HeldAt(ps[j]) \cap Cells # {}}

UseFaults(c) ==
  IF c = Nil THEN {"wild"}
  ELSE IF heap[c] # "live" THEN {"use_after_free"} ELSE {}

\* Through which cell a slot is read: reading *x reads the cell x points to.
ReadFaults(p) == IF p[2] = Star THEN UseFaults(env[p[1]][Root]) ELSE {}

Bind(v, val) ==
  env' = IF On THEN [env EXCEPT ![v] = val]
         ELSE IF exited THEN env ELSE [env EXCEPT ![v] = NoValue]

OffPath == ~On /\ UNCHANGED <<heap, content, faults>>
OnPath(h, errs) == On /\ heap' = h /\ faults' = faults \cup errs

Declare(v, t) == typ' = [typ EXCEPT ![v] = t]
-----------------------------------------------------------------------------
(* Statements of the executed path *)

Same == UNCHANGED <<path, exited>>

\* let v = e, e a call or alloc that gets ps and yields val of type t.
RunVarDef(v, t, ps, val) ==
  /\ Same /\ Declare(v, t) /\ Bind(v, val)
  /\ \/ OffPath
     \/ /\ OnPath(HeapWith(HeapAfter(Given(ps)), CellsIn(val)), GiveFaults(ps))
        /\ UNCHANGED content

\* let v = p: the bits are copied, for a dereference out of the cell.
RunMove(v, p) ==
  /\ Same /\ Declare(v, TypeAt(p)) /\ Bind(v, ValueAt(p))
  /\ OffPath \/ (OnPath(heap, ReadFaults(p)) /\ UNCHANGED content)

\* let v = literal of type t with the elements ps in the fields keys.
OnlySlot(t)  == CHOOSE s \in Layout[t] : TRUE
ElementOf(p) == ValueAt(p)[OnlySlot(TypeAt(p))]
Packed(ps, keys) ==
  [s \in Slots |-> IF \E i \in DOMAIN keys : keys[i] = s
                      THEN ElementOf(ps[CHOOSE i \in DOMAIN keys : keys[i] = s])
                      ELSE Nil]
RunPack(v, t, ps, keys) ==
  /\ Same /\ Declare(v, t) /\ Bind(v, Packed(ps, keys))
  /\ OffPath \/ (OnPath(heap, {}) /\ UNCHANGED content)

\* let (a, b) = x: dst maps the fields of x to the names.
RunDestructure(x, dst) ==
  LET field(v) == CHOOSE f \in DOMAIN dst : dst[f] = v
      into(val(_)) == [v \in Vars |-> IF v \in Range(dst) THEN val(v) ELSE env[v]]
  IN /\ Same
     /\ typ' = [v \in Vars |-> IF v \in Range(dst)
                               THEN FieldType[typ[x]][field(v)] ELSE typ[v]]
     /\ env' = IF On THEN into(LAMBDA v : FieldValue(x, field(v)))
               ELSE IF exited THEN env ELSE into(LAMBDA v : NoValue)
     /\ OffPath \/ (OnPath(heap, {}) /\ UNCHANGED content)

\* A call statement: its result val is dropped.
RunCall(ps, val) ==
  /\ Same /\ UNCHANGED <<env, typ>>
  /\ \/ OffPath
     \/ /\ OnPath(HeapWith(HeapAfter(Given(ps)), CellsIn(val)), GiveFaults(ps))
        /\ UNCHANGED content

RunFree(p) ==
  LET c == Load(p) IN
  /\ Same /\ UNCHANGED <<env, typ>>
  /\ \/ OffPath
     \/ /\ OnPath(HeapAfter({c}),
                  ReadFaults(p) \cup
                    (IF c = Nil THEN {"wild"}
                     ELSE IF heap[c] # "live" THEN {"double_free"} ELSE {}))
        /\ UNCHANGED content

RunUse(p) ==
  /\ Same /\ UNCHANGED <<env, typ>>
  /\ \/ OffPath
     \/ OnPath(heap, ReadFaults(p) \cup UseFaults(Load(p))) /\ UNCHANGED content

\* *v = e: c is the pointer stored, Nil when e is not a pointer.
RunStoreDeref(v, c) ==
  LET into == env[v][Root] IN
  /\ Same /\ UNCHANGED <<env, typ>>
  /\ \/ OffPath
     \/ /\ OnPath(heap, UseFaults(into))
        /\ content' = IF into = Nil THEN content
                      ELSE [content EXCEPT ![into] = c]

\* b.f = p
RunStoreField(b, f, p) ==
  /\ Same /\ UNCHANGED typ
  /\ env' = IF On THEN [env EXCEPT ![b][f] = Load(p)] ELSE env
  /\ OffPath \/ (OnPath(heap, {}) /\ UNCHANGED content)

RunNothing == UNCHANGED ownVars

\* return: what the value holds goes to the caller, the rest must be gone.
LeakIn(h) == {f \in {"leak"} : \E c \in Cells : h[c] = "live"}
RunReturn(ps) ==
  /\ UNCHANGED <<env, typ, content, path>>
  /\ IF On THEN /\ heap' = HeapAfter(Given(ps))
                /\ faults' = faults \cup GiveFaults(ps) \cup LeakIn(heap')
                /\ exited' = TRUE
           ELSE UNCHANGED <<heap, faults, exited>>

RunFallOff ==
  /\ UNCHANGED <<env, typ, heap, content, path>>
  /\ faults' = faults \cup (IF exited THEN {} ELSE LeakIn(heap))
  /\ exited' = TRUE

-----------------------------------------------------------------------------
(* Control flow *)

RunBegin(runs) ==
  /\ \E r \in IF On THEN runs ELSE {"skip"} :
       path' = Append(path, [run |-> r,
                             entry |-> IF r = "now" THEN LiveCells ELSE {}])
  /\ UNCHANGED <<env, typ, heap, content, exited, faults>>

RunBeginBranch == RunBegin({"now", "waiting"})
RunBeginLoop   == RunBegin({"now", "skip"})

\* more: another arm may follow the next one.
RunNextArm(more) ==
  /\ \E r \in CASE Last(path).run = "now"     -> {"passed"}
                [] Last(path).run = "waiting" -> IF more THEN {"now", "waiting"}
                                                 ELSE {"now"}
                [] OTHER                      -> {Last(path).run} :
       path' = [path EXCEPT ![Len(path)].run = r]
  /\ UNCHANGED <<env, typ, heap, content, exited, faults>>

\* One arm of an if or a case is executed.
RunEndBranch ==
  /\ Last(path).run # "waiting"
  /\ path' = Front(path)
  /\ UNCHANGED <<env, typ, heap, content, exited, faults>>

\* The body may run again: it then consumes again what it took from outside
\* and forgets what it left behind.
RunEndLoop ==
  /\ path' = Front(path)
  /\ faults' = faults \cup
       IF ~On THEN {}
       ELSE {f \in {"double_free", "leak"} :
               IF f = "leak" THEN LiveCells \ Last(path).entry # {}
                             ELSE Last(path).entry \ LiveCells # {}}
  /\ UNCHANGED <<env, typ, heap, content, exited>>
=============================================================================
