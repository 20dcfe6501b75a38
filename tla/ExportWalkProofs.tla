-------------------------- MODULE ExportWalkProofs --------------------------
(***************************************************************************)
(* For headers of any length: the export list names what the snapshot      *)
(* guards, and the snapshot keeps the layout of every record.              *)
(*                                                                         *)
(* WalkInv says what each walk has found of the declarations behind it.    *)
(* The snapshot's walk leaves a declaration out when a definition of the   *)
(* same name is already recorded, so that complete must be known to hold   *)
(* the names of all definitions visited, and to be recorded.               *)
(***************************************************************************)
EXTENDS ExportWalk, MacroExpansionProofs

(* What the first n declarations contribute.                               *)
Defined(n) ==
    {ast[i].name : i \in {j \in 1..n : /\ ast[j].kind = "record" /\ ast[j].complete
                                       /\ ast[j].name \in Guarded}}
MembersOf(d) == IF d.kind = "enum" THEN NewMembers(d) ELSE {}
NotedBy(n) == UNION {MembersOf(ast[i]) : i \in 1..n}
ExportedBy(n) == UNION {ExportsOf(ast[i]) : i \in 1..n}
Names(n) == ExportedBy(n) \cup NotedBy(n)

LayoutKept(n) ==
    \A i \in 1..n :
        ast[i].kind = "record" /\ ast[i].complete /\ ast[i].name \in Guarded =>
            declarations[ast[i].name] = RecordFingerprint(ast[i])

SnapshotOf(n) ==
    /\ complete = Defined(n)
    /\ complete \subseteq Names(n)
    /\ DOMAIN declarations = Names(n)
    /\ LayoutKept(n)

WalkInv ==
    /\ WellFormed(ast)
    /\ phase \in {"collect", "export", "written", "raised"}
    /\ at \in 1..(Len(ast) + 1)
    /\ phase = "collect" =>
          SnapshotOf(at - 1) /\ members = NotedBy(at - 1) /\ exported = {}
    /\ phase # "collect" => SnapshotOf(Len(ast))
    /\ phase = "export" =>
          members = NotedBy(at - 1) /\ exported = ExportedBy(at - 1)
    /\ phase = "written" => exported = Names(Len(ast))
    /\ phase = "raised" /\ (\A m \in TypedMacros : typed[m] # Raises) =>
          ~(Required \subseteq Names(Len(ast)))

-----------------------------------------------------------------------------
(* A declaration adds its own contribution to those before it.             *)
LEMMA Contributions ==
    ASSUME NEW n \in Nat
    PROVE  /\ NotedBy(n + 1) = NotedBy(n) \cup MembersOf(ast[n + 1])
           /\ ExportedBy(n + 1) = ExportedBy(n) \cup ExportsOf(ast[n + 1])
           /\ Names(n + 1) = Names(n) \cup ExportsOf(ast[n + 1]) \cup MembersOf(ast[n + 1])
           /\ Defined(n + 1) = Defined(n) \cup
                (IF ast[n + 1].kind = "record" /\ ast[n + 1].complete
                    /\ ast[n + 1].name \in Guarded
                 THEN {ast[n + 1].name} ELSE {})
<1>0. 1..(n + 1) = (1..n) \cup {n + 1} /\ n + 1 \notin 1..n
  OBVIOUS
<1>1. NotedBy(n + 1) = NotedBy(n) \cup MembersOf(ast[n + 1])
  BY <1>0 DEF NotedBy
<1>2. ExportedBy(n + 1) = ExportedBy(n) \cup ExportsOf(ast[n + 1])
  BY <1>0 DEF ExportedBy
<1>3. Defined(n + 1) = Defined(n) \cup
                (IF ast[n + 1].kind = "record" /\ ast[n + 1].complete
                    /\ ast[n + 1].name \in Guarded
                 THEN {ast[n + 1].name} ELSE {})
  BY <1>0 DEF Defined
<1> QED
  BY <1>1, <1>2, <1>3 DEF Names

(* Nothing is contributed by no declarations.                              *)
LEMMA NoContribution == NotedBy(0) = {} /\ ExportedBy(0) = {} /\ Names(0) = {} /\ Defined(0) = {}
  BY DEF NotedBy, ExportedBy, Names, Defined

(* What the snapshot records of a declaration, together with what it has   *)
(* of those before, is what the exports have of it.                        *)
LEMMA EntriesAreExports ==
    ASSUME NEW n \in Nat, n + 1 \in DOMAIN ast, WellFormed(ast),
           complete = Defined(n), complete \subseteq Names(n),
           members = NotedBy(n)
    PROVE  Names(n) \cup DOMAIN Entries(ast[n + 1]) = Names(n + 1)
<1> DEFINE d == ast[n + 1]
<1>0. /\ Names(n + 1) = Names(n) \cup ExportsOf(d) \cup MembersOf(d)
      /\ d.kind \in Kinds
  BY Contributions DEF WellFormed
<1>1. CASE IsFunction(d)
  BY <1>0, <1>1, ApiLinesAssumption
     DEF ExportsOf, MembersOf, Entries, FunctionEntry, EntryIf, IsFunction, LineOf, IsType
<1>2. CASE d.kind = "record"
  <2>1. d.implicit => ~d.complete /\ (d.name \in Guarded => d.name \in complete)
    BY <1>2 DEF WellFormed, Defined
  <2> QED
    BY <1>0, <1>2, <2>1 DEF ExportsOf, MembersOf, Entries, RecordEntry, EntryIf, IsFunction, IsType
<1>3. CASE d.kind \in {"typedef", "template"}
  BY <1>0, <1>3
     DEF ExportsOf, MembersOf, Entries, TypeEntry, EntryIf, IsType, IsFunction
<1>4. CASE d.kind = "enum"
  <2>1. members \subseteq Names(n)
    BY DEF Names
  <2>2. MembersOf(d) = NewMembers(d) /\ NewMembers(d) \subseteq EnumeratorsOf(d)
    BY <1>4 DEF MembersOf, NewMembers
  <2>3. DOMAIN Entries(d) =
          (EnumeratorsOf(d) \cap (LlamaMembers \cup RequiredMembers
                                  \cup members \cup NewMembers(d)))
          \cup ({d.name} \cap Guarded)
    BY <1>4 DEF Entries, EnumEntries, TypeEntry, EntryIf, Over, IsFunction
  <2>4. ExportsOf(d) = ({d.name} \cap Guarded)
                       \cup (EnumeratorsOf(d) \cap (RequiredMembers \cup LlamaMembers))
    BY <1>4 DEF ExportsOf, IsFunction, IsType
  <2> QED
    BY <1>0, <2>1, <2>2, <2>3, <2>4
<1> QED
  BY <1>0, <1>1, <1>2, <1>3, <1>4 DEF Kinds, IsFunction

(* A declaration with the name of a definition before it records nothing   *)
(* of that name.                                                           *)
LEMMA DefinitionsStay ==
    ASSUME NEW n \in Nat, n + 1 \in DOMAIN ast, WellFormed(ast),
           complete = Defined(n),
           NEW i \in 1..n, ast[i].kind = "record", ast[i].complete,
           ast[i].name \in Guarded
    PROVE  ast[i].name \notin DOMAIN Entries(ast[n + 1])
<1> DEFINE d == ast[n + 1]
<1>0. /\ i \in DOMAIN ast /\ i # n + 1 /\ ast[i].name \in complete
      /\ d.kind \in Kinds
  BY DEF WellFormed, Defined
<1>1. CASE IsFunction(d)
  <2>1. ast[i].name # d.name
    BY <1>0, <1>1 DEF WellFormed, IsType, IsFunction
  <2> QED
    BY <1>1, <2>1 DEF Entries, FunctionEntry, EntryIf, IsFunction
<1>2. CASE d.kind = "record"
  <2>1. d.complete => ast[i].name # d.name
    BY <1>0, <1>2 DEF WellFormed
  <2> QED
    BY <1>0, <1>2, <2>1 DEF Entries, RecordEntry, EntryIf, IsFunction
<1>3. CASE d.kind \in {"typedef", "template"}
  <2>1. d.kind = "template" => ast[i].name # d.name
    BY <1>0, <1>3 DEF WellFormed
  <2> QED
    BY <1>0, <1>3, <2>1 DEF Entries, TypeEntry, EntryIf, IsFunction
<1>4. CASE d.kind = "enum"
  <2>1. ast[i].name \notin {d.name} \cup EnumeratorsOf(d)
    BY <1>0, <1>4 DEF WellFormed, IsType
  <2>2. DOMAIN Entries(d) \subseteq {d.name} \cup EnumeratorsOf(d)
    BY <1>4 DEF Entries, EnumEntries, TypeEntry, EntryIf, Over, IsFunction
  <2> QED
    BY <2>1, <2>2
<1> QED
  BY <1>0, <1>1, <1>2, <1>3, <1>4 DEF Kinds, IsFunction

-----------------------------------------------------------------------------
(* New entries leave the others alone (collect_api_snapshot).              *)
LEMMA OverKeeps ==
    ASSUME NEW new, NEW old, NEW n \in DOMAIN old, n \notin DOMAIN new
    PROVE  Over(new, old)[n] = old[n]
BY DEF Over

(* Before the walk nothing is found, of well-formed headers.               *)
LEMMA WalkInvInit == Init => WalkInv
<1> SUFFICES ASSUME Init PROVE WalkInv
  OBVIOUS
<1>1. WellFormed(ast) /\ Len(ast) \in Nat
  BY HeadersAssumption DEF Init, WellFormed
<1>2. at - 1 = 0 /\ phase = "collect" /\ at \in 1..(Len(ast) + 1)
  BY <1>1 DEF Init
<1>3. SnapshotOf(0)
  <2>1. DOMAIN declarations = {}
    BY DEF Init
  <2> QED
    BY <2>1, NoContribution DEF Init, SnapshotOf, LayoutKept
<1> QED
  BY <1>1, <1>2, <1>3, NoContribution DEF Init, WalkInv

(* The snapshot's walk records one more declaration.                       *)
LEMMA CollectKeepsWalkInv == WalkInv /\ Collect => WalkInv'
<1> SUFFICES ASSUME WalkInv, Collect PROVE WalkInv'
  OBVIOUS
<1> PICK n \in Nat : n = at - 1
  BY DEF WalkInv, WellFormed
<1> DEFINE d == ast[at]
<1>0. /\ n \in Nat /\ at = n + 1 /\ n + 1 \in DOMAIN ast /\ WellFormed(ast)
      /\ at' - 1 = n + 1 /\ at' \in 1..(Len(ast) + 1)
      /\ ast' = ast /\ phase = "collect" /\ phase' = "collect"
      /\ SnapshotOf(n) /\ members = NotedBy(n)
  BY DEF WalkInv, Collect, WellFormed
<1>1. WellFormed(ast)' /\ (at \in 1..(Len(ast) + 1))'
  BY <1>0
<1>2. /\ NotedBy(n + 1)' = NotedBy(n + 1) /\ Names(n + 1)' = Names(n + 1)
      /\ Defined(n + 1)' = Defined(n + 1)
  BY <1>0 DEF NotedBy, Names, ExportedBy, Defined
<1>3. members' = NotedBy(n + 1)
  BY <1>0, Contributions DEF Collect, NoteMembers, MembersOf
<1>4. complete' = Defined(n + 1)
  BY <1>0, Contributions DEF Collect, SnapshotOf
<1>5. declarations' = Over(Entries(d), declarations)
  BY DEF Collect
<1>6. DOMAIN declarations' = Names(n + 1)
  <2>1. DOMAIN declarations' = DOMAIN Entries(d) \cup DOMAIN declarations
    BY <1>5 DEF Over
  <2>2. DOMAIN declarations = Names(n)
    BY <1>0 DEF SnapshotOf
  <2>3. Names(n) \cup DOMAIN Entries(d) = Names(n + 1)
    BY <1>0, EntriesAreExports DEF SnapshotOf
  <2> QED
    BY <2>1, <2>2, <2>3
<1>7. complete' \subseteq Names(n + 1)
  <2>1. complete \subseteq Names(n) /\ Names(n) \subseteq Names(n + 1)
    BY <1>0, Contributions DEF SnapshotOf
  <2>2. d.kind = "record" /\ d.name \in Guarded => d.name \in Names(n + 1)
    BY <1>0, Contributions DEF ExportsOf, IsFunction, IsType
  <2> QED
    BY <2>1, <2>2 DEF Collect
<1>8. ASSUME NEW i \in 1..(n + 1), ast[i].kind = "record", ast[i].complete,
             ast[i].name \in Guarded
      PROVE  declarations'[ast[i].name] = RecordFingerprint(ast[i])
  <2>1. CASE i = n + 1
    <3>1. Entries(d) = EntryIf(TRUE, d.name, RecordFingerprint(d))
      BY <1>0, <1>8, <2>1 DEF Entries, RecordEntry, EntryIf, IsFunction
    <3>2. /\ d.name \in DOMAIN Entries(d)
          /\ Entries(d)[d.name] = RecordFingerprint(d)
      BY <3>1 DEF EntryIf
    <3>3. declarations'[d.name] = RecordFingerprint(d)
      BY <1>5, <3>2 DEF Over
    <3> QED
      BY <1>0, <2>1, <3>3
  <2>2. CASE i \in 1..n
    <3>1. ast[i].name \notin DOMAIN Entries(d)
      BY <1>0, <1>8, <2>2, DefinitionsStay DEF SnapshotOf
    <3>2. ast[i].name \in DOMAIN declarations
      BY <1>0, <1>8, <2>2 DEF SnapshotOf, Defined
    <3>3. declarations[ast[i].name] = RecordFingerprint(ast[i])
      BY <1>0, <1>8, <2>2 DEF SnapshotOf, LayoutKept
    <3>4. declarations'[ast[i].name] = declarations[ast[i].name]
      <4>1. Over(Entries(d), declarations)[ast[i].name]
              = declarations[ast[i].name]
        BY <1>0, <2>2, <3>1, <3>2, OverKeeps
      <4> QED
        BY <1>5, <4>1
    <3> QED
      BY <3>3, <3>4
  <2> QED
    BY <1>0, <2>1, <2>2
<1>9. SnapshotOf(n + 1)'
  <2>1. LayoutKept(n + 1)'
    <3>1. \A i \in 1..(n + 1) :
             RecordFingerprint(ast[i])' = RecordFingerprint(ast[i])
      BY <1>0 DEF RecordFingerprint, TypeFingerprint, Nameless
    <3>2. ast' = ast
      BY <1>0
    <3> QED
      BY <1>8, <3>1, <3>2 DEF LayoutKept
  <2> QED
    BY <1>2, <1>4, <1>6, <1>7, <2>1 DEF SnapshotOf
<1> QED
  BY <1>0, <1>1, <1>2, <1>3, <1>9 DEF WalkInv, Collect

(* Every step keeps the invariant.                                         *)
LEMMA WalkInvKept == WalkInv /\ [Next]_vars => WalkInv'
<1> SUFFICES ASSUME WalkInv, [Next]_vars PROVE WalkInv'
  OBVIOUS
<1>0. /\ WellFormed(ast) /\ Len(ast) \in Nat /\ DOMAIN ast = 1..Len(ast)
      /\ at \in 1..(Len(ast) + 1)
  BY DEF WalkInv, WellFormed
<1>a. ASSUME UNCHANGED <<ast, declarations, complete>>
      PROVE  /\ WellFormed(ast)'
             /\ \A n : /\ SnapshotOf(n)' = SnapshotOf(n)
                       /\ NotedBy(n)' = NotedBy(n)
                       /\ ExportedBy(n)' = ExportedBy(n)
                       /\ Names(n)' = Names(n)
  BY <1>0, <1>a DEF SnapshotOf, NotedBy, ExportedBy, Names, Defined, LayoutKept
<1>1. CASE Collect
  BY <1>1, CollectKeepsWalkInv
<1>2. CASE EndCollect
  <2>1. /\ at - 1 = Len(ast) /\ phase = "collect"
        /\ at' = 1 /\ at' - 1 = 0
    BY <1>0, <1>2 DEF EndCollect
  <2>2. AllExpand <=> \A m \in TypedMacros : typed'[m] # Raises
    BY <1>2 DEF EndCollect, AllExpand, TypedConstants
  <2>3. phase' = IF AllExpand THEN "export" ELSE "raised"
    BY <1>2 DEF EndCollect
  <2>4. SnapshotOf(Len(ast)) /\ exported = {}
    BY <2>1 DEF WalkInv
  <2>5. UNCHANGED <<ast, declarations, complete, exported>> /\ members' = {}
    BY <1>2 DEF EndCollect
  <2> QED
    BY <1>0, <1>a, <2>1, <2>2, <2>3, <2>4, <2>5, NoContribution DEF WalkInv
<1>3. CASE Export
  <2>1. /\ at \in Nat /\ at - 1 \in Nat /\ (at - 1) + 1 = at /\ at' - 1 = at
        /\ at' \in 1..(Len(ast) + 1) /\ phase = "export" /\ phase' = "export"
        /\ UNCHANGED <<ast, declarations, complete>>
    BY <1>0, <1>3 DEF Export
  <2>2. members' = NotedBy(at) /\ exported' = ExportedBy(at)
    BY <1>3, <2>1, Contributions DEF Export, NoteMembers, MembersOf, WalkInv
  <2> QED
    BY <1>0, <1>a, <2>1, <2>2 DEF WalkInv
<1>4. CASE EndExport
  <2>1. /\ at - 1 = Len(ast) /\ phase = "export"
        /\ UNCHANGED <<ast, at, declarations, complete, members, typed>>
    BY <1>0, <1>4 DEF EndExport
  <2>2. exported' = Names(Len(ast))
    BY <1>4, <2>1 DEF EndExport, WalkInv, Names
  <2>3. phase' = IF Required \subseteq exported' THEN "written" ELSE "raised"
    BY <1>4 DEF EndExport
  <2> QED
    BY <1>0, <1>a, <2>1, <2>2, <2>3 DEF WalkInv, Required
<1>5. CASE UNCHANGED vars
  BY <1>0, <1>a, <1>5 DEF vars, WalkInv, Required
<1> QED
  BY <1>1, <1>2, <1>3, <1>4, <1>5 DEF Next

(* The invariant holds of every walk of every header.                      *)
LEMMA WalkInvAlways == Spec => []WalkInv
  BY WalkInvInit, WalkInvKept, PTL DEF Spec

-----------------------------------------------------------------------------
(* Numbers.                                                                *)

(* Some numbers with an upper bound have a greatest one.                   *)
LEMMA GreatestNumber ==
    ASSUME NEW n \in Nat, NEW T \in SUBSET (1..n), T # {}
    PROVE  \E m \in T : \A k \in T : k <= m
<1> DEFINE D == {n - k : k \in T}
<1>1. D \subseteq Nat /\ \A k \in T : n - k \in D
  OBVIOUS
<1>2. D # {}
  BY <1>1
<1>3. \A d \in D : \E k \in T : d = n - k
  OBVIOUS
<1> HIDE DEF D
<1>4. PICK m \in D : \A l \in D : m <= l
  BY <1>1, <1>2, LeastNumber
<1>5. PICK j \in T : m = n - j
  BY <1>3
<1>6. ASSUME NEW k \in T PROVE k <= j
  <2>1. n - j <= n - k /\ k \in Nat /\ j \in Nat
    BY <1>1, <1>4, <1>5
  <2> QED
    BY <2>1
<1> QED
  BY <1>6

-----------------------------------------------------------------------------
(* The last enumerator with a value of its own is the last of those before *)
(* the next one with a value.                                              *)
LEMMA LastWritten ==
    ASSUME NEW n \in Nat, NEW T \in SUBSET (1..n), NEW m \in T, \A k \in T : k <= m
    PROVE  (CHOOSE j \in T : \A k \in T : k <= j) = m
<1> DEFINE last == CHOOSE j \in T : \A k \in T : k <= j
<1>1. last \in T /\ \A k \in T : k <= last
  OBVIOUS
<1> HIDE DEF last
<1>2. last <= m /\ m <= last /\ last \in 1..n /\ m \in 1..n
  BY <1>1
<1>3. last = m
  BY <1>2
<1> QED
  BY <1>3 DEF last

(* What C says of an enumerator and the one before it.                     *)
LEMMA ValueInCSteps ==
    ASSUME ImplicitAssumption, NEW values, NEW n \in Nat, DOMAIN values = 1..n,
           \A k \in 1..n : values[k] \in Int \cup {Implicit}, NEW i \in 1..n
    PROVE  /\ ValueInC(values, i) \in Int
           /\ values[i] # Implicit => ValueInC(values, i) = values[i]
           /\ values[i] = Implicit /\ i = 1 => ValueInC(values, i) = 0
           /\ values[i] = Implicit /\ i # 1 =>
                 ValueInC(values, i) = ValueInC(values, i - 1) + 1
<1> DEFINE Written(k) == {j \in 1..k : values[j] # Implicit}
           Latest(k) == CHOOSE j \in Written(k) : \A l \in Written(k) : l <= j
<1>1. \A k : ValueInC(values, k) =
          IF Written(k) = {} THEN k - 1 ELSE values[Latest(k)] + (k - Latest(k))
  BY DEF ValueInC
<1>2. ASSUME NEW k \in 1..n, Written(k) # {}
      PROVE  Latest(k) \in Written(k) /\ \A l \in Written(k) : l <= Latest(k)
  <2>1. k \in Nat /\ Written(k) \in SUBSET (1..k)
    OBVIOUS
  <2>2. \E m \in Written(k) : \A l \in Written(k) : l <= m
    BY <1>2, <2>1, GreatestNumber
  <2> QED
    BY <2>2
<1>3. ASSUME NEW k \in 1..n PROVE ValueInC(values, k) \in Int
  <2>1. CASE Written(k) = {}
    BY <1>1, <2>1
  <2>2. CASE Written(k) # {}
    <3>1. Latest(k) \in 1..k /\ values[Latest(k)] # Implicit
      BY <1>2, <2>2
    <3>2. values[Latest(k)] \in Int
      BY <3>1
    <3> HIDE DEF Latest, Written
    <3> QED
      BY <1>1, <2>2, <3>1, <3>2
  <2> QED
    BY <2>1, <2>2
<1>4. ASSUME values[i] # Implicit PROVE ValueInC(values, i) = values[i]
  <2>1. i \in Written(i) /\ \A l \in Written(i) : l <= i
    BY <1>4
  <2>2. Latest(i) = i
    <3>1. Latest(i) \in 1..i /\ i <= Latest(i)
      BY <1>2, <2>1
    <3> HIDE DEF Latest
    <3> QED
      BY <3>1
  <2>3. values[i] \in Int
    BY <1>4
  <2> HIDE DEF Latest, Written
  <2> QED
    BY <1>1, <2>1, <2>2, <2>3
<1>5. ASSUME values[i] = Implicit, i = 1 PROVE ValueInC(values, i) = 0
  <2>1. Written(i) = {}
    BY <1>5
  <2> QED
    BY <1>1, <1>5, <2>1
<1>6. ASSUME values[i] = Implicit, i # 1
      PROVE  ValueInC(values, i) = ValueInC(values, i - 1) + 1
  <2>1. i - 1 \in 1..n /\ 1..i = (1..(i - 1)) \cup {i}
    BY <1>6
  <2>2. Written(i) = Written(i - 1)
    BY <1>6, <2>1
  <2>3. Latest(i) = Latest(i - 1)
    BY <2>2
  <2>4. CASE Written(i) = {}
    BY <1>1, <2>1, <2>2, <2>4
  <2>5. CASE Written(i) # {}
    <3>1. Latest(i) \in 1..i /\ values[Latest(i)] \in Int
      <4>1. Latest(i) \in 1..i /\ values[Latest(i)] # Implicit
        BY <1>2, <2>5
      <4> QED
        BY <4>1
    <3>2. /\ ValueInC(values, i) = values[Latest(i)] + (i - Latest(i))
          /\ ValueInC(values, i - 1) = values[Latest(i)] + ((i - 1) - Latest(i))
      BY <1>1, <2>2, <2>3, <2>5
    <3> HIDE DEF Latest, Written
    <3> QED
      BY <3>1, <3>2
  <2> QED
    BY <2>4, <2>5
<1> QED
  BY <1>3, <1>4, <1>5, <1>6

(* _resolved_enum_values counts as C does, for enums of any length.        *)
LEMMA EnumValuesAreC ==
    ASSUME ImplicitAssumption, NEW values, NEW n \in Nat, DOMAIN values = 1..n,
           \A k \in 1..n : values[k] \in Int \cup {Implicit}
    PROVE  EnumValues(values) = [i \in 1..n |-> ValueInC(values, i)]
<1> DEFINE Resolved(g, i) == CASE values[i] # Implicit -> values[i]
                                  [] values[i] = Implicit /\ i = 1 -> 0
                                  [] OTHER -> g[i - 1] + 1
           Solves(g) == g = [i \in DOMAIN values |-> Resolved(g, i)]
           inC == [i \in 1..n |-> ValueInC(values, i)]
<1>1. EnumValues(values) = CHOOSE g : Solves(g)
  BY DEF EnumValues
<1>2. Solves(inC)
  <2>1. ASSUME NEW i \in 1..n PROVE inC[i] = Resolved(inC, i)
    <3>1. i # 1 => i - 1 \in 1..n
      OBVIOUS
    <3>2. /\ values[i] # Implicit => ValueInC(values, i) = values[i]
          /\ values[i] = Implicit /\ i = 1 => ValueInC(values, i) = 0
          /\ values[i] = Implicit /\ i # 1 =>
                ValueInC(values, i) = ValueInC(values, i - 1) + 1
      BY ValueInCSteps
    <3> QED
      BY <3>1, <3>2
  <2> QED
    BY <2>1
<1>3. ASSUME NEW g, Solves(g) PROVE g = inC
  <2>1. DOMAIN g = 1..n /\ \A i \in 1..n : g[i] = Resolved(g, i)
    BY <1>3
  <2>2. DOMAIN inC = 1..n /\ \A i \in 1..n : inC[i] = Resolved(inC, i)
    BY <1>2
  <2>3. g = [i \in 1..n |-> g[i]] /\ inC = [i \in 1..n |-> inC[i]]
    BY <1>3
  <2> HIDE DEF inC, Solves
  <2>4. \A i \in 1..n : g[i] = inC[i]
    <3> DEFINE Differ == {i \in 1..n : g[i] # inC[i]}
    <3> SUFFICES ASSUME Differ # {} PROVE FALSE
      OBVIOUS
    <3>0. Differ \in SUBSET Nat /\ \A i : i \in Differ <=> i \in 1..n /\ g[i] # inC[i]
      OBVIOUS
    <3> HIDE DEF Differ
    <3>1. PICK i \in Differ : \A j \in Differ : i <= j
      BY <3>0, LeastNumber
    <3>2. i # 1 => i - 1 \in 1..n /\ g[i - 1] = inC[i - 1]
      BY <3>0, <3>1
    <3>3. Resolved(g, i) = Resolved(inC, i)
      BY <3>2
    <3> QED
      BY <2>1, <2>2, <3>0, <3>1, <3>3
  <2> QED
    BY <2>3, <2>4
<1> HIDE DEF Solves, inC
<1>4. (CHOOSE g : Solves(g)) = inC
  BY <1>2, <1>3
<1> QED
  BY <1>1, <1>4 DEF inC

-----------------------------------------------------------------------------
(* What is recorded.                                                       *)

ValuesKept(n) ==
    \A i \in 1..n :
        ast[i].kind = "enum" =>
            \A j \in DOMAIN ast[i].members :
                ast[i].members[j] \in DOMAIN declarations =>
                    declarations[ast[i].members[j]].value
                        = ValueInC(ast[i].values, j)

NumbersRecorded ==
    \A name \in DOMAIN declarations :
        declarations[name].kind = "enumerator" =>
            declarations[name].value \in Int

RecordInv ==
    /\ \E input \in Inputs : ast = input.ast
    /\ phase = "collect" => ValuesKept(at - 1)
    /\ phase # "collect" => ValuesKept(Len(ast))
    /\ NumbersRecorded

(* A declaration contributes its name and its enumerators only.            *)
LEMMA OwnNames ==
    ASSUME NEW d, d.kind \in Kinds
    PROVE  /\ ExportsOf(d) \cup MembersOf(d) \subseteq {d.name} \cup EnumeratorsOf(d)
           /\ DOMAIN Entries(d) \subseteq
                 {d.name} \cup IF d.kind = "enum" THEN EnumeratorsOf(d) ELSE {}
<1>1. MembersOf(d) \subseteq EnumeratorsOf(d)
  BY DEF MembersOf, NewMembers
<1>2. ExportsOf(d) \subseteq {d.name} \cup EnumeratorsOf(d)
  BY DEF ExportsOf, Kinds, IsFunction, IsType
<1>3. DOMAIN Entries(d) \subseteq
          {d.name} \cup IF d.kind = "enum" THEN EnumeratorsOf(d) ELSE {}
  <2>1. CASE d.kind = "enum"
    BY <2>1 DEF Entries, EnumEntries, TypeEntry, EntryIf, Over, IsFunction
  <2>2. CASE IsFunction(d)
    BY <2>2 DEF Entries, FunctionEntry, EntryIf, IsFunction
  <2>3. CASE d.kind = "record"
    BY <2>3 DEF Entries, RecordEntry, EntryIf, IsFunction
  <2>4. CASE d.kind \in {"typedef", "template"}
    BY <2>4 DEF Entries, TypeEntry, EntryIf, IsFunction
  <2> QED
    BY <2>1, <2>2, <2>3, <2>4 DEF Kinds, IsFunction
<1> QED
  BY <1>1, <1>2, <1>3

(* An enumerator was not recorded before its enum, and nothing after its   *)
(* enum is recorded in its place.                                          *)
LEMMA EnumeratorsAreOwn ==
    ASSUME WellFormed(ast), NEW n \in Nat, n + 1 \in DOMAIN ast
    PROVE  /\ ast[n + 1].kind = "enum" =>
                 \A j \in DOMAIN ast[n + 1].members : ast[n + 1].members[j] \notin Names(n)
           /\ \A i \in 1..n : ast[i].kind = "enum" =>
                 \A j \in DOMAIN ast[i].members :
                    ast[i].members[j] \notin DOMAIN Entries(ast[n + 1])
<1>0. /\ \A i \in 1..(n + 1) : i \in DOMAIN ast /\ ast[i].kind \in Kinds
      /\ \A i \in 1..n : i # n + 1
  BY DEF WellFormed
<1>1. ASSUME NEW i \in DOMAIN ast, ast[i].kind = "enum",
             NEW j \in DOMAIN ast[i].members, NEW k \in DOMAIN ast, k # i
      PROVE  ast[i].members[j] \notin {ast[k].name} \cup EnumeratorsOf(ast[k])
  BY <1>1 DEF WellFormed, WellFormedEnum, EnumeratorsOf
<1>2. ASSUME ast[n + 1].kind = "enum", NEW j \in DOMAIN ast[n + 1].members
      PROVE  ast[n + 1].members[j] \notin Names(n)
  <2>1. ASSUME NEW k \in 1..n
        PROVE  ast[n + 1].members[j] \notin ExportsOf(ast[k]) \cup MembersOf(ast[k])
    BY <1>0, <1>1, <1>2, OwnNames
  <2> QED
    BY <2>1 DEF Names, ExportedBy, NotedBy
<1>3. ASSUME NEW i \in 1..n, ast[i].kind = "enum", NEW j \in DOMAIN ast[i].members
      PROVE  ast[i].members[j] \notin DOMAIN Entries(ast[n + 1])
  BY <1>0, <1>1, <1>3, OwnNames
<1> QED
  BY <1>2, <1>3

(* An enum records the value C gives each of its enumerators.              *)
LEMMA EnumEntriesAreC ==
    ASSUME WellFormed(ast), NEW i \in DOMAIN ast, ast[i].kind = "enum",
           NEW j \in DOMAIN ast[i].members,
           ast[i].members[j] \in DOMAIN Entries(ast[i])
    PROVE  /\ Entries(ast[i])[ast[i].members[j]].value = ValueInC(ast[i].values, j)
           /\ ValueInC(ast[i].values, j) \in Int
<1> DEFINE d == ast[i]
           m == d.members[j]
           guarded == LlamaMembers \cup RequiredMembers \cup members \cup NewMembers(d)
           Place(name) == CHOOSE k \in DOMAIN d.members : d.members[k] = name
           values == [name \in EnumeratorsOf(d) \cap guarded |->
                       [kind |-> "enumerator", value |-> EnumValues(d.values)[Place(name)]]]
           own == TypeEntry(d)
<1>1. WellFormedEnum(ast, i)
  BY DEF WellFormed
<1>2. m # d.name /\ \A k \in DOMAIN d.members : d.members[k] = m => k = j
  BY <1>1 DEF WellFormedEnum
<1>3. Place(m) = j
  BY <1>2
<1>4. /\ Entries(d) = Over(values, own)
      /\ DOMAIN values = EnumeratorsOf(d) \cap guarded
      /\ DOMAIN own \subseteq {d.name}
  BY DEF Entries, EnumEntries, TypeEntry, EntryIf, IsFunction
<1>5. m \in DOMAIN values
  BY <1>2, <1>4 DEF Over
<1>6. Entries(d)[m] = values[m]
  <2> HIDE DEF values, own, d, m
  <2> QED
    BY <1>4, <1>5 DEF Over
<1>7. values[m].value = EnumValues(d.values)[j]
  BY <1>3, <1>5
<1>8. PICK n \in Nat : /\ DOMAIN d.values = 1..n /\ j \in 1..n
                       /\ \A k \in 1..n : d.values[k] \in Int \cup {Implicit}
  BY <1>1 DEF WellFormedEnum
<1>9. EnumValues(d.values)[j] = ValueInC(d.values, j) /\ ValueInC(d.values, j) \in Int
  <2>1. EnumValues(d.values) = [k \in 1..n |-> ValueInC(d.values, k)]
    BY <1>8, ImplicitAssumption, EnumValuesAreC
  <2>2. ValueInC(d.values, j) \in Int
    BY <1>8, ImplicitAssumption, ValueInCSteps
  <2> QED
    BY <1>8, <2>1, <2>2
<1> QED
  BY <1>6, <1>7, <1>9

(* Only an enumerator is recorded as one, and with a number.               *)
LEMMA EntriesAreNumbers ==
    ASSUME WellFormed(ast), NEW i \in DOMAIN ast,
           NEW name \in DOMAIN Entries(ast[i]),
           Entries(ast[i])[name].kind = "enumerator"
    PROVE  Entries(ast[i])[name].value \in Int
<1> DEFINE d == ast[i]
<1>0. d.kind \in Kinds
  BY DEF WellFormed
<1>1. CASE IsFunction(d)
  BY <1>1 DEF Entries, FunctionEntry, EntryIf, IsFunction
<1>2. CASE d.kind = "record"
  BY <1>2 DEF Entries, RecordEntry, EntryIf, RecordFingerprint, IsFunction
<1>3. CASE d.kind \in {"typedef", "template"}
  BY <1>3 DEF Entries, TypeEntry, EntryIf, IsFunction
<1>4. CASE d.kind = "enum"
  <2>1. CASE name \in EnumeratorsOf(d)
    <3>1. PICK j \in DOMAIN d.members : name = d.members[j]
      BY <2>1 DEF EnumeratorsOf
    <3> QED
      BY <1>4, <3>1, EnumEntriesAreC
  <2>2. CASE name \notin EnumeratorsOf(d)
    <3> DEFINE own == TypeEntry(d)
    <3>1. Entries(d)[name] = own[name] /\ name \in DOMAIN own
      <4> HIDE DEF own
      <4> QED
        BY <1>4, <2>2 DEF Entries, EnumEntries, Over, own, IsFunction
    <3>2. own[name].kind = "enum"
      BY <1>4, <3>1 DEF TypeEntry, EntryIf
    <3> QED
      BY <3>1, <3>2
  <2> QED
    BY <2>1, <2>2
<1> QED
  BY <1>0, <1>1, <1>2, <1>3, <1>4 DEF Kinds, IsFunction

(* At first nothing is recorded.                                           *)
LEMMA RecordInvInit == Init => RecordInv
<1> SUFFICES ASSUME Init PROVE RecordInv
  OBVIOUS
<1>1. at - 1 = 0 /\ phase = "collect" /\ \E input \in Inputs : ast = input.ast
  BY DEF Init
<1>2. declarations = <<>> /\ DOMAIN declarations = {}
  BY DEF Init
<1> QED
  BY <1>1, <1>2 DEF RecordInv, ValuesKept, NumbersRecorded

(* The snapshot's walk records numbers only, and leaves recorded           *)
(* enumerators as they are.                                                *)
LEMMA CollectKeepsRecordInv == WalkInv /\ RecordInv /\ Collect => RecordInv'
<1> SUFFICES ASSUME WalkInv, RecordInv, Collect PROVE RecordInv'
  OBVIOUS
<1> PICK n \in Nat : n = at - 1
  BY DEF WalkInv, WellFormed
<1> DEFINE d == ast[at]
<1>0. /\ n \in Nat /\ at = n + 1 /\ n + 1 \in DOMAIN ast /\ WellFormed(ast)
      /\ at' - 1 = n + 1 /\ ast' = ast /\ phase = "collect" /\ phase' = "collect"
      /\ DOMAIN declarations = Names(n)
      /\ \A i \in 1..n : i \in DOMAIN ast
  BY DEF WalkInv, Collect, WellFormed, SnapshotOf
<1>1. /\ declarations' = Over(Entries(d), declarations)
      /\ \A name \in DOMAIN declarations' :
            declarations'[name] = IF name \in DOMAIN Entries(d)
                                  THEN Entries(d)[name] ELSE declarations[name]
      /\ DOMAIN declarations' = DOMAIN Entries(d) \cup DOMAIN declarations
  <2>1. declarations' = Over(Entries(d), declarations)
    BY DEF Collect
  <2> QED
    BY <2>1 DEF Over
<1>2. NumbersRecorded'
  <2> SUFFICES ASSUME NEW name \in DOMAIN declarations',
                      declarations'[name].kind = "enumerator"
               PROVE  declarations'[name].value \in Int
    BY DEF NumbersRecorded
  <2>1. CASE name \in DOMAIN Entries(d)
    BY <1>0, <1>1, <2>1, EntriesAreNumbers
  <2>2. CASE name \notin DOMAIN Entries(d)
    BY <1>1, <2>2 DEF RecordInv, NumbersRecorded
  <2> QED
    BY <2>1, <2>2
<1>4. ASSUME NEW i \in 1..(n + 1), ast[i].kind = "enum",
             NEW j \in DOMAIN ast[i].members,
             ast[i].members[j] \in DOMAIN declarations'
      PROVE  declarations'[ast[i].members[j]].value = ValueInC(ast[i].values, j)
  <2> DEFINE m == ast[i].members[j]
  <2>1. CASE i = n + 1
    <3>1. m \notin DOMAIN declarations
      BY <1>0, <1>4, <2>1, EnumeratorsAreOwn
    <3>2. m \in DOMAIN Entries(d) /\ declarations'[m] = Entries(d)[m]
      BY <1>1, <1>4, <3>1
    <3> QED
      BY <1>0, <1>4, <2>1, <3>2, EnumEntriesAreC
  <2>2. CASE i \in 1..n
    <3>1. m \notin DOMAIN Entries(d)
      BY <1>0, <1>4, <2>2, EnumeratorsAreOwn
    <3>2. m \in DOMAIN declarations /\ declarations'[m] = declarations[m]
      BY <1>1, <1>4, <3>1
    <3>3. ValuesKept(n)
      BY <1>0 DEF RecordInv
    <3> QED
      BY <1>4, <2>2, <3>2, <3>3 DEF ValuesKept
  <2> QED
    BY <1>0, <2>1, <2>2
<1>5. ValuesKept(n + 1)'
  <2>1. \A i, j : ValueInC(ast[i].values, j)' = ValueInC(ast[i].values, j)
    BY <1>0 DEF ValueInC
  <2>2. ast' = ast
    BY <1>0
  <2> QED
    BY <1>4, <2>1, <2>2 DEF ValuesKept
<1>6. \E input \in Inputs : ast' = input.ast
  BY <1>0 DEF RecordInv
<1> QED
  BY <1>0, <1>2, <1>5, <1>6 DEF RecordInv

(* The other steps leave the snapshot alone.                               *)
LEMMA RecordInvKept == WalkInv /\ RecordInv /\ [Next]_vars => RecordInv'
<1> SUFFICES ASSUME WalkInv, RecordInv, [Next]_vars PROVE RecordInv'
  OBVIOUS
<1>1. CASE Collect
  BY <1>1, CollectKeepsRecordInv
<1>2. CASE ~Collect
  <2>1. UNCHANGED <<ast, declarations>>
    BY <1>2 DEF Next, EndCollect, Export, EndExport, vars
  <2>2. \/ phase' = phase /\ at' = at
        \/ phase = "collect" /\ phase' # "collect" /\ at - 1 = Len(ast)
        \/ phase # "collect" /\ phase' # "collect"
    BY <1>2 DEF Next, EndCollect, Export, EndExport, vars, WalkInv, WellFormed
  <2>3. \A n : ValuesKept(n)' = ValuesKept(n)
    BY <2>1 DEF ValuesKept
  <2>4. NumbersRecorded'
    BY <2>1 DEF RecordInv, NumbersRecorded
  <2> QED
    BY <2>1, <2>2, <2>3, <2>4 DEF RecordInv
<1> QED
  BY <1>1, <1>2

(* The recorded values are right in every walk of every header.            *)
LEMMA RecordInvAlways == Spec => []RecordInv
  BY RecordInvInit, RecordInvKept, WalkInvAlways, WalkInvInit, WalkInvKept, PTL DEF Spec

-----------------------------------------------------------------------------
(* A consumer can name exactly the declarations whose signature is         *)
(* guarded, for headers of any length in any order (collect_api_snapshot   *)
(* against generate_exports).                                              *)
THEOREM EveryExportIsGuarded == Spec => []ExportsMatchSnapshot
<1>1. WalkInv => ExportsMatchSnapshot
  BY DEF WalkInv, SnapshotOf, ExportsMatchSnapshot
<1> QED
  BY <1>1, WalkInvAlways, PTL

(* No later declaration replaces the layout of a record in the snapshot    *)
(* (complete_records of collect_api_snapshot).                             *)
THEOREM EveryLayoutIsGuarded == Spec => []LayoutsAreGuarded
<1>1. WalkInv => LayoutsAreGuarded
  BY DEF WalkInv, SnapshotOf, LayoutKept, LayoutsAreGuarded, Visited, WellFormed
<1> QED
  BY <1>1, WalkInvAlways, PTL

(* Every recorded enumerator has the value C gives it, in enums of any     *)
(* length and mixture of written and implied values                        *)
(* (_resolved_enum_values).                                                *)
THEOREM EveryValueIsInC == Spec => []EnumeratorsHaveTheirValues
<1>1. RecordInv /\ WalkInv => EnumeratorsHaveTheirValues
  BY DEF RecordInv, ValuesKept, EnumeratorsHaveTheirValues, Visited, WalkInv, WellFormed
<1> QED
  BY <1>1, RecordInvAlways, WalkInvAlways, PTL

(* The snapshot has guarded names and numbers only                         *)
(* (collect_api_snapshot).                                                 *)
THEOREM TypeCorrect == Spec => []TypeOK
<1> DEFINE Enums == {j \in DOMAIN ast : ast[j].kind = "enum"}
           Known == LlamaNames \cup LlamaMembers \cup Required
                    \cup UNION {NewMembers(ast[i]) : i \in Enums}
<1>1. WalkInv /\ RecordInv => TypeOK
  <2> SUFFICES ASSUME WalkInv, RecordInv PROVE TypeOK
    OBVIOUS
  <2>1. PICK n \in Nat : SnapshotOf(n) /\ 1..n \subseteq DOMAIN ast
    BY DEF WalkInv, WellFormed
  <2>2. Names(n) \subseteq Known
    <3>1. ASSUME NEW i \in 1..n PROVE ExportsOf(ast[i]) \cup MembersOf(ast[i]) \subseteq Known
      <4>1. ast[i].kind \in Kinds /\ i \in DOMAIN ast
        BY <2>1 DEF WalkInv, WellFormed
      <4>2. ExportsOf(ast[i]) \subseteq LlamaNames \cup LlamaMembers \cup Required
        BY <4>1 DEF ExportsOf, Kinds, Required, Guarded, IsFunction, IsType
      <4>3. MembersOf(ast[i]) \subseteq UNION {NewMembers(ast[k]) : k \in Enums}
        BY <4>1 DEF MembersOf
      <4> QED
        BY <4>2, <4>3
    <3> HIDE DEF Known
    <3> QED
      BY <3>1 DEF Names, ExportedBy, NotedBy
  <2>3. complete \subseteq Guarded
    BY <2>1 DEF SnapshotOf, Defined
  <2>4. DOMAIN declarations \subseteq Known
    BY <2>1, <2>2 DEF SnapshotOf
  <2>5. NumbersRecorded /\ at \in 1..(Len(ast) + 1)
    BY DEF RecordInv, WalkInv
  <2> QED
    BY <2>3, <2>4, <2>5 DEF TypeOK, NumbersRecorded
<1> QED
  BY <1>1, RecordInvAlways, WalkInvAlways, PTL

-----------------------------------------------------------------------------
(* The tables of the inputs are ones that can be expanded.                 *)
LEMMA TableAlways == Spec => []TableOK(Tokens)
<1>1. Init => TableOK(Tokens)
  <2> SUFFICES ASSUME Init PROVE TableOK(Tokens)
    OBVIOUS
  <2>1. PICK input \in Inputs : macros = input.macros
    BY DEF Init
  <2>2. /\ DOMAIN macros \subseteq MacroNames
        /\ \A m \in DOMAIN macros : macros[m] = FunctionLike \/ macros[m] \in Seq(Tokens)
    BY <2>1, MacrosAssumption
  <2>3. IsFiniteSet(MacroNames) /\ Raises \notin Seq(Tokens)
    BY MacrosAssumption
  <2> QED
    BY <2>2, <2>3 DEF TableOK, ObjectMacros, Tokens
<1>2. TableOK(Tokens) /\ [Next]_vars => TableOK(Tokens)'
  <2> SUFFICES ASSUME TableOK(Tokens), [Next]_vars PROVE TableOK(Tokens)'
    OBVIOUS
  <2>1. macros' = macros
    BY DEF Next, Collect, EndCollect, Export, EndExport, vars
  <2> QED
    BY <2>1 DEF TableOK, ObjectMacros, Tokens
<1> QED
  BY <1>1, <1>2, PTL DEF Spec

(* Every constant has the tokens that are left of its macro when nothing   *)
(* can be replaced, and generation raises when that does not end           *)
(* (_expand_macro).                                                        *)
THEOREM EveryConstantIsExpanded == Spec => []ConstantsAreExpanded
<1>1. Init => ConstantsAreExpanded
  BY DEF Init, ConstantsAreExpanded
<1>2. TableOK(Tokens) /\ ConstantsAreExpanded /\ [Next]_vars => ConstantsAreExpanded'
  <2> SUFFICES ASSUME TableOK(Tokens), ConstantsAreExpanded, [Next]_vars,
                      phase' # "collect", NEW m \in TypedMacros
               PROVE  LET all == Replaced(<<m>>, Cardinality(MacroNames))'
                          finite == /\ m \in ObjectMacros'
                                    /\ \A i \in DOMAIN all : all[i] \notin ObjectMacros'
                      IN  typed'[m] = IF finite THEN all ELSE Raises
    BY DEF ConstantsAreExpanded
  <2>1. macros' = macros
    BY DEF Next, Collect, EndCollect, Export, EndExport, vars
  <2>2. ObjectMacros' = ObjectMacros
    BY <2>1 DEF ObjectMacros
  <2>3. Replaced(<<m>>, Cardinality(MacroNames))' = Replaced(<<m>>, Cardinality(MacroNames))
    BY <2>1, <2>2 DEF Replaced
  <2>4. m \in MacroNames
    BY MacrosAssumption
  <2>5. typed'[m] = LET all == Replaced(<<m>>, Cardinality(MacroNames))
                        finite == /\ m \in ObjectMacros
                                  /\ \A i \in DOMAIN all : all[i] \notin ObjectMacros
                    IN  IF finite THEN all ELSE Raises
    <3>1. CASE EndCollect
      <4>1. typed'[m] = ExpandMacro(m)
        BY <3>1 DEF EndCollect, TypedConstants
      <4> QED
        BY <2>4, <4>1, ExpandMacroIsReplaced
    <3>2. CASE Collect \/ Export \/ EndExport \/ UNCHANGED vars
      <4>1. phase # "collect" /\ typed' = typed
        BY <3>2 DEF Collect, Export, EndExport, vars
      <4> QED
        BY <4>1 DEF ConstantsAreExpanded
    <3> QED
      BY <3>1, <3>2 DEF Next
  <2> QED
    BY <2>2, <2>3, <2>5
<1> QED
  BY <1>1, <1>2, TableAlways, PTL DEF Spec
=============================================================================
