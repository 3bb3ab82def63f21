------------------------------ MODULE PropSort ------------------------------
(***************************************************************************)
(* The sort at the end of FlattenDataTable (src/demofiledump.cpp): the     *)
(* gathered props of a class are put into the order in which the server    *)
(* numbers them.  Priority by priority, every prop that has it is swapped  *)
(* to the front of those that are left; props that change often are taken  *)
(* with priority 64 whatever their own is.                                 *)
(***************************************************************************)
EXTENDS Integers, Sequences

CONSTANTS
    Props,      \* the flattened props
    MaxProps    \* bound: how many of them a class has

CHANGES_OFTEN_PRIORITY == 64

(* A priority is a uint32 here, so it is not negative.                     *)
ASSUME PropsAssumption ==
    \A p \in Props : p.priority \in Nat /\ p.often \in BOOLEAN
ASSUME MaxPropsAssumption == MaxProps \in Nat

VARIABLES
    flattenedProps,
    gathered,       \* what it was before
    priorities,     \* those that are left
    start,          \* the props in front of it are in their places
    sorting

sortVars == <<flattenedProps, gathered, priorities, start, sorting>>
-----------------------------------------------------------------------------
PrioritiesOf(props) == {props[i].priority : i \in DOMAIN props}

StartSort(props) ==
    /\ flattenedProps' = props
    /\ gathered' = props
    /\ priorities' = {CHANGES_OFTEN_PRIORITY} \union PrioritiesOf(props)
    /\ start' = 0
    /\ sorting' = TRUE

(* Mutant: a prop that changes often is taken with its own priority only.  *)
TakenByPriority(p, priority) == p.priority = priority
Taken(p, priority) ==
    p.priority = priority \/ (priority = CHANGES_OFTEN_PRIORITY /\ p.often)

(* std::sort of the priorities: the least of those that are left is next.  *)
IsNext(priority) == priority \in priorities /\ \A q \in priorities : priority <= q

Left == start + 1 .. Len(flattenedProps)

(* Mutant: the first prop is moved behind, and the other is not moved.     *)
Copy(props, i, j) == [props EXCEPT ![j] = props[i]]
Swap(props, i, j) == [props EXCEPT ![i] = props[j], ![j] = props[i]]

(* Mutant: the place of a prop that was taken is not left.                 *)
StayAtStart == start
Advance == start + 1

(* The first prop of the priority is swapped with the first that is left.  *)
TakeProp(priority) ==
    /\ sorting /\ IsNext(priority)
    /\ \E currentProp \in Left :
          /\ Taken(flattenedProps[currentProp], priority)
          /\ \A i \in start + 1 .. currentProp - 1 : ~Taken(flattenedProps[i], priority)
          /\ flattenedProps' = Swap(flattenedProps, start + 1, currentProp)
    /\ start' = Advance
    /\ UNCHANGED <<gathered, priorities, sorting>>

(* None is left of this priority.                                          *)
NextPriority(priority) ==
    /\ sorting /\ IsNext(priority)
    /\ \A i \in Left : ~Taken(flattenedProps[i], priority)
    /\ priorities' = priorities \ {priority}
    /\ UNCHANGED <<flattenedProps, gathered, start, sorting>>

EndSort ==
    /\ sorting /\ priorities = {}
    /\ sorting' = FALSE
    /\ UNCHANGED <<flattenedProps, gathered, priorities, start>>

SortStep ==
    \/ \E priority \in priorities : TakeProp(priority) \/ NextPriority(priority)
    \/ EndSort

SortInit ==
    /\ gathered \in UNION {[1 .. n -> Props] : n \in 0 .. MaxProps}
    /\ flattenedProps = gathered
    /\ priorities = {CHANGES_OFTEN_PRIORITY} \union PrioritiesOf(gathered)
    /\ start = 0
    /\ sorting = TRUE

(* One thread runs the loops and stops for nothing.                        *)
SortSpec == SortInit /\ [][SortStep]_sortVars /\ WF_sortVars(SortStep)
-----------------------------------------------------------------------------
SortTypeOK ==
    /\ flattenedProps \in Seq(Props) /\ gathered \in Seq(Props)
    /\ priorities \subseteq Nat
    /\ start \in 0 .. Len(flattenedProps)
    /\ sorting \in BOOLEAN

(* The priority that decides where a prop goes.                            *)
Rank(p) ==
    IF p.often /\ p.priority > CHANGES_OFTEN_PRIORITY THEN CHANGES_OFTEN_PRIORITY
    ELSE p.priority

Bijections(n) ==
    {f \in [1 .. n -> 1 .. n] : \A i, j \in 1 .. n : f[i] = f[j] => i = j}

(* The sort neither loses a prop nor doubles one, at any moment.           *)
Permuted ==
    /\ Len(flattenedProps) = Len(gathered)
    /\ \E f \in Bijections(Len(gathered)) :
          \A i \in 1 .. Len(gathered) : flattenedProps[i] = gathered[f[i]]

(* When it ends, no prop is in front of one of a lower rank: an index that *)
(* the server gave to a prop is below that of every prop it ranks behind,  *)
(* the often changing ones among the first.                                *)
Sorted ==
    ~sorting =>
        \A i, j \in DOMAIN flattenedProps :
            i < j => Rank(flattenedProps[i]) <= Rank(flattenedProps[j])

(* It ends: the inner while (true) leaves every priority.                  *)
SortEnds == <>~sorting
=============================================================================
