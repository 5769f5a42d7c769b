---------------------------- MODULE VariantEditor ----------------------------
(***************************************************************************)
(* The variants of a product, in the product's form: its options (colour,  *)
(* size), each with an editor of its own, and the table of the variants    *)
(* that the options generate, one for each combination of their values.    *)
(*                                                                         *)
(* An option is an object, and an editor and the list of options may hold  *)
(* the same one: the editor copies its option when it appears, and hands   *)
(* its copy over with its first accepted change.  From then on what is     *)
(* typed changes the list at once, until an option is deleted: the list    *)
(* then holds copies.  Editors are kept by their place.                    *)
(*                                                                         *)
(* A name stands for all its spellings, which differ in case and blanks.   *)
(***************************************************************************)
EXTENDS Naturals, Sequences, FiniteSets, SequencesExt

CONSTANTS Names,      \* a sequence: the names of options, in alphabetical order
          Values,     \* the values an option may have
          Blank,      \* a name or a value not yet typed
          MaxOptions, MaxValues,
          MaxStock, MaxMoves

VARIABLES
  hasVariants,
  heap, options, editors,   \* the objects, and who holds which
  variants, table,          \* what will be saved, and what the table shows
  refused,    \* a change of an option was refused since the editor appeared
  moves

vars == <<hasVariants, heap, options, editors, variants, table, refused, moves>>
-----------------------------------------------------------------------------
Objects == 1..(2 * MaxOptions)
Option == [name: Range(Names) \cup {Blank}, values: Seq(Values \cup {Blank})]
NewOption == [name |-> Blank, values |-> <<Blank>>]
\* A combination is an object whose keys keep the order they were written in.
Combinations == Seq(Range(Names) \X Values)
Variant == [of: Combinations, stock: 0..MaxStock]

Typed(option) == SelectSeq(option.values, LAMBDA v : v # Blank)
Valid(h, os) ==
  SelectSeq([i \in DOMAIN os |-> h[os[i]]],
            LAMBDA o : o.name # Blank /\ Typed(o) # <<>>)

\* Writing a key that is there already changes its value and not its place.
WithKey(combo, name, value) ==
  IF \E k \in DOMAIN combo : combo[k][1] = name
  THEN [k \in DOMAIN combo |-> IF combo[k][1] = name THEN <<name, value>> ELSE combo[k]]
  ELSE Append(combo, <<name, value>>)
CartesianProduct(os) ==
  FoldLeft(LAMBDA combos, o :
             FlattenSeq([c \in DOMAIN combos |->
               [v \in DOMAIN Typed(o) |-> WithKey(combos[c], o.name, Typed(o)[v])]]),
           <<<<>>>>, os)

\* A combination that was there keeps its row; of two alike, the last.
Kept(old, combo) ==
  IF \E i \in DOMAIN old : old[i].of = combo
  THEN old[CHOOSE i \in DOMAIN old :
             old[i].of = combo /\ \A j \in (i + 1)..Len(old) : old[j].of # combo]
  ELSE [of |-> combo, stock |-> 0]
Generated(h, os, old) ==
  LET combos == IF Valid(h, os) = <<>> THEN <<>> ELSE CartesianProduct(Valid(h, os))
  IN  [i \in DOMAIN combos |-> Kept(old, combos[i])]

Signature(h, os) == [i \in DOMAIN os |-> h[os[i]]]

TypeOK ==
  /\ hasVariants \in BOOLEAN
  /\ heap \in [Objects -> Option] /\ \A x \in Objects : Len(heap[x].values) \in 1..MaxValues
  /\ options \in Seq(Objects) /\ Len(options) <= MaxOptions /\ IsInjective(options)
  /\ editors \in Seq(Objects) /\ Len(editors) = IF hasVariants THEN Len(options) ELSE 0
  /\ variants \in Seq(Variant) /\ table \in Seq(Variant)
  /\ refused \in BOOLEAN /\ moves \in 0..MaxMoves
-----------------------------------------------------------------------------
(* A stored variant comes back with its keys in alphabetical order: the    *)
(* server writes a map.                                                    *)
Sorted(combo) ==
  FoldLeft(LAMBDA s, n : s \o SelectSeq(combo, LAMBDA kv : kv[1] = n), <<>>, Names)
Stored(h, os, has) ==
  IF ~has THEN <<>>
  ELSE LET new == Generated(h, os, <<>>)
       IN  [i \in DOMAIN new |-> [of |-> Sorted(new[i].of), stock |-> MaxStock]]

\* An editor is kept by its place; a new one copies the option at its place.
Free(used) == SetToSortSeq(Objects \ used, <)
NoneMounted(h, os, es) == editors' = es /\ heap' = h    \* mutant: an option without one
Mounted(h, os, es) ==
  LET kept == [i \in DOMAIN es \cap DOMAIN os |-> es[i]]
      new == SubSeq(Free(Range(os) \cup Range(kept)), 1, Len(os) - Len(kept))
  IN  /\ editors' = kept \o new
      /\ heap' = [x \in Objects |->
           IF x \in Range(os) \cup Range(kept) THEN h[x]
           ELSE IF x \in Range(new) THEN h[os[Len(kept) + IndexFirstSubSeq(<<x>>, new)]]
           ELSE NewOption]
Unmounted(h, os) ==
  /\ editors' = <<>>
  /\ heap' = [x \in Objects |-> IF x \in Range(os) THEN h[x] ELSE NewOption]

\* A product as the form finds it: without options, or as it was stored.
Init ==
  /\ moves = 0 /\ refused = FALSE
  /\ options \in {<<>>, <<1>>, <<1, 2>>}
  /\ hasVariants = (options # <<>>)
  /\ editors = [i \in DOMAIN options |-> MaxOptions + i]
  /\ \E first, second \in Range(Names), v \in Values :
       /\ first # second
       /\ heap = [x \in Objects |->
            IF x \in Range(options) \cup Range(editors)
            THEN [name |-> IF x \in {1, MaxOptions + 1} THEN first ELSE second,
                  values |-> <<v>>]
            ELSE NewOption]
  /\ variants = Stored(heap, options, hasVariants) /\ table = variants

\* The table takes its rows again when their number or an option changed.
OnCount(new) ==               \* mutant: an option that changed is not noticed
  table' = IF Len(new) # Len(table) THEN new ELSE table
Synced(new) ==
  table' = IF \/ ~hasVariants \/ Len(new) # Len(table)
              \/ Signature(heap', options') # Signature(heap, options)
           THEN new ELSE table
-----------------------------------------------------------------------------
Acts == moves < MaxMoves /\ moves' = moves + 1

GenerateVariants(h, os) ==
  /\ UNCHANGED refused
  /\ variants' = Generated(h, os, variants)
  /\ Synced(Generated(h, os, variants))
AddTo ==
  /\ Len(options) < MaxOptions
  /\ LET new == Head(Free(Range(options) \cup Range(editors)))
         h == [heap EXCEPT ![new] = NewOption]
     IN  /\ options' = Append(options, new)
         /\ Mounted(h, Append(options, new), editors)
         /\ GenerateVariants(h, Append(options, new))

\* Switching variants on gives a product without options its first one.
Toggle ==
  /\ Acts /\ hasVariants' = ~hasVariants
  /\ \/ ~hasVariants /\ options = <<>> /\ AddTo
     \/ /\ ~hasVariants /\ options # <<>>
        /\ Mounted(heap, options, <<>>) /\ table' = variants
        /\ UNCHANGED <<options, variants, refused>>
     \/ /\ hasVariants /\ Unmounted(heap, options)
        /\ UNCHANGED <<options, variants, table, refused>>
AddOption == hasVariants /\ Acts /\ AddTo /\ UNCHANGED hasVariants
\* What is left of the options is copied, so that no editor holds one of them any
\* more; the last editor goes, whichever option was deleted.
DeleteOption(i) ==
  LET rest == RemoveAt(options, i)
      kept == Front(editors)
      copies == SubSeq(Free(Range(kept)), 1, Len(rest))
      h == [x \in Objects |-> IF x \in Range(kept) THEN heap[x]
                              ELSE IF x \in Range(copies)
                                   THEN heap[rest[IndexFirstSubSeq(<<x>>, copies)]]
                                   ELSE NewOption]
  IN  /\ Acts /\ i \in DOMAIN editors
      /\ options' = copies /\ editors' = kept /\ heap' = h
      /\ GenerateVariants(h, copies) /\ UNCHANGED hasVariants

\* The i-th editor has made o of its option.  A name that another option has
\* is refused, and the editor's object stays as it was typed.
Refused(h, i) ==
  \E j \in DOMAIN options \ {i} : h[options[j]].name = h[editors[i]].name
UpdateOption(i, o) ==
  LET h == [heap EXCEPT ![editors[i]] = o]
      os == [options EXCEPT ![i] = editors[i]]
  IN  /\ Acts /\ UNCHANGED hasVariants
      /\ \/ /\ Refused(h, i)
            /\ refused' = TRUE /\ heap' = h
            /\ UNCHANGED <<options, editors, variants>> /\ Synced(variants)
         \/ /\ ~Refused(h, i)
            /\ options' = os /\ Mounted(h, os, editors) /\ GenerateVariants(h, os)
Draft(i) == heap[editors[i]]
UpdateOptionName(i, n) ==
  n # Draft(i).name /\ UpdateOption(i, [Draft(i) EXCEPT !.name = n])
UpdateValueName(i, j, v) ==
  /\ j \in DOMAIN Draft(i).values /\ v # Draft(i).values[j]
  /\ UpdateOption(i, [Draft(i) EXCEPT !.values[j] = v])
AddValue(i) ==
  /\ Len(Draft(i).values) < MaxValues
  /\ UpdateOption(i, [Draft(i) EXCEPT !.values = Append(@, Blank)])
DeleteValue(i, j) ==
  /\ Len(Draft(i).values) > 1 /\ j \in DOMAIN Draft(i).values
  /\ UpdateOption(i, [Draft(i) EXCEPT !.values = RemoveAt(@, j)])

\* A row of the table is edited in the table's own copy, which is handed over.
UpdateVariant(k, n) ==
  /\ Acts /\ hasVariants /\ k \in DOMAIN table /\ n # table[k].stock
  /\ table' = [table EXCEPT ![k].stock = n] /\ variants' = table'
  /\ UNCHANGED <<hasVariants, heap, options, editors, refused>>

Next ==
  \/ Toggle \/ AddOption
  \/ \E i \in DOMAIN editors :
       \/ DeleteOption(i) \/ AddValue(i)
       \/ \E n \in Range(Names) \cup {Blank} : UpdateOptionName(i, n)
       \/ \E j \in 1..MaxValues :
            \/ DeleteValue(i, j)
            \/ \E v \in Values \cup {Blank} : UpdateValueName(i, j, v)
  \/ \E k \in DOMAIN table, n \in 0..MaxStock : UpdateVariant(k, n)

Spec == Init /\ [][Next]_vars
-----------------------------------------------------------------------------
NamesDiffer == \A i, j \in DOMAIN options :
  i # j /\ heap[options[i]].name # Blank => heap[options[i]].name # heap[options[j]].name
Pairs(combo) == Range(combo)
Shown(rows) == [k \in DOMAIN rows |-> Pairs(rows[k].of)]
\* One value of every option that has a name and a value.
Combined ==
  LET valid == {i \in DOMAIN options :
                 heap[options[i]].name # Blank /\ Typed(heap[options[i]]) # <<>>}
      chosen == {f \in [valid -> Values] :
                  \A i \in valid : f[i] \in Range(Typed(heap[options[i]]))}
  IN  IF valid = {} THEN {}
      ELSE {{<<heap[options[i]].name, f[i]>> : i \in valid} : f \in chosen}

\* While no change was refused: no two options share a name, and what will be
\* saved, and what the table shows, is one variant for every choice of a value
\* of each named option, whatever was added, renamed, deleted or switched off
\* and on in between.
VariantsFollowOptions == ~refused =>
  /\ NamesDiffer
  /\ {Pairs(variants[k].of) : k \in DOMAIN variants} = Combined
  /\ hasVariants => Shown(table) = Shown(variants)

\* Changing the options changes no variant that is there before and after: its
\* stock is what the operator typed.
RowsKeepTheirStock == [][
  options' # options \/ heap' # heap =>
    \A v \in Range(variants), w \in Range(variants') :
      v.of = w.of /\ (\A u \in Range(variants) : u.of = v.of => u = v)
        => w.stock = v.stock]_vars

\* Each editor shows the option it edits.  The page breaks this: the editors are
\* told apart by their place, and keep their drafts when an option is removed.
EditorsShowOptions == \A i \in DOMAIN editors : Draft(i) = heap[options[i]]

\* "Preserve existing variant data where possible" (VariantManager.svelte:102):
\* a combination that is there before and after keeps its stock.  Its keys may
\* come from the server in another order than the options', and it is not found.
StockSurvives == [][
  options' # options \/ heap' # heap =>
    \A v \in Range(variants), w \in Range(variants') :
      /\ Pairs(v.of) = Pairs(w.of)
      /\ \A u \in Range(variants) : Pairs(u.of) = Pairs(v.of) => u = v
      => w.stock = v.stock]_vars
=============================================================================
