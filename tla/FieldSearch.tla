------------------------------ MODULE FieldSearch ------------------------------
(***************************************************************************)
(* How read_hdf5 finds the particle fields in a file (src/hdf5.cpp): visit *)
(* walks through all groups and keeps, for every lower-case name, the last *)
(* dataset that has it; a field is the dataset of the first of its aliases *)
(* there is.  write_hdf5 stores the fields under the paths they were found *)
(* at, and the file is read again.                                         *)
(* A dataset is the sequence of names that leads to it.  Its content is    *)
(* the path it had in the first file.                                      *)
(***************************************************************************)
EXTENDS Integers, FiniteSets, SequencesExt

CONSTANTS
  Names,     (* of groups and datasets: integers, in the order of the bytes *)
  Lower,     (* std::tolower: name -> name                                  *)
  Aliases,   (* field -> its aliases, lower case                            *)
  Files      (* the files there may be: path -> length                      *)

Logical == DOMAIN Aliases
Paths(file) == DOMAIN file
Parent(path) == Front(path)

FieldSearchAssumption ==
  /\ Names \subseteq Int /\ Lower \in [Names -> Names]
  /\ \A i \in Logical : Aliases[i] \in Seq(Names)
  /\ \A i, j \in Logical : i # j => ToSet(Aliases[i]) \cap ToSet(Aliases[j]) = {}
  /\ \A file \in Files : \A p, q \in Paths(file) :
       /\ p # <<>> /\ p \in Seq(Names)
       /\ IsPrefix(p, q) => p = q

VARIABLES
  file,       (* the file that is read: path -> length                      *)
  content,    (* path -> path in the first file                             *)
  available,  (* lower-case name -> path                                    *)
  todo,       (* the datasets visit has still to come to                    *)
  found,      (* field -> path                                              *)
  first,      (* history: found and its contents in the first file          *)
  stage

vars == <<file, content, available, todo, found, first, stage>>

Empty == [l \in {} |-> <<>>]

Init ==
  /\ file \in Files
  /\ content = [p \in Paths(file) |-> p]
  /\ available = Empty /\ todo = Paths(file)
  /\ found = Empty /\ first = Empty
  /\ stage = "visit"

-------------------------------------------------------------------------------
(* Every group lists its members by name.                                  *)
Before(p, q) ==
  \E i \in DOMAIN p \cap DOMAIN q :
    p[i] < q[i] /\ \A j \in 1..(i - 1) : p[j] = q[j]

(* The mistakes: a name in lower case is preferred; names are compared as  *)
(* they are spelled.                                                       *)
KeptExact(path) ==
  LET name == Last(path)
  IN  IF Lower[name] \in DOMAIN available /\ name # Lower[name] THEN available
      ELSE [l \in DOMAIN available \cup {Lower[name]} |->
              IF l = Lower[name] THEN path ELSE available[l]]

KeptAsSpelled(path) ==
  [l \in DOMAIN available \cup {Last(path)} |->
     IF l = Last(path) THEN path ELSE available[l]]

(* available[lower] = path                                                 *)
Kept(path) ==
  [l \in DOMAIN available \cup {Lower[Last(path)]} |->
     IF l = Lower[Last(path)] THEN path ELSE available[l]]

Visit ==
  /\ stage = "visit"
  /\ \E path \in todo :
       /\ \A other \in todo \ {path} : Before(path, other)
       /\ available' = Kept(path)
       /\ todo' = todo \ {path}
  /\ UNCHANGED <<file, content, found, first, stage>>

HasAlias(i) == \E k \in DOMAIN Aliases[i] : Aliases[i][k] \in DOMAIN available
Chosen(i) ==
  available[Aliases[i][SelectInSeq(Aliases[i], LAMBDA l : l \in DOMAIN available)]]

Select ==
  /\ stage = "visit" /\ todo = {}
  /\ \A i \in Logical : HasAlias(i)
  /\ found' = [i \in Logical |-> Chosen(i)]
  /\ stage' = IF \A i, j \in Logical : file[found'[i]] = file[found'[j]]
              THEN "found" ELSE "error"
  /\ UNCHANGED <<file, content, available, todo, first>>

(* Could not find dataset for logical field                                *)
SelectThrows ==
  /\ stage = "visit" /\ todo = {}
  /\ \E i \in Logical : ~ HasAlias(i)
  /\ stage' = "error"
  /\ UNCHANGED <<file, content, available, todo, found, first>>

(* The mistake: the fields are written into the root group.                *)
PlaceInRoot(i) == <<Last(found[i])>>

(* createGroup for every prefix of h5_path, createDataSet                  *)
Place(i) == found[i]

(* write_hdf5, and read_hdf5 of what it wrote                              *)
WriteAndRead ==
  /\ stage = "found" /\ first = Empty
  /\ first' = [i \in Logical |-> <<found[i], content[found[i]]>>]
  /\ file' = [p \in {Place(i) : i \in Logical} |-> 1]
  /\ content' = [p \in {Place(i) : i \in Logical} |->
                   content[found[CHOOSE i \in Logical : Place(i) = p]]]
  /\ available' = Empty /\ todo' = Paths(file') /\ found' = Empty
  /\ stage' = "visit"

Done == stage = "error" \/ (stage = "found" /\ first # Empty)
Next == Visit \/ Select \/ SelectThrows \/ WriteAndRead \/ (Done /\ UNCHANGED vars)
Spec == Init /\ [][Next]_vars

-------------------------------------------------------------------------------
(* Properties.                                                             *)

Named(l) == {p \in Paths(file) : Lower[Last(p)] = l}
Candidates == UNION {Named(l) : l \in UNION {ToSet(Aliases[i]) : i \in Logical}}
NamesIn(group) ==
  {Lower[Last(p)] : p \in {q \in Candidates : Parent(q) = group}}
Groups == {Parent(p) : p \in Candidates}

(* Rows are made of fields that belong together: when the particles of     *)
(* several species are in groups of their own, none inside another, which  *)
(* name their fields alike but for the case, all fields are taken from one *)
(* group, however the names of the groups and of the fields sort.          *)
SpeciesTogether ==
  /\ stage = "found"
  /\ \A g, h \in Groups : NamesIn(g) = NamesIn(h) /\ ~ IsStrictPrefix(g, h)
  => \A i, j \in Logical : Parent(found[i]) = Parent(found[j])

(* Every field is found if the file has it anywhere, under any of its      *)
(* names in any case, and by the alias that is listed first.               *)
FoundByFirstAlias ==
  /\ stage = "found" => \A i \in Logical :
       \E k \in DOMAIN Aliases[i] : /\ found[i] \in Named(Aliases[i][k])
                                   /\ \A earlier \in 1..(k - 1) : Named(Aliases[i][earlier]) = {}
  /\ stage = "error" =>
       \/ \E i \in Logical : \A k \in DOMAIN Aliases[i] : Named(Aliases[i][k]) = {}
       \/ \E p, q \in Candidates : file[p] # file[q]

(* A reconstruction is read as what it was made of: the same fields from   *)
(* the same places, though the file has no other datasets any more.        *)
ReconstructionReadAlike ==
  Done /\ first # Empty =>
    /\ stage = "found"
    /\ \A i \in Logical : first[i] = <<found[i], content[found[i]]>>

(* The fields of a file are those a reader of it would name.               *)
FieldsKept == SpeciesTogether /\ FoundByFirstAlias /\ ReconstructionReadAlike
===============================================================================
