--------------------------- MODULE AudienceSynthesis ---------------------------
(***************************************************************************)
(* From uploads to audiences: what a synthesis reads, the ideal-customer   *)
(* profile it stores, and the packs a run can then name.  A synthesis is   *)
(* inline in its request: it reads the material, awaits the model and      *)
(* writes, so uploads and labels may change under it.                      *)
(***************************************************************************)
EXTENDS Naturals, Sequences, FiniteSets, SequencesExt

CONSTANTS
  Uploads,    \* bound: documents of the project, 1..Uploads in upload order
  Fundable,   \* _MATERIAL_LIMITS // _MIN_SOURCE_CHARS, sources per bucket
  Segments,   \* the cells _segment_key can produce that are explored
  Names,      \* slugs of a pack's name, as sequences; some are built-in ids
  Builtin,    \* ids of the built-in packs, a subset of Names
  Syntheses,  \* synthesis requests
  Price,      \* estimate_icp_synthesis_cost
  Credit      \* the balance to begin with

VARIABLES
  docs,      \* documents, in upload order
  pc, bag, answer,  \* each synthesis: where it stands, its ProjectMaterial, what was returned
  profiles,  \* icp_profiles, each with its compiled pack
  library,   \* persona_packs
  custom,    \* custom_persona_packs
  purse

vars == <<docs, pc, bag, answer, profiles, library, custom, purse>>

Kinds    == {"own", "idea_brief", "competitor"}
Unnamed  == [named |-> FALSE, grounded |-> {}]   \* an adversary that names nobody
NoAnswer == [buyers |-> {}, cohort |-> {}, name |-> <<>>]

(* Ids share one space: a profile's, a built-in's, a library's, a custom's. *)
PlainId(name)      == [icp |-> 0, base |-> name, lib |-> FALSE, n |-> 1]
ProfileId(p, seg)  == [icp |-> p, base |-> seg, lib |-> FALSE, n |-> 1]
IsBuiltin(id)      == \E b \in Builtin : id = PlainId(b)
Pack(id, name, buyers, cohort, licence) ==   \* licence: history, what may ground a name
  [id |-> id, name |-> name, buyers |-> buyers, cohort |-> cohort,
   licence |-> licence, edited |-> FALSE]
NoBag    == [all |-> {}, rivals |-> {}]

-----------------------------------------------------------------------------
(* An upload is read to the end or not; its label is the founder's.        *)
(* Bound: uploads and labels that no synthesis can still read are left out. *)
Read == \E s \in Syntheses : pc[s] \in {"idle", "asked", "again"}
Upload(kind, text) ==
  /\ Len(docs) < Uploads /\ Read
  /\ docs' = Append(docs, [kind |-> kind, text |-> text])
  /\ UNCHANGED <<pc, bag, answer, profiles, library, custom, purse>>
Relabel(d, kind) ==
  /\ d \in DOMAIN docs /\ Read /\ docs[d].kind # "idea_brief" /\ kind # "idea_brief"
  /\ docs' = [docs EXCEPT ![d].kind = kind]
  /\ UNCHANGED <<pc, bag, answer, profiles, library, custom, purse>>

(* gather_material: a bucket takes as many sources as it can fund, in      *)
(* upload order; a share below the floor drops a source that is not an     *)
(* idea brief, and a source that cannot be read is dropped as well.        *)
Bucket(d) == IF docs[d].kind = "competitor" THEN "competitor" ELSE "own"
Complete(d) == docs[d].text # "pending"
Funded(d) ==
  /\ Complete(d)
  /\ Cardinality({e \in 1..(d - 1) : Complete(e) /\ Bucket(e) = Bucket(d)}) < Fundable
  /\ docs[d].text = "short" => docs[d].kind = "idea_brief"
Gather(s, unread) ==
  LET used == {d \in DOMAIN docs : Funded(d)} \ unread IN
  /\ pc[s] = "idle" /\ purse >= Price
  /\ unread \subseteq {d \in DOMAIN docs : Funded(d)}
  /\ bag' = [bag EXCEPT ![s] = [all |-> used, rivals |-> {d \in used : Bucket(d) = "competitor"}]]
  /\ pc' = [pc EXCEPT ![s] = IF used = {} THEN "refused" ELSE "asked"]
  /\ UNCHANGED <<docs, answer, profiles, library, custom, purse>>

(* _synthesize_profile: a second, smaller call when the first answer does  *)
(* not parse; a second bad one refuses the request.  The model may name a  *)
(* competitor whatever it was given, and list any documents.               *)
Ground_AsReturned(a, allowed) == a   \* mutant: grounded_in is not filtered
Ground(a, allowed) ==
  LET kept == a.grounded \cap allowed IN
  IF a.named /\ kept # {} THEN [a EXCEPT !.grounded = kept] ELSE Unnamed
Returned(s, buyers, cohort, name) ==
  /\ pc[s] \in {"asked", "again"}
  /\ answer' = [answer EXCEPT ![s] = [buyers |-> buyers, name |-> name,
                  cohort |-> {Ground(a, bag[s].rivals) : a \in cohort}]]
  /\ pc' = [pc EXCEPT ![s] = "built"]
  /\ UNCHANGED <<docs, bag, profiles, library, custom, purse>>
Unparsed(s) ==
  /\ pc[s] \in {"asked", "again"}
  /\ pc' = [pc EXCEPT ![s] = IF pc[s] = "asked" THEN "again" ELSE "refused"]
  /\ UNCHANGED <<docs, bag, answer, profiles, library, custom, purse>>

-----------------------------------------------------------------------------
(* _base_id and _free_id: an id in the profiles' namespace is replaced by  *)
(* the slug of the pack's name, which steps aside for a built-in's, and    *)
(* for the ids the library has.                                            *)
BaseId(name) == [PlainId(name) EXCEPT !.lib = IsBuiltin(PlainId(name))]
FreeId(lib, base) ==
  LET taken(n) == [base EXCEPT !.n = n] \in {r.id : r \in lib}
  IN [base EXCEPT !.n = CHOOSE n \in 1..(Cardinality(lib) + 1) :
                          ~taken(n) /\ \A m \in 1..(n - 1) : taken(m)]

(* save_org_pack: the row this profile was promoted to before is refreshed *)
(* in place and keeps its id; otherwise the pack gets a free id.           *)
SaveOrgPack(lib, pack, source) ==
  LET before == {r \in lib : r.source = source}
      id == IF before # {} THEN (CHOOSE r \in before : TRUE).id
            ELSE FreeId(lib, BaseId(pack.name))
  IN {r \in lib : r.id # id} \cup {[id |-> id, source |-> source, pack |-> [pack EXCEPT !.id = id]]}

(* compile_packs: one pack per segment of the buyers, none when the buyers *)
(* do not split; every pack is dealt a share of the cohort.                *)
SegmentPacks(a, id, licence) ==
  IF Cardinality(a.buyers) <= 1 THEN <<>>
  ELSE SetToSeq({Pack(ProfileId(id, <<g>>), a.name \o <<g>>, {g}, a.cohort, licence) : g \in a.buyers})

(* The profile and its pack are inserted, then the segment packs one by    *)
(* one; a write that raises leaves what was written and charges nothing.   *)
Store(s, saved) ==
  LET id   == 1 + FoldSet(LAMBDA p, k : IF p.id > k THEN p.id ELSE k, 0, profiles)
      a    == answer[s]
      segs == SegmentPacks(a, id, bag[s].rivals)
      put(lib, pack) == SaveOrgPack(lib, pack, id)
      all  == saved = Len(segs) + 1
  IN /\ pc[s] = "built" /\ saved \in 0..(Len(segs) + 1)
     /\ profiles' = profiles \cup {[id |-> id, pack |->
          Pack(ProfileId(id, <<>>), a.name, a.buyers, a.cohort, bag[s].rivals)]}
     /\ library' = FoldLeft(put, library, IF all THEN segs ELSE SubSeq(segs, 1, saved))
     /\ pc' = [pc EXCEPT ![s] = IF all THEN "done" ELSE "raised"]
     /\ purse' = IF ~all THEN purse ELSE IF purse >= Price THEN purse - Price ELSE 0
     /\ bag' = [bag EXCEPT ![s] = NoBag] /\ answer' = [answer EXCEPT ![s] = NoAnswer]
     /\ UNCHANGED <<docs, custom>>
(* The row itself is not inserted: nothing is left.                        *)
StoreRaises(s) ==
  /\ pc[s] = "built"
  /\ pc' = [pc EXCEPT ![s] = "raised"]
  /\ bag' = [bag EXCEPT ![s] = NoBag] /\ answer' = [answer EXCEPT ![s] = NoAnswer]
  /\ UNCHANGED <<docs, profiles, library, custom, purse>>

-----------------------------------------------------------------------------
(* PATCH /icp/{id}: the founder's own profile, recompiled into its row     *)
(* under the id it had; the library is not touched.                        *)
EditProfile(p, buyers, cohort) ==
  /\ p \in profiles
  /\ profiles' = (profiles \ {p}) \cup
       {[p EXCEPT !.pack.buyers = buyers, !.pack.cohort = cohort, !.pack.edited = TRUE]}
  /\ UNCHANGED <<docs, pc, bag, answer, library, custom, purse>>
(* DELETE /icp/{id}: the packs promoted from it stay, without a source.    *)
DeleteProfile(p) ==
  /\ p \in profiles
  /\ profiles' = profiles \ {p}
  /\ library' = {[r EXCEPT !.source = IF @ = p.id THEN 0 ELSE @] : r \in library}
  /\ UNCHANGED <<docs, pc, bag, answer, custom, purse>>
Promote(p, name) ==
  /\ p \in profiles
  /\ library' = SaveOrgPack(library, [p.pack EXCEPT !.name = name], p.id)
  /\ UNCHANGED <<docs, pc, bag, answer, profiles, custom, purse>>
DeletePack(r) ==
  /\ r \in library
  /\ library' = library \ {r}
  /\ UNCHANGED <<docs, pc, bag, answer, profiles, custom, purse>>
(* A custom pack carries the id the model wrote, which may be anyone's.    *)
CreateCustom(name) ==
  /\ PlainId(name) \notin custom
  /\ custom' = custom \cup {PlainId(name)}
  /\ UNCHANGED <<docs, pc, bag, answer, profiles, library, purse>>

(* get_pack: built-ins first, then the profiles' namespace, then the org   *)
(* library, then the custom packs.                                         *)
GetPack(id) ==
  IF IsBuiltin(id) THEN "builtin"
  ELSE IF id.icp # 0 THEN IF \E p \in profiles : p.pack.id = id THEN "profile" ELSE "none"
  ELSE IF \E r \in library : r.id = id THEN "library"
  ELSE IF id \in custom THEN "custom"
  ELSE "none"

(* The library starts with a pack promoted under each name, whose profile  *)
(* is gone: the names are taken.                                           *)
Shelf == {[id |-> BaseId(n), source |-> 0,
           pack |-> [Pack(BaseId(n), n, Segments, {}, {}) EXCEPT !.edited = TRUE]] : n \in Names}
Init ==
  /\ docs = <<>> /\ pc = [s \in Syntheses |-> "idle"]
  /\ bag = [s \in Syntheses |-> NoBag] /\ answer = [s \in Syntheses |-> NoAnswer]
  /\ profiles = {} /\ library = Shelf /\ custom = {} /\ purse = Credit

Cohorts == {{Unnamed}, {[named |-> TRUE, grounded |-> 1..Uploads]}}
Next ==
  \/ \E k \in Kinds, t \in {"pending", "short", "long"} : Upload(k, t)
  \/ \E d \in DOMAIN docs, k \in Kinds : Relabel(d, k)
  \/ \E s \in Syntheses :
       \/ \E unread \in SUBSET DOMAIN docs : Gather(s, unread)
       \/ \E b \in (SUBSET Segments) \ {{}}, c \in Cohorts, n \in Names : Returned(s, b, c, n)
       \/ Unparsed(s) \/ StoreRaises(s)
       \/ \E k \in 0..(Cardinality(Segments) + 1) : Store(s, k)
  \/ \E p \in profiles :
       \/ \E b \in (SUBSET Segments) \ {{}}, c \in Cohorts : EditProfile(p, b, c)
       \/ DeleteProfile(p)
       \/ \E n \in Names : Promote(p, n)
  \/ \E r \in library : DeletePack(r)
  \/ \E n \in Names : CreateCustom(n)

Spec == Init /\ [][Next]_vars

-----------------------------------------------------------------------------
(* No rival is named on the model's word: whichever way a pack was stored, *)
(* an adversary that names a competitor cites documents the founder had    *)
(* labelled competitor when that profile's material was gathered, and      *)
(* only documents that were read, unless the founder wrote it in.          *)
NamedIsLicensed ==
  \A pack \in {p.pack : p \in profiles} \cup {r.pack : r \in library} :
    ~pack.edited => \A a \in pack.cohort :
      a.named => a.grounded # {} /\ a.grounded \subseteq pack.licence

(* A pack that is in the library can be run: get_pack finds that row, and  *)
(* no built-in, profile or custom pack, under the id the row reports.      *)
LibraryIdsResolve ==
  \A r \in library : GetPack(r.id) = "library" /\ r.pack.id = r.id

(* What a founder can select: packs that resolve, and that name no rival   *)
(* without a licence.                                                      *)
PacksHold == LibraryIdsResolve /\ NamedIsLicensed
=============================================================================
