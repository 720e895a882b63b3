------------------------------- MODULE Trust -------------------------------
(***************************************************************************)
(* Trust evaluation (signed/trust.rs): a TrustContext collects pins,       *)
(* transitions and revocations in the order they are supplied, evaluate    *)
(* works out which keys are trusted for what, and accept decides about one *)
(* signature.                                                              *)
(*                                                                         *)
(* Keys are numbered in the order of their fingerprints.  The heads of one *)
(* log are record positions: a head covers the positions up to it.  The    *)
(* content of a statement stands for its SHA-256.                          *)
(***************************************************************************)
EXTENDS Integers, Sequences, FiniteSets, SequencesExt

CONSTANTS
  NumKeys,        \* how many keys there are
  Pins,           \* pins an operator may add: key, principal, scope
  Transitions,    \* transitions that may be loaded: old, new, heads, releases, valid
  Revocations,    \* revocations that may be loaded: revoker, revoked, heads, releases,
                  \* successors, valid
  Sources,        \* where statements come from: "operator", "bundle"
  Objects,        \* what a signature may be on
  MaxPins,        \* 1024 pinned keys
  MaxStatements   \* MAX_STATEMENTS

Keys == 1..NumKeys  \* fingerprints

Namespaces == {"record", "checkpoint", "release", "transition", "revocation", "witness"}

ASSUME TrustAssumption ==
  /\ NumKeys \in Nat
  /\ \A p \in Pins : p.key \in Keys /\ p.scope \subseteq Namespaces
  /\ \A t \in Transitions : {t.old, t.new} \subseteq Keys
  /\ \A r \in Revocations : {r.revoker, r.revoked} \cup r.successors \subseteq Keys
  /\ Sources \subseteq {"operator", "bundle"}
  /\ MaxPins \in Nat /\ MaxStatements \in Nat

VARIABLES
  pins,            \* TrustContext: the pins,
  transitions,     \* the transitions that loaded,
  revocations,     \* the revocations that loaded, with their source,
  statements_seen  \* and how many statement files were read

vars == <<pins, transitions, revocations, statements_seen>>

-----------------------------------------------------------------------------
(* TrustContext. *)

TrustInit ==
  /\ pins = << >>
  /\ transitions = << >>
  /\ revocations = << >>
  /\ statements_seen = 0

\* push_pin.
AddPin(p) ==
  /\ Len(pins) < MaxPins
  /\ pins' = Append(pins, p)
  /\ UNCHANGED <<transitions, revocations, statements_seen>>

\* load_statement: the statement parses and every signature on it verifies under
\* the key it names.
Verifies(s) == s.valid

\* add_statement_file of a transition: one over the limit, or one that does not
\* verify under old_key_id and new_key_id, adds nothing.
AddTransition(t) ==
  /\ statements_seen <= MaxStatements
  /\ statements_seen' = statements_seen + 1
  /\ transitions' = IF statements_seen < MaxStatements /\ Verifies(t)
                    THEN Append(transitions, t) ELSE transitions
  /\ UNCHANGED <<pins, revocations>>

\* The operator's statements are supplied first; a bundle's are added to a copy
\* of the context (with_bundle_statements).
InTurn(source) ==
  source = "operator" => \A x \in Range(revocations) : x.source = "operator"

\* Wrong variant of AddRevocation: the signature is not verified.
AddRevocationUnverified(r, source) ==
  /\ statements_seen <= MaxStatements
  /\ InTurn(source)
  /\ statements_seen' = statements_seen + 1
  /\ revocations' = IF statements_seen < MaxStatements
                    THEN Append(revocations, [statement |-> r, source |-> source])
                    ELSE revocations
  /\ UNCHANGED <<pins, transitions>>

\* add_statement_file of a revocation.
AddRevocation(r, source) ==
  /\ statements_seen <= MaxStatements
  /\ InTurn(source)
  /\ statements_seen' = statements_seen + 1
  /\ revocations' = IF statements_seen < MaxStatements /\ Verifies(r)
                    THEN Append(revocations, [statement |-> r, source |-> source])
                    ELSE revocations
  /\ UNCHANGED <<pins, transitions>>

TrustNext ==
  \/ \E p \in Pins : AddPin(p)
  \/ \E t \in Transitions : AddTransition(t)
  \/ \E r \in Revocations, source \in Sources : AddRevocation(r, source)

TrustSpec == TrustInit /\ [][TrustNext]_vars

Context == [pins |-> pins, transitions |-> transitions, revocations |-> revocations]

-----------------------------------------------------------------------------
(* evaluate. *)

Entry(p, path, pinned) ==
  [principal |-> p.principal, scope |-> p.scope, trust_path |-> path, pinned |-> pinned]

AppendNew(s, e) == IF e \in Range(s) THEN s ELSE Append(s, e)

\* The entries the first n pins create for key k.
PinEntries(ps, k) ==
  LET entries[n \in 0..Len(ps)] ==
        IF n = 0 THEN << >>
        ELSE IF ps[n].key # k THEN entries[n-1]
        ELSE AppendNew(entries[n-1], Entry(ps[n], <<k>>, TRUE))
  IN  entries

Base(ctx) == [k \in Keys |-> PinEntries(ctx.pins, k)[Len(ctx.pins)]]

\* The different ones among the first n transitions of key k.
FromKey(ts, k) ==
  LET list[n \in 0..Len(ts)] ==
        IF n = 0 THEN << >>
        ELSE IF ts[n].old # k THEN list[n-1]
        ELSE AppendNew(list[n-1], ts[n])
  IN  list

ByOld(ctx) == [k \in Keys |-> FromKey(ctx.transitions, k)[Len(ctx.transitions)]]

\* Keys with two different transitions.
Equivocating(ctx) ==
  {t.old : t \in {x \in Range(ctx.transitions) :
                    \E y \in Range(ctx.transitions) : y.old = x.old /\ y # x}}

\* What the list new of key k becomes when the first n entries of old are handed
\* to it: those that may sign transitions, unless k already has an entry for
\* the principal.
Handed(old, new, k) ==
  LET list[n \in 0..Len(old)] ==
        IF n = 0 THEN new
        ELSE IF \/ "transition" \notin old[n].scope
                \/ \E x \in Range(list[n-1]) : x.principal = old[n].principal
        THEN list[n-1]
        ELSE Append(list[n-1], Entry(old[n], Append(old[n].trust_path, k), FALSE))
  IN  list

Follow(entries, t) ==
  [entries EXCEPT ![t.new] = Handed(entries[t.old], @, t.new)[Len(entries[t.old])]]

\* extend follows the first n of the listed transitions that are in may,
FollowList(entries, list, may) ==
  LET after[n \in 0..Len(list)] ==
        IF n = 0 THEN entries
        ELSE IF list[n] \notin may THEN after[n-1]
        ELSE Follow(after[n-1], list[n])
  IN  after

\* the lists of the first n keys,
FollowKeys(entries, by_old, may) ==
  LET after[n \in 0..NumKeys] ==
        IF n = 0 THEN entries
        ELSE FollowList(after[n-1], by_old[n], may)[Len(by_old[n])]
  IN  after

\* and all of them n times.
Passes(base, by_old, may) ==
  LET after[n \in 0..NumKeys] ==
        IF n = 0 THEN base ELSE FollowKeys(after[n-1], by_old, may)[NumKeys]
  IN  after

\* extend goes on until nothing is added.  A pass for each key is enough: a key
\* gets one entry for a principal, and gets it from another key's.
Extend(base, by_old, may) == Passes(base, by_old, may)[NumKeys]

\* Step A: the principals a key belongs to, whatever was revoked.
Principals(ctx) ==
  LET may == {t \in Range(ctx.transitions) : t.old \notin Equivocating(ctx)}
      entries == Extend(Base(ctx), ByOld(ctx), may) IN
  [k \in Keys |-> {e.principal : e \in Range(entries[k])}]

\* A directly pinned key of one of these principals, with key-revocation in scope.
HasAuthority(ctx, revoker, principals) ==
  \E p \in Range(ctx.pins) :
    p.key = revoker /\ "revocation" \in p.scope /\ p.principal \in principals

Statements(ctx) == {x.statement : x \in Range(ctx.revocations)}

\* The revocations of k that count as an authority's.
AuthorityOver(ctx, k) ==
  {r \in Statements(ctx) : /\ r.revoked = k /\ r.revoker # k
                           /\ HasAuthority(ctx, r.revoker, Principals(ctx)[k])}

RevokedKeys(ctx) ==
  {k \in Keys : \/ AuthorityOver(ctx, k) # {}
                \/ \E r \in Statements(ctx) : r.revoked = k /\ r.revoker = k}

\* Wrong variant of Cuts: the first authority revocation decides.
CutsOfFirst(ctx) ==
  [k \in RevokedKeys(ctx) |->
     LET by == SelectSeq(ctx.revocations, LAMBDA x : x.statement \in AuthorityOver(ctx, k)) IN
     IF by = << >> THEN [heads |-> {}, releases |-> {}, successors |-> {}]
     ELSE LET r == Head(by).statement IN
          [heads |-> r.heads, releases |-> r.releases, successors |-> r.successors]]

\* Wrong variant of Cuts: what any authority trusts survives.
CutsUnited(ctx) ==
  [k \in RevokedKeys(ctx) |->
     LET by == AuthorityOver(ctx, k) IN
     [heads |-> UNION {r.heads : r \in by}, releases |-> UNION {r.releases : r \in by},
      successors |-> UNION {r.successors : r \in by}]]

\* What all of these sets have in common; nothing when there are none.
Common(sets) == {x \in UNION sets : \A s \in sets : x \in s}

\* Step B: the cut points of every revoked key, none for a key that only revoked
\* itself; the intersection of the authority revocations otherwise.
Cuts(ctx) ==
  [k \in RevokedKeys(ctx) |->
     LET by == AuthorityOver(ctx, k) IN
     [heads      |-> Common({r.heads : r \in by}),
      releases   |-> Common({r.releases : r \in by}),
      successors |-> Common({r.successors : r \in by})]]

\* A revocation an operator passed whose signer has no authority is an error.  Of
\* several copies the first decides where it came from (sort_by_key, dedup_by_key).
NoAuthority(ctx) ==
  \E n \in 1..Len(ctx.revocations) :
    LET x == ctx.revocations[n] IN
    /\ \A m \in 1..(n-1) : ctx.revocations[m].statement # x.statement
    /\ x.source = "operator"
    /\ x.statement.revoker # x.statement.revoked
    /\ ~HasAuthority(ctx, x.statement.revoker, Principals(ctx)[x.statement.revoked])

\* Wrong variant of MayFollow: an equivocating key's transitions are followed.
MayFollowAll(ctx, cuts, t) ==
  t.old \in DOMAIN cuts => t.new \in cuts[t.old].successors

\* Step C: whether a transition may extend trust.
MayFollow(ctx, cuts, t) ==
  IF t.old \in DOMAIN cuts THEN t.new \in cuts[t.old].successors
  ELSE t.old \notin Equivocating(ctx)

\* The keys a followed transition retires, and what they may still sign for.
Retired(ctx, entries, may) ==
  LET by == {t \in may : /\ t.old \notin Equivocating(ctx)
                         /\ \E e \in Range(entries[t.old]) : "transition" \in e.scope} IN
  [k \in {t.old : t \in by} |->
     LET t == CHOOSE x \in by : x.old = k IN [heads |-> t.heads, releases |-> t.releases]]

\* Evaluated.
Evaluate(ctx) ==
  LET cuts == Cuts(ctx)
      may == {t \in Range(ctx.transitions) : MayFollow(ctx, cuts, t)}
      entries == Extend(Base(ctx), ByOld(ctx), may) IN
  [entries |-> entries, revoked |-> cuts, retired |-> Retired(ctx, entries, may)]

-----------------------------------------------------------------------------
(* accept. *)

Covered(heads, position) == \E h \in heads : position <= h

RetirementAllows(r, obj) ==
  CASE obj.kind = "release"    -> obj.id \in r.releases
    [] obj.kind = "transition" -> TRUE
    [] obj.kind = "witness"    -> FALSE
    [] OTHER                   -> Covered(r.heads, obj.id)

RevocationAllows(c, obj) ==
  CASE obj.kind = "release"    -> obj.id \in c.releases
    [] obj.kind = "transition" -> obj.id \in c.successors
    [] obj.kind = "witness"    -> FALSE
    [] OTHER                   -> Covered(c.heads, obj.id)

\* The verdict on a signature by k, in the namespace of the object.
Accept(ev, k, obj) ==
  IF ev.entries[k] = << >> THEN "NotTrusted"
  ELSE IF \A e \in Range(ev.entries[k]) : obj.kind \notin e.scope THEN "OutOfScope"
  ELSE IF k \in DOMAIN ev.retired /\ ~RetirementAllows(ev.retired[k], obj) THEN "Retired"
  ELSE IF k \in DOMAIN ev.revoked /\ ~RevocationAllows(ev.revoked[k], obj) THEN "Revoked"
  ELSE "ok"

\* All verdicts of a context; none when evaluate returns an error.
Verdicts(ctx) ==
  IF NoAuthority(ctx) THEN << >>
  ELSE LET ev == Evaluate(ctx) IN [k \in Keys |-> [obj \in Objects |-> Accept(ev, k, obj)]]

-----------------------------------------------------------------------------
(* Properties. *)

\* The type invariant: the context holds what was supplied.
TrustTypeOK ==
  /\ pins \in Seq(Pins)
  /\ transitions \in Seq({t \in Transitions : t.valid})
  /\ \A r \in Range(revocations) : r.statement \in Revocations /\ r.statement.valid
  /\ Len(transitions) + Len(revocations) <= statements_seen

\* One listing of a set of revocations, the operator's first.
Relisted(rs) ==
  SetToSeq({x \in rs : x.source = "operator"}) \o SetToSeq({x \in rs : x.source # "operator"})

\* "The result depends only on the set of inputs, never on their order": however
\* the statements are ordered or repeated, the verdicts are those of one listing
\* of their set, and so for the pins as long as no key is pinned twice for one
\* principal.
OrderFree ==
  LET distinct == \A p, q \in Range(pins) :
                    p.key = q.key /\ p.principal = q.principal => p = q
      listed == [pins |-> IF distinct THEN SetToSeq(Range(pins)) ELSE pins,
                 transitions |-> SetToSeq(Range(transitions)),
                 revocations |-> Relisted(Range(revocations))] IN
  Verdicts(listed) = Verdicts(Context)

\* The authority revocations of a key by a pin of a principal the key itself is
\* pinned for.
PinnedAuthority(k) ==
  {r \in {x.statement : x \in Range(revocations)} :
     /\ r.revoked = k /\ r.revoker # k
     /\ \E p, q \in Range(pins) :
          /\ p.key = k /\ q.key = r.revoker /\ p.principal = q.principal
          /\ "revocation" \in q.scope}

\* A link of a trust path: a transition the old key signed and the new key
\* accepted, to a key that no authority over the old key leaves out, and that an
\* authority lists unless the old key has no other successor and has not revoked
\* itself.
SoundLink(old, new) ==
  LET by == {r.statement : r \in {x \in Range(revocations) : x.statement.revoked = old}}
      authority == {r \in by : r.revoker # old /\ new \in r.successors} IN
  /\ \E t \in Range(transitions) : t.old = old /\ t.new = new
  /\ \A r \in PinnedAuthority(old) : new \in r.successors
  /\ \/ authority # {}
     \/ /\ \A r \in by : r.revoker # old
        /\ \A t \in Range(transitions) : t.old = old => t.new = new

\* Every accepted signature rests on a pin: a path of sound links leads from a key
\* pinned for the signature's namespace, and for transitions if the path has any.
TrustIsRooted ==
  NoAuthority(Context) \/
  LET ev == Evaluate(Context) IN
  \A k \in Keys, obj \in Objects : Accept(ev, k, obj) = "ok" =>
    \E e \in Range(ev.entries[k]), p \in Range(pins) :
      LET path == e.trust_path IN
      /\ obj.kind \in p.scope
      /\ path[1] = p.key /\ path[Len(path)] = k
      /\ Len(path) > 1 => "transition" \in p.scope
      /\ \A n \in 1..(Len(path) - 1) : SoundLink(path[n], path[n+1])

\* What a revoked key signed counts only as far as every authority over it says
\* so, and not at all after a self-revocation no authority has answered.
RevocationHolds ==
  NoAuthority(Context) \/
  LET ev == Evaluate(Context) IN
  \A k \in Keys, obj \in Objects : Accept(ev, k, obj) = "ok" =>
    /\ \A r \in PinnedAuthority(k) : RevocationAllows(r, obj)
    /\ (\E x \in Range(revocations) : x.statement.revoked = k /\ x.statement.revoker = k)
         => \E x \in Range(revocations) : /\ x.statement.revoked = k /\ x.statement.revoker # k
                                          /\ RevocationAllows(x.statement, obj)

\* "A key that is both retired and revoked must pass both rules": what it signed
\* is accepted only within the final heads and releases of its transition too.
RetiredAndRevoked ==
  NoAuthority(Context) \/
  LET ev == Evaluate(Context) IN
  \A t \in Range(transitions), obj \in Objects :
    /\ t.old \in DOMAIN ev.revoked
    /\ t.old \notin Equivocating(Context)
    /\ \E p \in Range(pins) : p.key = t.old /\ "transition" \in p.scope
    /\ Accept(ev, t.old, obj) = "ok"
    => RetirementAllows(t, obj)
=============================================================================
