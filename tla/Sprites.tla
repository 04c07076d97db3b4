------------------------------ MODULE Sprites ------------------------------
(***************************************************************************)
(* Animated sprites (src/gfx/sprite.cc) of the models objects are made of  *)
(* (src/world/placeable_model.cc), and the cache of the images they hold   *)
(* (src/gfx/surface_cacher.cc), which counts the references to each and    *)
(* keeps those that nobody uses until it takes too much memory.            *)
(*                                                                         *)
(* A model is in a shape; its sprite is loaded when it is drawn first, and *)
(* plays the animation with the name of the shape. A listener of its own   *)
(* is called when the time of a frame is over: the callback sets the time  *)
(* for the next one, and without that the event manager deletes the        *)
(* listener as one that has been raised for the last time.                 *)
(***************************************************************************)
EXTENDS Integers, Sequences, FiniteSets, SequencesExt

CONSTANTS
  ImageOrder,  \* the images, in the order of their names
  Size,        \* memory each of them takes
  CacheSize,   \* MemMax
  WordSize,    \* the counter of memory wraps at this
  Model,       \* placeable_model objects
  ShapeOrder,  \* names of shapes and animations, in order
  Anims,       \* for each file that exists, its animations: sequences of
               \* frames with an image and a delay in milliseconds
  Files,       \* names of files, those that do not exist included
  Second,      \* milliseconds of a second of game time
  Pinned,      \* images used by shadows and decorations
  MaxPins,     \* bound on how often they hold one
  Glyph,       \* characters, in a colour, size and font, that are drawn
  GlyphFore, GlyphBack,  \* the images each of them consists of
  None

Image == Range (ImageOrder)
Shape == Range (ShapeOrder)
GlyphImage == Range (GlyphFore) \cup Range (GlyphBack)
SpriteImage == Image \ GlyphImage

SpritesAssumption ==
  /\ DOMAIN Anims \subseteq Files /\ Second \in Nat \ {0} /\ IsFiniteSet (Model)
  /\ ShapeOrder \in Seq (Shape) /\ ShapeOrder # <<>> /\ None \notin Shape
  /\ \A f \in DOMAIN Anims : DOMAIN Anims[f] # {} /\ DOMAIN Anims[f] \subseteq Shape
  /\ \A f \in DOMAIN Anims : \A a \in DOMAIN Anims[f] :
       Anims[f][a] \in Seq ([image : SpriteImage, delay : Nat]) \ {<<>>}

SurfaceCacheAssumption ==
  /\ ImageOrder \in Seq (Image)
  /\ \A i, j \in DOMAIN ImageOrder : ImageOrder[i] = ImageOrder[j] => i = j
  /\ WordSize \in Nat /\ Size \in [Image -> 0 .. WordSize - 1] /\ CacheSize \in 1 .. WordSize - 1
  /\ Pinned \subseteq SpriteImage /\ MaxPins \in Nat

GlyphsAssumption ==
  IsFiniteSet (Glyph) /\ GlyphFore \in [Glyph -> Image] /\ GlyphBack \in [Glyph -> Image]

VARIABLES
  cache,       \* gfx::surfaces
  pins,        \* surfaces held with get_surface_only and by glyphs, and how often
  model,       \* see ModelType
  glyphs,      \* font_cache.Cache
  uncharged    \* history: the memory of images that came into the cache and
               \* were not added to MemUsed, modulo WordSize

vars == <<cache, pins, model, glyphs, uncharged>>

\* file: Sprite.filename; valid, playing, anim, frame: of the sprite;
\* listener: whether it is paused, waits for its time or has been deleted;
\* due: seconds left until then; shape: CurrentShape.
ModelType == [file : Files, valid : BOOLEAN, playing : BOOLEAN, anim : Shape, frame : Nat \ {0},
              listener : {"paused", "waiting", "deleted"}, due : Nat, shape : Shape \cup {None}]

\* The first of the shapes in a set.
First (S) == ShapeOrder[CHOOSE i \in DOMAIN ShapeOrder :
                          /\ ShapeOrder[i] \in S
                          /\ \A k \in 1 .. i - 1 : ShapeOrder[k] \notin S]

Frames (m) == Anims[m.file][m.anim]

\* date::convert_millis
Seconds (m) == Frames (m)[m.frame].delay \div Second

-----------------------------------------------------------------------------
(* The cache of images. References are objects (surface_ref) that give their *)
(* count back when they are deleted, and so are the entries of the cache and *)
(* the temporary reference that get_surface makes a new entry from.          *)

\* RefCount of each image, or Uncached; MemUsed.
Uncached == -1

CacheType == [count : [Image -> {k \in Int : k >= Uncached}], used : 0 .. WordSize - 1]

EmptyCache == [count |-> [n \in Image |-> Uncached], used |-> 0]

Cached (c, n) == c.count[n] # Uncached

\* conditional_purge: images nobody uses, by name, as long as there is too much.
ConditionalPurge (c, limit) ==
  FoldLeft (LAMBDA d, n : IF d.count[n] = 0 /\ d.used >= limit
                          THEN [count |-> [d.count EXCEPT ![n] = Uncached],
                                used |-> (d.used - Size[n]) % WordSize] ELSE d,
            c, ImageOrder)

\* set_max_mem (0) and back again.
Purge (c) == ConditionalPurge (ConditionalPurge (c, 0), CacheSize)

NewRef (c, n) == [c EXCEPT !.count[n] = @ + 1]

\* free_by_name
Free (c, n) ==
  IF ~ Cached (c, n) THEN c
  ELSE ConditionalPurge ([c EXCEPT !.count[n] = IF @ > 0 THEN @ - 1 ELSE 0], CacheSize)

\* A new entry is counted for itself and for the reference that is returned;
\* the temporary one it is copied from gives one of them back.
AddEntry (c, n, charge) ==
  LET added == [count |-> [c.count EXCEPT ![n] = 2], used |-> (c.used + charge) % WordSize]
  IN Free (ConditionalPurge (added, CacheSize), n)

\* add_surface_mem: the image is given, and its memory is not added up. An entry
\* of the same name is replaced.
AddSurfaceMem (c, n) == AddEntry (c, n, 0)

\* get_surface_mem, and add_surface_mem when that finds nothing.
GetSurfaceMem (c, n) == IF Cached (c, n) THEN NewRef (c, n) ELSE AddSurfaceMem (c, n)

\* get_surface
GetSurface (c, n) == IF Cached (c, n) THEN NewRef (c, n) ELSE AddEntry (c, n, Size[n])

\* get_surface_only: the reference stays when the object is deleted.
GetSurfaceOnly (c, n) == Free (NewRef (GetSurface (c, n), n), n)

-----------------------------------------------------------------------------
(* The sprite *)

\* sprite::stop; an animation of one frame has no use for the listener.
Stop (m) ==
  [m EXCEPT !.playing = FALSE,
            !.listener = IF m.valid /\ Len (Frames (m)) > 1 /\ @ = "waiting" THEN "paused" ELSE @]

\* sprite::play
Play (m) ==
  [m EXCEPT !.playing = TRUE,
            !.listener = IF m.valid /\ Len (Frames (m)) > 1 /\ @ = "paused" THEN "waiting" ELSE @]

\* sprite::change_animation: whether it can, and the sprite then.
CanChange (m, name) == m.valid /\ name \in DOMAIN Anims[m.file]

ChangeAnimation (m, name) ==
  LET changed == [(IF m.playing THEN Stop (m) ELSE m) EXCEPT !.anim = name, !.frame = 1]
  IN [changed EXCEPT !.due = Seconds (changed)]

\* sprite::load
Load (m) ==
  IF m.file \notin DOMAIN Anims THEN m
  ELSE [m EXCEPT !.valid = TRUE, !.anim = First (DOMAIN Anims[m.file]), !.frame = 1]

\* sprite::clear
Clear (m) ==
  [m EXCEPT !.valid = FALSE, !.playing = FALSE,
            !.listener = IF @ = "waiting" THEN "paused" ELSE @]

\* How often an image is in a list.
Occurrences (images, n) == Cardinality ({k \in DOMAIN images : images[k] = n})

\* The images of all frames of a file.
ImagesOf (f) ==
  IF f \notin DOMAIN Anims THEN <<>>
  ELSE FlattenSeq ([i \in DOMAIN ShapeOrder |->
         IF ShapeOrder[i] \in DOMAIN Anims[f]
         THEN [k \in DOMAIN Anims[f][ShapeOrder[i]] |-> Anims[f][ShapeOrder[i]][k].image]
         ELSE <<>>])

-----------------------------------------------------------------------------
(* The model *)

Init ==
  /\ cache = EmptyCache /\ pins = [n \in Image |-> 0] /\ glyphs = {} /\ uncharged = 0
  /\ model \in [Model -> [file : Files, valid : {FALSE}, playing : {FALSE}, anim : {ShapeOrder[1]},
                          frame : {1}, listener : {"paused"}, due : {0}, shape : {None}]]

Become (i, m) == model' = [model EXCEPT ![i] = m]

\* placeable_model::get_sprite: deferred loading.
GetSprite (i) ==
  LET loaded == Load (model[i])
      name == model[i].shape
  IN /\ ~ model[i].valid
     /\ cache' = FoldLeft (GetSurface, cache, ImagesOf (model[i].file))
     /\ Become (i, IF name = None THEN loaded
                   ELSE Play (IF CanChange (loaded, name) THEN ChangeAnimation (loaded, name) ELSE loaded))
     /\ UNCHANGED <<pins, glyphs, uncharged>>

\* placeable_model::set_shape. An empty name stands for the first shape; the
\* sprite is asked for an animation without a name then, which there is not.
SetShape (i, name) ==
  LET m == [model[i] EXCEPT !.shape = IF name = None THEN ShapeOrder[1] ELSE name]
  IN /\ model[i].shape # name
     /\ name = None => ~ model[i].valid
     /\ Become (i, IF CanChange (m, name) THEN Play (ChangeAnimation (m, name)) ELSE m)
     /\ UNCHANGED <<cache, pins, glyphs, uncharged>>

\* placeable_model::set_sprite
SetSprite (i, f) ==
  /\ cache' = IF model[i].valid THEN FoldLeft (Free, cache, ImagesOf (model[i].file)) ELSE cache
  /\ Become (i, [Clear (model[i]) EXCEPT !.file = f])
  /\ UNCHANGED <<pins, glyphs, uncharged>>

\* Shadows and decorations hold a surface without an object for it.
Pin (n) ==
  /\ pins[n] < MaxPins
  /\ pins' = [pins EXCEPT ![n] = @ + 1] /\ cache' = GetSurfaceOnly (cache, n)
  /\ UNCHANGED <<model, glyphs, uncharged>>

Unpin (n) ==
  /\ pins[n] > 0
  /\ pins' = [pins EXCEPT ![n] = @ - 1] /\ cache' = Free (cache, n)
  /\ UNCHANGED <<model, glyphs, uncharged>>

PurgeAll == cache' = Purge (cache) /\ UNCHANGED <<pins, model, glyphs, uncharged>>

\* Memory of an image that comes into the cache uncharged.
Missed (c, n) == IF Cached (c, n) THEN 0 ELSE Size[n]

Holds (g, n) == (IF GlyphFore[g] = n THEN 1 ELSE 0) + (IF GlyphBack[g] = n THEN 1 ELSE 0)

\* font_cache::get and font::create_glyph. Glyphs of different colours may share
\* their background.
DrawGlyph (g) ==
  LET added == AddSurfaceMem (cache, GlyphFore[g])
  IN /\ g \notin glyphs
     /\ glyphs' = glyphs \cup {g}
     /\ cache' = GetSurfaceMem (added, GlyphBack[g])
     /\ pins' = [n \in Image |-> pins[n] + Holds (g, n)]
     /\ uncharged' = (uncharged + Missed (cache, GlyphFore[g]) + Missed (added, GlyphBack[g])) % WordSize
     /\ UNCHANGED model

\* ~glyph_info
FreeGlyph (c, g) == Free (Free (c, GlyphFore[g]), GlyphBack[g])

\* ~font_cache, when the user interface ends (it can be started again): all glyphs,
\* in the order of a hash map.
DeleteFonts ==
  /\ glyphs # {}
  /\ \E order \in SetToSeqs (glyphs) : cache' = FoldLeft (FreeGlyph, cache, order)
  /\ glyphs' = {}
  /\ pins' = [n \in Image |-> IF n \in GlyphImage THEN 0 ELSE pins[n]]
  /\ UNCHANGED <<model, uncharged>>

\* Mutation: no time is set for the next frame, so that the listener is deleted.
UpdateOnce (m) ==
  IF m.valid /\ m.playing /\ Frames (m)[m.frame].delay # 0
  THEN [m EXCEPT !.frame = (@ % Len (Frames (m))) + 1, !.listener = "deleted"]
  ELSE [m EXCEPT !.playing = FALSE, !.listener = "deleted"]

\* sprite::update: the next frame, unless this one stays.
Update (m) ==
  LET next == [m EXCEPT !.frame = (@ % Len (Frames (m))) + 1]
  IN IF m.valid /\ m.playing /\ Frames (m)[m.frame].delay # 0
     THEN [next EXCEPT !.due = Seconds (next)]
     ELSE [m EXCEPT !.playing = FALSE, !.listener = "deleted"]

Due (i) == model[i].listener = "waiting" /\ model[i].due = 0

\* time_event_manager::raise_event
Raise (i) ==
  Due (i) /\ Become (i, Update (model[i])) /\ UNCHANGED <<cache, pins, glyphs, uncharged>>

\* date::update, once all alarms of this second have been raised.
Tick ==
  /\ \A i \in Model : ~ Due (i)
  /\ model' = [i \in Model |-> [model[i] EXCEPT !.due = IF @ > 0 THEN @ - 1 ELSE 0]]
  /\ UNCHANGED <<cache, pins, glyphs, uncharged>>

Next ==
  \/ \E i \in Model :
       \/ GetSprite (i) \/ Raise (i)
       \/ \E name \in Shape \cup {None} : SetShape (i, name)
       \/ \E f \in Files : SetSprite (i, f)
  \/ \E n \in Pinned : Pin (n) \/ Unpin (n)
  \/ \E g \in Glyph : DrawGlyph (g)
  \/ DeleteFonts \/ PurgeAll \/ Tick

Spec == Init /\ [][Next]_vars

-----------------------------------------------------------------------------
(* Properties. *)

\* All parts of the state have their types.
TypeOK ==
  /\ cache \in CacheType /\ model \in [Model -> ModelType]
  /\ pins \in [Image -> Nat] /\ \A n \in Pinned : pins[n] <= MaxPins
  /\ glyphs \subseteq Glyph /\ uncharged \in 0 .. WordSize - 1

\* The listener of a sprite waits for its time just while the sprite plays an
\* animation of several frames: no animation stands still, and no listener is
\* deleted or calls a sprite that does not play.
ListenersFollow ==
  \A i \in Model :
    model[i].listener =
      IF model[i].valid /\ model[i].playing /\ Len (Frames (model[i])) > 1 THEN "waiting" ELSE "paused"

\* What is drawn is the shape the object is in, if there is a picture of it.
ShapeIsShown ==
  \A i \in Model : model[i].valid /\ model[i].shape \in DOMAIN Anims[model[i].file]
    => model[i].anim = model[i].shape

\* The memory that the images in the cache take.
Memory (c) == FoldLeft (LAMBDA sum, n : IF Cached (c, n) THEN sum + Size[n] ELSE sum, 0, ImageOrder)

\* The users of an image: those that hold it, and each frame of each sprite.
Uses (n) ==
  FoldLeft (+, pins[n], [k \in DOMAIN SetToSeq (Model) |->
    LET m == model[SetToSeq (Model)[k]]
    IN IF m.valid THEN Occurrences (ImagesOf (m.file), n) ELSE 0])

\* Every reference is counted once, so that no image in use is dropped and
\* none is kept for ever; the memory that is counted is off that of the images
\* in the cache by what the glyphs were not charged for, and by nothing else;
\* and if it is too much there is no image without a use.
CacheAgrees ==
  /\ \A n \in Image : IF Cached (cache, n) THEN cache.count[n] = Uses (n) ELSE Uses (n) = 0
  /\ cache.used = (Memory (cache) - uncharged) % WordSize
  /\ cache.used >= CacheSize => \A n \in Image : cache.count[n] # 0

\* "return how much memory the cacher is using" (surface_cacher.h).
MemoryKnown == cache.used = Memory (cache)

\* What CacheAgrees is proved for: no glyph replaces an image of another, as those of
\* blanks may, whose names have a colour in them that is not set.
GlyphsUnique == \A g \in Glyph :
  GlyphFore[g] \notin {GlyphFore[h] : h \in Glyph \ {g}} \cup Range (GlyphBack)

\* What ListenersFollow is proved for: no animation of several frames ends in one that
\* stays.
AnimationsGoOn ==
  \A f \in DOMAIN Anims : \A a \in DOMAIN Anims[f] : Len (Anims[f][a]) > 1 =>
    \A k \in DOMAIN Anims[f][a] : Anims[f][a][k].delay # 0
=============================================================================
