------------------------------ MODULE Textures ------------------------------
(***************************************************************************)
(* The textures of the server: TexturePool (texture_pool.cc) holds images  *)
(* and videos by index, and the frames of videos by the id of the quad's   *)
(* buffer; each GLRenderer (plugins/gl_renderer.cc) keeps a copy of them   *)
(* in the OpenGL context of its window.  The pool tells the renderers of a *)
(* change by queued signals; clients change the pool with the /b_ commands *)
(* (osc_handler.cc); the worker of a video adds frames.                    *)
(*                                                                         *)
(* Everything but the worker runs on the main thread.  OpenGL's calls go   *)
(* to the context that was made current last, whosever it is.  A picture   *)
(* is a number: n > 0 for the n-th content that was given to a texture of  *)
(* the pool, 0 for an empty texture, -n for the n-th frame of the window.  *)
(***************************************************************************)
EXTENDS Integers, Sequences, FiniteSets, SequencesExt

CONSTANTS
  Renderers,    (* the GLRenderers there may be                            *)
  MaxTextures,  (* bound: textures in the pool                             *)
  MaxId,        (* bound: buffers of quads, over time                      *)
  MaxPictures,  (* bound: contents given to textures                       *)
  MaxFrames,    (* bound: frames drawn by a renderer                       *)
  MaxFeedback,  (* _max_feedback_frames                                    *)
  MaxName,      (* bound: names of textures in a context                   *)
  MaxEvents,    (* bound: no further command while more events are queued  *)
  Scenes,       (* what there may be to draw: sequences of faces           *)
  Trouble       (* what may go wrong, among "late", "resize", "malformed"  *)

None == -1
Free == -MaxFrames - 1

Id      == 0..MaxId - 1
Name    == 1..MaxName
Picture == 0..MaxPictures

(* A face shows the texture at index tex, if that is a video then the frame *)
(* of buffer frame, or, if past is not 0, a past frame of the window.       *)
Face == [tex: 0..MaxTextures, frame: Id, past: 0..MaxFeedback]

ASSUME BoundsAssumption ==
  /\ {MaxTextures, MaxId, MaxPictures, MaxFrames, MaxName, MaxEvents} \subseteq Nat
  /\ MaxFeedback \in Nat \ {0}
  /\ Scenes \subseteq Seq(Face)
  /\ Trouble \subseteq {"late", "resize", "malformed"}
  /\ None \notin Renderers

VARIABLES
  textures,     (* TexturePool::_textures                                  *)
  frames,       (* TexturePool::_tmp_textures                              *)
  pictures,     (* the number of pictures so far                           *)
  nextID,       (* TexturePool::nextID                                     *)
  quads,        (* the buffers whose quads are alive                       *)
  events,       (* the signals queued to the renderers                     *)
  open,         (* the renderers there are, in the order they were made    *)
  current,      (* the renderer whose context is current, or None          *)
  gl,           (* the contexts                                            *)
  handles,      (* GLRenderer::_texture_handles                            *)
  tmpHandles,   (* GLRenderer::_tmp_texture_handles                        *)
  ring,         (* GLRenderer::_past_frame_handles                         *)
  fbcounter,    (* GLRenderer::_fbcounter                                  *)
  drawn,        (* the number of frames a window has drawn                 *)
  seen          (* history: what the past faces of its last frame showed   *)

poolVars     == <<textures, frames, pictures, nextID, quads>>
feedbackVars == <<ring, fbcounter, drawn, seen>>
windowVars   == <<open, current, gl, handles, tmpHandles, feedbackVars>>
vars         == <<poolVars, events, windowVars>>

-----------------------------------------------------------------------------
(* OpenGL: a context's textures and the one bound to its texture unit *)

Context == [texture: [Name -> Picture \cup -MaxFrames..-1 \cup {Free}], bound: 0..MaxName]

NewContext == [texture |-> [n \in Name |-> Free], bound |-> 0]

Unused(c) == {n \in Name : c.texture[n] = Free}

\* glGenTextures: the smallest name that is unused, if there is one.
Generated(c) == {n \in Unused(c) : \A m \in Unused(c) : n <= m}

\* glBindTexture makes the texture if there is none of that name.
Bound(c, n) ==
  IF n = 0 THEN [c EXCEPT !.bound = 0]
  ELSE [c EXCEPT !.bound = n, !.texture[n] = IF @ = Free THEN 0 ELSE @]

\* glTexImage2D or glCopyTexImage2D, to the texture that is bound.
Filled(c, p) == IF c.bound = 0 THEN c ELSE [c EXCEPT !.texture[c.bound] = p]

\* upload_texture with a handle.
Uploaded(c, n, p) == Filled(Bound(c, n), p)

\* glDeleteTextures ignores names that are not in use.
Deleted(c, n) == [texture |-> [c.texture EXCEPT ![n] = Free],
                  bound   |-> IF c.bound = n THEN 0 ELSE c.bound]

-----------------------------------------------------------------------------
(* The pool *)

Texture == [video: BOOLEAN, pic: Picture]

\* A frame of a video, of the size of the video, empty until one is decoded.
\* announced: the renderers were told when its texture was made.
Frame == [size: {1, 2}, pic: Picture, announced: BOOLEAN]

NoFrame == [size |-> 0, pic |-> 0, announced |-> FALSE]

Event == [to: Renderers, signal: {"changed", "tmp", "delete"}, key: Nat, samep: BOOLEAN]

\* A signal of the pool is queued for every renderer.
Emitted(queue, signal, key, samep) ==
  queue \o [i \in DOMAIN open |->
              [to |-> open[i], signal |-> signal, key |-> key, samep |-> samep]]

texture_changed(index) == Emitted(events, "changed", index, FALSE)

NewPicture == pictures < MaxPictures /\ pictures' = pictures + 1

\* Mutant: the new texture is announced by the number of textures, not by its index.
add_imageByCount ==
  /\ Len(events) <= MaxEvents
  /\ Len(textures) < MaxTextures
  /\ \/ /\ NewPicture
        /\ textures' = Append(textures, [video |-> FALSE, pic |-> pictures'])
     \/ /\ UNCHANGED pictures
        /\ textures' = Append(textures, [video |-> TRUE, pic |-> 0])
  /\ events' = texture_changed(Len(textures'))
  /\ UNCHANGED <<frames, nextID, quads, windowVars>>

\* /b_allocRead, and /b_read beyond the end: an image or a video is added at the
\* end, whatever the index in the message.
add_image ==
  /\ Len(events) <= MaxEvents
  /\ Len(textures) < MaxTextures
  /\ \/ /\ NewPicture
        /\ textures' = Append(textures, [video |-> FALSE, pic |-> pictures'])
     \/ /\ UNCHANGED pictures
        /\ textures' = Append(textures, [video |-> TRUE, pic |-> 0])
  /\ events' = texture_changed(Len(textures') - 1)
  /\ UNCHANGED <<frames, nextID, quads, windowVars>>

\* /b_read of an image to an index that is there.
change_image(index) ==
  /\ Len(events) <= MaxEvents
  /\ NewPicture
  /\ textures' = [textures EXCEPT ![index + 1] = [video |-> FALSE, pic |-> pictures']]
  /\ events' = texture_changed(index)
  /\ UNCHANGED <<frames, nextID, quads, windowVars>>

\* The pixels of an image change; a video has none of its own.
Painted(index) ==
  IF textures[index + 1].video
  THEN UNCHANGED <<textures, pictures>>
  ELSE NewPicture /\ textures' = [textures EXCEPT ![index + 1].pic = pictures']

b_zero(index) ==
  /\ Len(events) <= MaxEvents
  /\ Painted(index)
  /\ events' = texture_changed(index)
  /\ UNCHANGED <<frames, nextID, quads, windowVars>>

\* /b_set, /b_setn and /b_fill leave the loop over the pixels, and with it the
\* signal, at an argument of the wrong type.
b_set(index) ==
  /\ Len(events) <= MaxEvents
  /\ Painted(index)
  /\ events' \in {texture_changed(index)} \cup IF "malformed" \in Trouble THEN {events} ELSE {}
  /\ UNCHANGED <<frames, nextID, quads, windowVars>>

\* TexQuad's constructor: a quad has two buffers.
TexQuad ==
  /\ nextID + 1 < MaxId
  /\ nextID' = nextID + 2
  /\ quads' = quads \cup {nextID, nextID + 1}
  /\ UNCHANGED <<textures, frames, pictures, events, windowVars>>

\* TexQuad's destructor calls delete_textures_at_id for both buffers.
DeleteTexQuad(a, b) ==
  /\ Len(events) <= MaxEvents
  /\ {a, b} \subseteq quads /\ a % 2 = 0 /\ b = a + 1
  /\ quads' = quads \ {a, b}
  /\ frames' = [frames EXCEPT ![a] = NoFrame, ![b] = NoFrame]
  /\ events' = Emitted(Emitted(events, "delete", a, FALSE), "delete", b, FALSE)
  /\ UNCHANGED <<textures, pictures, nextID, windowVars>>

\* The buffers a worker may decode for: it may come late, for a quad that is gone.
Requested == quads \cup IF "late" \in Trouble THEN 0..nextID - 1 ELSE {}

\* The texture that is decoded to: the one there is if its size is right, which it
\* is not if the quad shows another video now; else a new one.
Room(id, size, announced) ==
  IF frames[id].size = size THEN frames[id]
  ELSE [size |-> size, pic |-> 0, announced |-> announced]

\* A worker decodes a frame (module VideoTexture).  It may find no place to seek to
\* or no memory, and says so as if there were a frame; or come to the end of the
\* video, decode nothing or fail to scale it, and say nothing.
really_get_frame(id) ==
  /\ Len(events) <= MaxEvents
  /\ id \in Requested
  /\ \E size \in IF "resize" \in Trouble THEN {1, 2} ELSE {1} :
       LET update_tmp_texture == Emitted(events, "tmp", id, frames[id].size = size)
       IN \/ /\ NewPicture
             /\ frames' = [frames EXCEPT ![id] = [Room(id, size, TRUE) EXCEPT !.pic = pictures']]
             /\ events' = update_tmp_texture
          \/ /\ frames' = [frames EXCEPT ![id] = Room(id, size, TRUE)]
             /\ events' = update_tmp_texture
             /\ UNCHANGED pictures
          \/ /\ frames' = [frames EXCEPT ![id] = Room(id, size, FALSE)]
             /\ UNCHANGED <<pictures, events>>
  /\ UNCHANGED <<textures, nextID, quads, windowVars>>

-----------------------------------------------------------------------------
(* Windows *)

\* Mutant: a new window does not take over the frames there are.
init_texturesImages ==
  [handles |-> [i \in DOMAIN textures |->
                  IF textures[i].video THEN None
                  ELSE Cardinality({j \in 1..i : ~textures[j].video})],
   tmp     |-> [id \in Id |-> None]]

\* The names that init_textures gives to the images, then to the frames.
init_textures ==
  LET images == {i \in DOMAIN textures : ~textures[i].video}
      ids    == {id \in Id : frames[id] # NoFrame}
  IN [handles |-> [i \in DOMAIN textures |->
                     IF i \in images THEN Cardinality({j \in images : j <= i}) ELSE None],
      tmp     |-> [id \in Id |->
                     IF id \in ids
                     THEN Cardinality(images) + Cardinality({k \in ids : k <= id})
                     ELSE None]]

\* The constructor; the window is shown, and so its context initialised, in it.
OpenWindow(r) ==
  /\ r \notin ToSet(open)
  /\ Cardinality({i \in DOMAIN textures : ~textures[i].video})
       + Cardinality({id \in Id : frames[id] # NoFrame}) <= MaxName
  /\ open' = Append(open, r)
  /\ current' = r
  /\ LET names == init_textures
         Shows(n, p) == \/ \E i \in DOMAIN textures : names.handles[i] = n /\ textures[i].pic = p
                        \/ \E id \in Id : names.tmp[id] = n /\ frames[id].pic = p
         used == {n \in Name : \E p \in Picture : Shows(n, p)}
     IN /\ handles' = [handles EXCEPT ![r] = names.handles]
        /\ tmpHandles' = [tmpHandles EXCEPT ![r] = names.tmp]
        /\ gl' = [gl EXCEPT ![r] = [texture |-> [n \in Name |->
                                      IF n \in used THEN CHOOSE p \in Picture : Shows(n, p)
                                      ELSE Free],
                                    bound |-> Cardinality(used)]]
  /\ UNCHANGED <<poolVars, events, feedbackVars>>

EventsForOthers(r) ==
  LET kept[n \in 0..Len(events)] ==
        IF n = 0 THEN <<>>
        ELSE IF events[n].to = r THEN kept[n - 1]
        ELSE Append(kept[n - 1], events[n])
  IN kept[Len(events)]

\* The destructor; Qt throws away the signals that are queued for the renderer.
CloseWindow(r) ==
  /\ \E place \in DOMAIN open : open[place] = r /\ open' = RemoveAt(open, place)
  /\ current' = None
  /\ events' = EventsForOthers(r)
  /\ gl' = [gl EXCEPT ![r] = NewContext]
  /\ handles' = [handles EXCEPT ![r] = <<>>]
  /\ tmpHandles' = [tmpHandles EXCEPT ![r] = [id \in Id |-> None]]
  /\ ring' = [ring EXCEPT ![r] = <<>>]
  /\ fbcounter' = [fbcounter EXCEPT ![r] = 0]
  /\ drawn' = [drawn EXCEPT ![r] = 0]
  /\ seen' = [seen EXCEPT ![r] = {}]
  /\ UNCHANGED poolVars

\* Delivery of the first event, to renderer r, with what it does to the context.
Delivers(signal, r, key) ==
  /\ events # <<>>
  /\ Head(events).signal = signal /\ Head(events).to = r /\ Head(events).key = key
  /\ events' = Tail(events)
  /\ UNCHANGED <<poolVars, open, feedbackVars>>

\* The contexts and the current one after delete_texture, which makes r's current.
After(deletes, r, n) ==
  IF deletes THEN [gl |-> [gl EXCEPT ![r] = Deleted(@, n)], current |-> r]
             ELSE [gl |-> gl, current |-> current]

\* upload_texture into a new texture of whatever context is current.
Generates(s, n, p) ==
  /\ current' = s.current
  /\ IF s.current = None
     THEN n \in Name /\ gl' = s.gl
     ELSE /\ n \in Generated(s.gl[s.current])
          /\ gl' = [s.gl EXCEPT ![s.current] = Uploaded(@, n, p)]

Padded(h, length) == [i \in 1..IF Len(h) < length THEN length ELSE Len(h) |->
                        IF i <= Len(h) THEN h[i] ELSE None]

\* Mutant: the texture there was is not deleted.
change_textureKeeps(r, index) ==
  /\ Delivers("changed", r, index)
  /\ LET h == Padded(handles[r], index + 1)
         s == After(FALSE, r, h[index + 1])
     IN IF textures[index + 1].video
        THEN gl' = s.gl /\ current' = s.current /\ handles' = [handles EXCEPT ![r] = h]
        ELSE \E n \in Name : /\ Generates(s, n, textures[index + 1].pic)
                             /\ handles' = [handles EXCEPT ![r] = [h EXCEPT ![index + 1] = n]]
  /\ UNCHANGED tmpHandles

change_texture(r, index) ==
  /\ Delivers("changed", r, index)
  /\ LET h == Padded(handles[r], index + 1)
         s == After(h[index + 1] # None, r, h[index + 1])
     IN IF textures[index + 1].video
        THEN gl' = s.gl /\ current' = s.current /\ handles' = [handles EXCEPT ![r] = h]
        ELSE \E n \in Name : /\ Generates(s, n, textures[index + 1].pic)
                             /\ handles' = [handles EXCEPT ![r] = [h EXCEPT ![index + 1] = n]]
  /\ UNCHANGED tmpHandles

\* A frame whose quad is gone by now is not uploaded, but its texture deleted.
change_tmp_texture(r, id) ==
  /\ Delivers("tmp", r, id)
  /\ LET samep == Head(events).samep
         h == tmpHandles[r][id]
         s == After(h # None /\ ~samep, r, h)
     IN \/ /\ frames[id] = NoFrame
           /\ gl' = s.gl /\ current' = s.current /\ UNCHANGED tmpHandles
        \/ /\ frames[id] # NoFrame /\ ~samep
           /\ \E n \in Name : /\ Generates(s, n, frames[id].pic)
                              /\ tmpHandles' = [tmpHandles EXCEPT ![r][id] = n]
        \/ /\ frames[id] # NoFrame /\ samep
           /\ gl' = IF current = None THEN gl
                    ELSE [gl EXCEPT ![current] = Uploaded(@, IF h = None THEN 0 ELSE h, frames[id].pic)]
           /\ UNCHANGED <<current, tmpHandles>>
  /\ UNCHANGED handles

\* The handle of the texture that is deleted stays in the hash.
delete_tmp_texture(r, id) ==
  /\ Delivers("delete", r, id)
  /\ LET h == tmpHandles[r][id]
         s == After(h # None, r, h)
     IN gl' = s.gl /\ current' = s.current
  /\ UNCHANGED <<handles, tmpHandles>>

-----------------------------------------------------------------------------
(* Drawing *)

\* The rings of past frames glGenTextures may give: the smallest names, in order.
NewRings(c) ==
  {new \in [1..MaxFeedback -> Unused(c)] :
     \A k \in 1..MaxFeedback :
       {n \in Unused(c) : n < new[k]} = {new[j] : j \in 1..k - 1}}

\* change_feedback_frames, at the first frame, makes the textures of a new ring.
change_feedback_frames(c, new) ==
  [texture |-> [n \in Name |-> IF n \in ToSet(new) THEN 0 ELSE c.texture[n]],
   bound   |-> new[MaxFeedback]]

\* Which texture draw_face binds; None if it leaves the one that is bound.
FaceName(r, past, face) ==
  IF face.past > 0 THEN past[((MaxFeedback - face.past + fbcounter[r]) % MaxFeedback) + 1]
  ELSE IF face.tex >= Len(handles[r]) THEN None
  ELSE IF textures[face.tex + 1].video THEN tmpHandles[r][face.frame]
  ELSE handles[r][face.tex + 1]

ShowsFrame(face) ==
  face.past = 0 /\ face.tex < Len(textures) /\ textures[face.tex + 1].video

\* Mutant: the counter runs past the end of the ring.
NextPlaceOn(k) == k + 1

NextPlace(k) == (k + 1) % MaxFeedback

\* The context after the faces of a scene are drawn one after the other.
Drawn(r, past, start, scene) ==
  LET after[k \in 0..Len(scene)] ==
        IF k = 0 THEN start
        ELSE IF FaceName(r, past, scene[k]) = None THEN after[k - 1]
        ELSE Bound(after[k - 1], FaceName(r, past, scene[k]))
  IN after[Len(scene)]

\* really_process_g draws the faces, and copies the window to the texture that is
\* bound then, if a past frame was among them: glActiveTexture binds no texture.
\* The faces are those of quads that are alive, but for what InFeedback kept.
Draw(r, scene) ==
  /\ r \in ToSet(open)
  /\ drawn[r] < MaxFrames
  /\ \A face \in ToSet(scene) : ShowsFrame(face) => face.frame \in Requested
  /\ drawn' = [drawn EXCEPT ![r] = @ + 1]
  /\ current' = r
  /\ \E past \in IF ring[r] = <<>> THEN NewRings(gl[r]) ELSE {ring[r]} :
       LET start == IF ring[r] = <<>> THEN change_feedback_frames(gl[r], past) ELSE gl[r]
           end   == Drawn(r, past, start, scene)
           pasts == {face \in ToSet(scene) : face.past > 0}
       IN /\ ring' = [ring EXCEPT ![r] = past]
          /\ gl' = [gl EXCEPT ![r] = IF pasts = {} THEN end ELSE Filled(end, -drawn'[r])]
          /\ seen' = [seen EXCEPT ![r] = {<<f.past, start.texture[FaceName(r, past, f)]>> : f \in pasts}]
  /\ fbcounter' = [fbcounter EXCEPT ![r] = NextPlace(@)]
  /\ UNCHANGED <<poolVars, events, open, handles, tmpHandles>>

-----------------------------------------------------------------------------

Init ==
  /\ textures = <<>> /\ pictures = 0
  /\ frames = [id \in Id |-> NoFrame]
  /\ nextID = 0 /\ quads = {}
  /\ events = <<>>
  /\ open = <<>> /\ current = None
  /\ gl = [r \in Renderers |-> NewContext]
  /\ handles = [r \in Renderers |-> <<>>]
  /\ tmpHandles = [r \in Renderers |-> [id \in Id |-> None]]
  /\ ring = [r \in Renderers |-> <<>>]
  /\ fbcounter = [r \in Renderers |-> 0]
  /\ drawn = [r \in Renderers |-> 0]
  /\ seen = [r \in Renderers |-> {}]

Index == 0..Len(textures) - 1

Pool == \/ add_image
        \/ \E index \in Index : change_image(index) \/ b_zero(index) \/ b_set(index)
        \/ TexQuad
        \/ \E a, b \in Id : DeleteTexQuad(a, b)
        \/ \E id \in Id : really_get_frame(id)

Window(r) == \/ OpenWindow(r) \/ CloseWindow(r)
             \/ \E index \in Index : change_texture(r, index)
             \/ \E id \in Id : change_tmp_texture(r, id) \/ delete_tmp_texture(r, id)
             \/ \E scene \in Scenes : Draw(r, scene)

Next == Pool \/ \E r \in Renderers : Window(r)

Spec == Init /\ [][Next]_vars

-----------------------------------------------------------------------------
(* Properties *)

TypeOK ==
  /\ textures \in Seq(Texture) /\ Len(textures) <= MaxTextures
  /\ frames \in [Id -> Frame \cup {NoFrame}]
  /\ pictures \in Picture
  /\ nextID \in 0..MaxId /\ quads \subseteq 0..nextID - 1
  /\ events \in Seq(Event)
  /\ open \in Seq(Renderers)
  /\ current \in ToSet(open) \cup {None}
  /\ gl \in [Renderers -> Context]
  /\ handles \in [Renderers -> Seq(Name \cup {None})]
  /\ \A r \in Renderers : Len(handles[r]) <= Len(textures)
  /\ tmpHandles \in [Renderers -> [Id -> Name \cup {None}]]
  /\ ring \in [Renderers -> Seq(Name)]
  /\ fbcounter \in [Renderers -> 0..MaxFeedback - 1]
  /\ drawn \in [Renderers -> 0..MaxFrames]

Pending(signal, r, key) ==
  \E i \in DOMAIN events : events[i].signal = signal /\ events[i].to = r /\ events[i].key = key

\* Once the signals for an image are delivered the window shows what the pool holds,
\* however the window, images, frames and quads came and went before.  Here and
\* below there is one window, and no Trouble.
WindowShowsPool ==
  \A r \in ToSet(open) : \A index \in Index :
    ~textures[index + 1].video /\ ~Pending("changed", r, index) =>
      /\ index < Len(handles[r]) /\ handles[r][index + 1] # None
      /\ gl[r].texture[handles[r][index + 1]] = textures[index + 1].pic

\* The same of the frames of the quads' videos, but for a texture that was made
\* without a word since its first decoding came to nothing: a window that was
\* there already never gets it, for all that is decoded to it afterwards.
WindowShowsFrames ==
  \A r \in ToSet(open), id \in Id :
    frames[id] # NoFrame /\ ~Pending("tmp", r, id) =>
      IF tmpHandles[r][id] = None THEN ~frames[id].announced
      ELSE gl[r].texture[tmpHandles[r][id]] = frames[id].pic

\* A texture of a context can be reached through the handles of its renderer; the
\* hash's, only as long as there is a quad for it, or word of its end is under way.
NoTextureLeaks ==
  \A r \in ToSet(open) : \A n \in Name \ Unused(gl[r]) :
    \/ n \in ToSet(handles[r]) \cup ToSet(ring[r])
    \/ \E id \in Id : tmpHandles[r][id] = n /\ (id \in quads \/ Pending("delete", r, id))

\* A face that asks for the k-th past frame is given the k-th past frame.
PastFrameIsPast ==
  \A r \in ToSet(open) : \A s \in seen[r] : s[1] < drawn[r] => s[2] = s[1] - drawn[r]
=============================================================================
