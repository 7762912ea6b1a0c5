---------------------------- MODULE MCVisionConsumer ----------------------------
EXTENDS VisionConsumer

\* Messages 1 and 2 are an album, its photo is in 2; 3 is a service message.
MCAlbum == <<1, 1, 0>>
MCPhotos == {2}
MCService == {3}

\* Three texts, or three photos, on their own.
MCSingles == <<0, 0, 0>>
MCNone == {}
MCAll == 1..3
===============================================================================
