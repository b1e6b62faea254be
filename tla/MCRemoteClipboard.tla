------------------------- MODULE MCRemoteClipboard -------------------------
(* What programs on the server copy, for RemoteClipboard.                     *)
EXTENDS RemoteClipboard

Text == {"CF_UNICODETEXT"}
Picture == {"PNG", "CF_DIB"}
Bitmap == {"CF_DIB", "CF_DIBV5"}
OldBitmap == {"CF_DIB"}
Files == {"FileGroupDescriptorW"}
FilesAndPicture == {"FileGroupDescriptorW", "PNG"}
TextAndPicture == {"CF_UNICODETEXT", "PNG"}
Unknown == {"Other"}

TextsAndImages == {Text, Picture, Bitmap, OldBitmap, TextAndPicture, Unknown}
Everything == {Text, Picture, Bitmap, OldBitmap, Files, FilesAndPicture,
               TextAndPicture, Unknown}
FilesOrText == {Files, Text}
=============================================================================
