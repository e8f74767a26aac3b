SPECIFICATION Spec
CONSTANTS
    Server = "http://pyroscope:4040"
    UploadThreads = {u1, u2}
    JobsSize = 1
    MaxStacks = 3
PROPERTIES
    TrieUploaded
